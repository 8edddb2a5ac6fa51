------------------------- MODULE RunValidityProofs --------------------------
(* For any files, runs, readers and writes: what awa run publishes was seen  *)
(* by its command, what it replays is fresh, and what an ordinary scan       *)
(* records is current wherever timestamps or solitude allow it.              *)
EXTENDS RunValidity, TLAPS

LEMMA InitIsTyped == Init => TypeOK
<1> SUFFICES ASSUME Init PROVE TypeOK
  OBVIOUS
<1>1. FilesTyped
  BY DEF Init, FilesTyped, Node, Nothing
<1>2. SharedTyped
  BY DEF Init, SharedTyped, NoRows, Row, Blank, Unknown
<1>3. PhaseTyped
  BY DEF Init, PhaseTyped, Phases
<1>4. ScanTyped
  BY DEF Init, ScanTyped, NoLook, NoRows, Row, Blank, Unknown
<1>5. KeyTyped
  BY DEF Init, KeyTyped, NoRows, Row, Blank, Unknown
<1>6. ChildTyped
  BY DEF Init, ChildTyped, Nothing, Node
<1>7. HitTyped
  BY DEF Init, HitTyped, Nothing, Node
<1> QED
  BY <1>1, <1>2, <1>3, <1>4, <1>5, <1>6, <1>7 DEF TypeOK

LEMMA WriteIsTyped ==
  ASSUME TypeOK, NEW n \in Things, Write(n)
  PROVE  node' \in [Things -> Node] /\ writes' \in Nat /\ clock' \in Nat /\ blurred' \in BOOLEAN
  BY DEF TypeOK, FilesTyped, Write, Node

LEMMA ProjectIsThings == Project \subseteq Things
  BY DEF Project, Things

LEMMA FilesStep == ASSUME TypeOK, [Next]_vars PROVE FilesTyped'
<1>1. CASE Edit
  BY <1>1, WriteIsTyped DEF Edit, TypeOK, FilesTyped
<1>2. CASE Tick
  BY <1>2 DEF Tick, TypeOK, FilesTyped, history
<1>3. CASE \E p \in Procs : Start(p)
  BY <1>3 DEF Start, TypeOK, FilesTyped, world
<1>4. CASE \E p \in Runners : ProbeWrites(p)
  BY <1>4, WriteIsTyped, ProjectIsThings DEF ProbeWrites, TypeOK, FilesTyped, history
<1>5. CASE \E p \in Runners : ChildWrites(p)
  BY <1>5, WriteIsTyped, ProjectIsThings DEF ChildWrites, TypeOK, FilesTyped, history
<1>6. CASE \E p \in Procs : Abandon(p)
  BY <1>6 DEF Abandon, TypeOK, FilesTyped, world
<1>7. CASE \E p \in Runners : RescanFails(p)
  BY <1>7 DEF RescanFails, TypeOK, FilesTyped, world
<1>8. CASE UNCHANGED <<world, history>>
  BY <1>8 DEF TypeOK, FilesTyped, world, history
<1>9. CASE Maintain \/ UNCHANGED vars
  BY <1>9, <1>8 DEF Maintain, vars
<1>10. CASE \E p \in Procs : \/ End(p) \/ Look(p) \/ Reuse(p) \/ Open(p) \/ Read(p) \/ Skip(p)
                             \/ EndScan(p)
  BY <1>10, <1>8 DEF End, Look, Reuse, Open, Read, Skip, EndScan, Record
<1>11. CASE \E p \in Runners : \/ Probe(p) \/ Reprobe(p) \/ EndRescan(p) \/ ObserveEffect(p)
                               \/ ObserveEffectMutation(p) \/ Hit(p) \/ Miss(p)
                               \/ ChildReads(p) \/ ChildExits(p) \/ Publish(p)
  BY <1>11, <1>8 DEF Probe, Reprobe, EndRescan, ObserveEffect, ObserveEffectMutation, Hit, Miss,
                     ChildReads, ChildExits, Publish
<1> QED
  BY <1>1, <1>2, <1>3, <1>4, <1>5, <1>6, <1>7, <1>9, <1>10, <1>11 DEF Next, Step, Run

LEMMA RowsAreTyped == ASSUME TypeOK, NEW p \in Procs PROVE rows[p] \in [Inputs -> Row]
  BY DEF TypeOK, ScanTyped

LEMMA TreeIsTyped ==
  ASSUME NEW r \in [Inputs -> Row]
  PROVE  Tree(r) \in [Inputs -> [skipped : BOOLEAN, id : Int]]
  BY DEF Tree, Row, Unknown

LEMMA NewEntryIsTyped ==
  ASSUME TypeOK, NEW p \in Procs
  PROVE  [key |-> Key(p), saw |-> saw[p], failed |-> failed[p]] \in Entry
<1>1. Tree(before[p]) \in [Inputs -> [skipped : BOOLEAN, id : Int]]
  BY TreeIsTyped DEF TypeOK, KeyTyped
<1>2. effect[p] \in Int /\ facts[p] \in Int
  BY DEF TypeOK, KeyTyped, Unknown
<1>3. saw[p] \in [Things -> Node] /\ failed[p] \in BOOLEAN
  BY DEF TypeOK, ChildTyped
<1> QED
  BY <1>1, <1>2, <1>3 DEF Key, Keys, Entry

LEMMA SharedStep == ASSUME TypeOK, [Next]_vars PROVE SharedTyped'
<1>1. CASE UNCHANGED shared
  BY <1>1 DEF TypeOK, SharedTyped, shared
<1>2. CASE \E p \in Procs : EndScan(p) \/ EndRescan(p)
  BY <1>2, RowsAreTyped DEF EndScan, EndRescan, Persist, TypeOK, SharedTyped
<1>3. CASE \E p \in Procs : Publish(p)
  BY <1>3, NewEntryIsTyped DEF Publish, TypeOK, SharedTyped
<1>4. CASE Maintain
  BY <1>4 DEF Maintain, TypeOK, SharedTyped, NoRows, Row, Blank, Unknown
<1>5. CASE Tick \/ Edit \/ UNCHANGED vars
  BY <1>5, <1>1 DEF Tick, Edit, vars
<1>6. CASE \E p \in Procs : \/ Start(p) \/ End(p) \/ Abandon(p) \/ Look(p) \/ Reuse(p)
                            \/ Open(p) \/ Read(p) \/ Skip(p)
  BY <1>6, <1>1 DEF Start, End, Abandon, Look, Reuse, Open, Read, Skip, Record, shared
<1>7. CASE \E p \in Procs : \/ ProbeWrites(p) \/ Probe(p) \/ Reprobe(p) \/ RescanFails(p)
                            \/ ObserveEffect(p) \/ ObserveEffectMutation(p) \/ Hit(p) \/ Miss(p)
                            \/ ChildReads(p) \/ ChildWrites(p) \/ ChildExits(p)
  BY <1>7, <1>1 DEF ProbeWrites, Probe, Reprobe, RescanFails, ObserveEffect,
       ObserveEffectMutation, Hit, Miss, ChildReads, ChildWrites, ChildExits, shared
<1> QED
  BY <1>2, <1>3, <1>4, <1>5, <1>6, <1>7 DEF Next, Step, Run, Procs

LEMMA ForgetIsTyped ==
  ASSUME TypeOK, NEW p \in Procs, Forget(p)
  PROVE  PhaseTyped' /\ ScanTyped' /\ KeyTyped' /\ ChildTyped' /\ HitTyped'
<1>1. PhaseTyped'
  BY DEF TypeOK, Forget, Goto, PhaseTyped, Phases
<1>2. ScanTyped'
  BY DEF TypeOK, Forget, ScanTyped, NoLook, NoRows, Row, Blank, Unknown
<1>3. KeyTyped'
  BY DEF TypeOK, Forget, KeyTyped, NoRows, Row, Blank, Unknown
<1>4. ChildTyped'
  BY DEF TypeOK, Forget, ChildTyped, Nothing, Node
<1>5. HitTyped'
  BY DEF TypeOK, Forget, HitTyped, Nothing, Node
<1> QED
  BY <1>1, <1>2, <1>3, <1>4, <1>5

(* The actions that forget all a process knew. *)
Forgets(p) ==
    \/ End(p) \/ Abandon(p) \/ Publish(p) \/ (Skip(p) /\ mode[p] = "checkpoint")

LEMMA ForgetsForget == ASSUME NEW p, Forgets(p) PROVE Forget(p)
  BY DEF Forgets, End, Abandon, Publish, Skip

LEMMA RecordIsTyped ==
  ASSUME TypeOK, NEW p \in Procs, AtFile(p), NEW r \in Row, Record(p, r)
  PROVE  ScanTyped' /\ UNCHANGED <<pc, mode, key, child, hit, due>>
<1>1. look[p].at \in Inputs
  BY DEF TypeOK, ScanTyped, AtFile
<1> QED
  BY <1>1 DEF Record, TypeOK, ScanTyped, NoLook

LEMMA RecordingsAreTyped ==
  ASSUME TypeOK, NEW p \in Procs,
         \/ Reuse(p) \/ Read(p) \/ (Skip(p) /\ mode[p] # "checkpoint")
  PROVE  ScanTyped' /\ UNCHANGED <<pc, mode, key, child, hit, due>>
<1>0. look[p].stamp \in Nat /\ (AtFile(p) => look[p].at \in Inputs)
  BY DEF TypeOK, ScanTyped, AtFile
<1>1. CASE Reuse(p)
  BY <1>1, <1>0, RecordIsTyped DEF Reuse, TypeOK, SharedTyped
<1>2. CASE Read(p)
  <2>1. node[look[p].at].ver \in Nat
    BY <1>2, <1>0 DEF Read, TypeOK, FilesTyped, Node, Things
  <2> QED
    BY <1>2, <1>0, <2>1, RecordIsTyped DEF Read, Row
<1>3. CASE Skip(p) /\ mode[p] # "checkpoint"
  BY <1>3, <1>0, RecordIsTyped DEF Skip, Row
<1> QED
  BY <1>1, <1>2, <1>3

LEMMA BlankIsRow == NoRows \in [Inputs -> Row]
  BY DEF NoRows, Row, Blank, Unknown

LEMMA RestStep ==
  ASSUME TypeOK, [Next]_vars
  PROVE  PhaseTyped' /\ ScanTyped' /\ KeyTyped' /\ ChildTyped' /\ HitTyped'
<1>a. ASSUME UNCHANGED <<pc, mode>> PROVE PhaseTyped'
  BY <1>a DEF TypeOK, PhaseTyped
<1>b. ASSUME UNCHANGED scan PROVE ScanTyped'
  BY <1>b DEF TypeOK, ScanTyped, scan
<1>c. ASSUME UNCHANGED key PROVE KeyTyped'
  BY <1>c DEF TypeOK, KeyTyped, key
<1>d. ASSUME UNCHANGED child PROVE ChildTyped'
  BY <1>d DEF TypeOK, ChildTyped, child
<1>e. ASSUME UNCHANGED <<hit, due>> PROVE HitTyped'
  BY <1>e DEF TypeOK, HitTyped
<1>0. ASSUME NEW p \in Procs, mode' = mode, NEW l \in Phases, Goto(p, l) PROVE PhaseTyped'
  BY <1>0 DEF Goto, TypeOK, PhaseTyped
<1>1. CASE Tick \/ Edit \/ Maintain \/ UNCHANGED vars
  BY <1>1, <1>a, <1>b, <1>c, <1>d, <1>e DEF Tick, Edit, Maintain, vars
<1>2. ASSUME NEW p \in Procs, Forgets(p)
      PROVE  PhaseTyped' /\ ScanTyped' /\ KeyTyped' /\ ChildTyped' /\ HitTyped'
  BY <1>2, ForgetsForget, ForgetIsTyped
<1>3. ASSUME NEW p \in Procs, \/ Reuse(p) \/ Read(p) \/ (Skip(p) /\ mode[p] # "checkpoint")
      PROVE  PhaseTyped' /\ ScanTyped' /\ KeyTyped' /\ ChildTyped' /\ HitTyped'
  BY <1>3, RecordingsAreTyped, <1>a, <1>c, <1>d, <1>e
<1>4. ASSUME NEW p \in Procs, Start(p)
      PROVE  PhaseTyped' /\ ScanTyped' /\ KeyTyped' /\ ChildTyped' /\ HitTyped'
  <2>1. PhaseTyped'
    BY <1>4 DEF Start, Visit, TypeOK, PhaseTyped, Phases
  <2>2. ScanTyped'
    BY <1>4 DEF Start, Visit, TypeOK, ScanTyped, NoLook
  <2>3. HitTyped'
    BY <1>4 DEF Start, Visit, TypeOK, HitTyped, FilesTyped
  <2> QED
    BY <1>4, <2>1, <2>2, <2>3, <1>c, <1>d DEF Start
<1>5. ASSUME NEW p \in Procs, Look(p) \/ Open(p)
      PROVE  PhaseTyped' /\ ScanTyped' /\ KeyTyped' /\ ChildTyped' /\ HitTyped'
  <2>1. CASE Look(p)
    <3>1. PICK f \in todo[p] :
            look' = [look EXCEPT ![p] = [at |-> f, stamp |-> node[f].stamp, opened |-> FALSE]]
      BY <2>1 DEF Look
    <3>2. f \in Inputs /\ f # World /\ node[f].stamp \in Nat
      BY ThingsAssumption DEF TypeOK, ScanTyped, FilesTyped, Node, Things
    <3>3. UNCHANGED <<pc, mode, todo, rows, key, child, hit, due>>
      BY <2>1 DEF Look
    <3>4. ScanTyped'
      BY <3>1, <3>2, <3>3 DEF TypeOK, ScanTyped, NoLook
    <3> QED
      BY <3>3, <3>4, <1>a, <1>c, <1>d, <1>e
  <2>2. CASE Open(p)
    <3>1. look[p] \in [at : Inputs \cup {World}, stamp : Nat, opened : BOOLEAN]
          /\ look[p].at # World
      BY <2>2 DEF Open, AtFile, TypeOK, ScanTyped
    <3>2. look' = [look EXCEPT ![p] =
                     [at |-> look[p].at, stamp |-> look[p].stamp, opened |-> TRUE]]
      BY <2>2 DEF Open
    <3>3. UNCHANGED <<pc, mode, todo, rows, key, child, hit, due>>
      BY <2>2 DEF Open
    <3>4. ScanTyped'
      BY <3>1, <3>2, <3>3 DEF TypeOK, ScanTyped, NoLook
    <3> QED
      BY <3>3, <3>4, <1>a, <1>c, <1>d, <1>e
  <2> QED
    BY <1>5, <2>1, <2>2
<1>6. ASSUME NEW p \in Procs, EndScan(p)
      PROVE  PhaseTyped' /\ ScanTyped' /\ KeyTyped' /\ ChildTyped' /\ HitTyped'
  <2>1. PhaseTyped'
    BY <1>6, <1>0 DEF EndScan, Phases
  <2>2. ScanTyped'
    <3>1. rows' \in [Procs -> [Inputs -> Row]]
      BY <1>6, BlankIsRow DEF EndScan, TypeOK, ScanTyped
    <3> QED
      BY <1>6, <3>1 DEF EndScan, TypeOK, ScanTyped, NoLook
  <2>3. KeyTyped'
    BY <1>6, RowsAreTyped DEF EndScan, TypeOK, KeyTyped
  <2> QED
    BY <1>6, <2>1, <2>2, <2>3, <1>d, <1>e DEF EndScan
<1>7. ASSUME NEW p \in Procs, ProbeWrites(p)
      PROVE  PhaseTyped' /\ ScanTyped' /\ KeyTyped' /\ ChildTyped' /\ HitTyped'
  <2>1. HitTyped'
    BY <1>7, WriteIsTyped, ProjectIsThings DEF ProbeWrites, TypeOK, HitTyped
  <2> QED
    BY <1>7, <2>1, <1>a, <1>b, <1>c, <1>d DEF ProbeWrites
<1>8. ASSUME NEW p \in Procs, Probe(p) \/ ObserveEffect(p)
      PROVE  PhaseTyped' /\ ScanTyped' /\ KeyTyped' /\ ChildTyped' /\ HitTyped'
  <2>1. Reported \subseteq Nat \cup {Unknown} /\ Observed \subseteq Nat \cup {Unknown}
    BY DEF Reported, Observed, TypeOK, FilesTyped, Node, Things
  <2>2. KeyTyped'
    BY <1>8, <2>1 DEF Probe, ObserveEffect, TypeOK, KeyTyped
  <2>3. PhaseTyped'
    BY <1>8, <1>0 DEF Probe, ObserveEffect, Phases
  <2> QED
    BY <1>8, <2>2, <2>3, <1>b, <1>d, <1>e DEF Probe, ObserveEffect
<1>9. ASSUME NEW p \in Procs,
             \/ Reprobe(p) \/ EndRescan(p) \/ RescanFails(p) \/ ObserveEffectMutation(p)
      PROVE  PhaseTyped' /\ ScanTyped' /\ KeyTyped' /\ ChildTyped' /\ HitTyped'
  <2>1. PhaseTyped'
    BY <1>9, <1>0 DEF Reprobe, EndRescan, RescanFails, ObserveEffectMutation, Phases
  <2>2. ChildTyped'
    BY <1>9 DEF Reprobe, EndRescan, RescanFails, ObserveEffectMutation, TypeOK, ChildTyped
  <2> QED
    BY <1>9, <2>1, <2>2, <1>b, <1>c, <1>e
       DEF Reprobe, EndRescan, RescanFails, ObserveEffectMutation
<1>10. ASSUME NEW p \in Procs, Hit(p) \/ Miss(p)
       PROVE  PhaseTyped' /\ ScanTyped' /\ KeyTyped' /\ ChildTyped' /\ HitTyped'
  <2>1. PhaseTyped'
    BY <1>10, <1>0 DEF Hit, Miss, Phases
  <2>2. ChildTyped'
    BY <1>10 DEF Hit, Miss, TypeOK, ChildTyped, child
  <2>3. HitTyped'
    BY <1>10 DEF Hit, Miss, Stored, TypeOK, HitTyped, SharedTyped
  <2> QED
    BY <1>10, <2>1, <2>2, <2>3, <1>b, <1>c DEF Hit, Miss
<1>11. ASSUME NEW p \in Procs, ChildReads(p) \/ ChildExits(p) \/ ChildWrites(p)
       PROVE  PhaseTyped' /\ ScanTyped' /\ KeyTyped' /\ ChildTyped' /\ HitTyped'
  <2>1. PhaseTyped'
    BY <1>11, <1>0, <1>a DEF ChildReads, ChildExits, ChildWrites, Phases
  <2>2. ChildTyped'
    <3>1. CASE ChildReads(p)
      BY <3>1 DEF ChildReads, TypeOK, ChildTyped, FilesTyped
    <3>2. CASE ChildExits(p)
      BY <3>2 DEF ChildExits, TypeOK, ChildTyped
    <3> QED
      BY <1>11, <3>1, <3>2, <1>d DEF ChildWrites
  <2>3. ScanTyped'
    BY <1>11, <1>b DEF ChildReads, ChildExits, Visit, ChildWrites, TypeOK, ScanTyped, NoLook
  <2> QED
    BY <1>11, <2>1, <2>2, <2>3, <1>c, <1>e DEF ChildReads, ChildExits, ChildWrites
<1> QED
  BY <1>1, <1>2, <1>3, <1>4, <1>5, <1>6, <1>7, <1>8, <1>9, <1>10, <1>11
     DEF Next, Step, Run, Forgets, Procs

(* Every reachable state is well typed. *)
THEOREM TypeCorrect == Spec => []TypeOK
<1>1. TypeOK /\ [Next]_vars => TypeOK'
  BY FilesStep, SharedStep, RestStep DEF TypeOK
<1> QED
  BY InitIsTyped, <1>1, PTL DEF Spec

-----------------------------------------------------------------------------
(* What a process knows by itself; only its own steps change it. *)
Own(p) == <<pc[p], mode[p], todo[p], look[p], rows[p], before[p], effect[p], facts[p],
            unread[p], saw[p], failed[p], clean[p], hit[p], due[p]>>

Local(p) == Phased(p) /\ KeyIsFresh(p) /\ ReadsAreBracketed(p) /\ CleanIsFaithful(p)

LEMMA LocalFrame == ASSUME NEW p, Own(p)' = Own(p), Local(p) PROVE Local(p)'
<1>1. /\ pc'[p] = pc[p] /\ mode'[p] = mode[p] /\ todo'[p] = todo[p] /\ look'[p] = look[p]
      /\ rows'[p] = rows[p] /\ before'[p] = before[p] /\ effect'[p] = effect[p]
      /\ facts'[p] = facts[p] /\ unread'[p] = unread[p] /\ saw'[p] = saw[p]
      /\ failed'[p] = failed[p] /\ clean'[p] = clean[p] /\ hit'[p] = hit[p] /\ due'[p] = due[p]
  BY DEF Own
<1>2. Phased(p)'
  BY <1>1 DEF Local, Phased
<1>3. KeyIsFresh(p)'
  BY <1>1 DEF Local, KeyIsFresh
<1>4. ReadsAreBracketed(p)'
  BY <1>1 DEF Local, ReadsAreBracketed
<1>5. Storable(p)' = Storable(p)
  BY <1>1 DEF Storable, Cacheable, Skips, Keyed
<1>6. CleanIsFaithful(p)'
  BY <1>1, <1>5 DEF Local, CleanIsFaithful
<1> QED
  BY <1>2, <1>3, <1>4, <1>6 DEF Local

LEMMA OthersKeepTheirOwn ==
  ASSUME TypeOK, NEW p \in Procs, NEW q \in Procs, p # q, Step(q) \/ Run(q)
  PROVE  Own(p)' = Own(p)
<1> USE DEF Own, TypeOK, PhaseTyped, ScanTyped, KeyTyped, ChildTyped, HitTyped
<1>1. CASE Start(q)
  BY <1>1 DEF Start, Visit, key, child
<1>2. CASE Forgets(q)
  BY <1>2, ForgetsForget DEF Forget, Goto
<1>3. CASE Look(q) \/ Open(q)
  BY <1>3 DEF Look, Open, key, child
<1>4. CASE \/ Reuse(q) \/ Read(q) \/ (Skip(q) /\ mode[q] # "checkpoint")
  BY <1>4 DEF Reuse, Read, Skip, Record, key, child
<1>5. CASE EndScan(q)
  BY <1>5 DEF EndScan, Goto, child
<1>6. CASE ProbeWrites(q) \/ Probe(q) \/ Reprobe(q)
  BY <1>6 DEF ProbeWrites, Probe, Reprobe, Goto, scan, key, child
<1>7. CASE EndRescan(q) \/ RescanFails(q)
  BY <1>7 DEF EndRescan, RescanFails, Goto, scan, key
<1>8. CASE ObserveEffect(q) \/ ObserveEffectMutation(q)
  BY <1>8 DEF ObserveEffect, ObserveEffectMutation, Goto, scan, key, child
<1>9. CASE Hit(q) \/ Miss(q)
  BY <1>9 DEF Hit, Miss, Goto, scan, key, child
<1>10. CASE ChildReads(q) \/ ChildWrites(q) \/ ChildExits(q)
  BY <1>10 DEF ChildReads, ChildWrites, ChildExits, Visit, Goto, scan, key, child
<1> QED
  BY <1>1, <1>2, <1>3, <1>4, <1>5, <1>6, <1>7, <1>8, <1>9, <1>10 DEF Step, Run, Forgets

-----------------------------------------------------------------------------
(* Its own steps keep what it knows in order. *)
LEMMA OwnStart ==
  ASSUME TypeOK, Ordered, NEW p \in Procs, Local(p), Start(p) PROVE Local(p)'
<1> USE DEF TypeOK, PhaseTyped, ScanTyped, KeyTyped, HitTyped, Start, Visit, Local, Phased
<1>1. /\ pc'[p] \in {"probe", "scan"} /\ todo'[p] = Inputs /\ look'[p] = NoLook
      /\ facts'[p] = Unknown /\ hit'[p] = {}
  BY DEF key
<1>2. Phased(p)'
  BY <1>1, ProcsAssumption DEF Ran, Procs
<1>3. KeyIsFresh(p)'
  BY <1>1, ThingsAssumption DEF KeyIsFresh, NoLook, Observing
<1>4. ReadsAreBracketed(p)' /\ CleanIsFaithful(p)'
  BY <1>1 DEF ReadsAreBracketed, CleanIsFaithful, Ran
<1> QED
  BY <1>2, <1>3, <1>4

LEMMA OwnForget == ASSUME TypeOK, NEW p \in Procs, Local(p), Forget(p) PROVE Local(p)'
<1> USE DEF TypeOK, PhaseTyped, ScanTyped, KeyTyped, ChildTyped, HitTyped, Forget, Goto
<1>1. /\ pc'[p] = "idle" /\ look'[p] = NoLook /\ facts'[p] = Unknown /\ hit'[p] = {}
      /\ mode'[p] = "none"
  OBVIOUS
<1>2. Phased(p)'
  BY <1>1 DEF Phased, Ran
<1>3. KeyIsFresh(p)' /\ ReadsAreBracketed(p)' /\ CleanIsFaithful(p)'
  BY <1>1 DEF KeyIsFresh, Observing, ReadsAreBracketed, CleanIsFaithful, Ran
<1> QED
  BY <1>2, <1>3 DEF Local

LEMMA OwnLook ==
  ASSUME TypeOK, Ordered, NEW p \in Procs, Local(p), Look(p) PROVE Local(p)'
<1> USE DEF TypeOK, PhaseTyped, ScanTyped
<1>1. PICK f \in todo[p] :
        look' = [look EXCEPT ![p] = [at |-> f, stamp |-> node[f].stamp, opened |-> FALSE]]
  BY DEF Look
<1>2. /\ UNCHANGED <<pc, mode, todo, rows, before, effect, facts, unread, saw, failed, clean,
                     hit, due>>
      /\ pc[p] \in {"scan", "rescan"} /\ f \in Inputs /\ f \in Things
      /\ look'[p].at = f /\ look'[p].stamp = node[f].stamp
  BY <1>1 DEF Look, Scanning, key, child, Things
<1>3. Phased(p)'
  BY <1>2 DEF Local, Phased
<1>4. /\ node[f].stamp >= due[p][f].stamp /\ node[f].stamp >= saw[p][f].stamp
      /\ node[f].stamp \in Nat
  BY <1>2 DEF Ordered, AtMost, FilesTyped, HitTyped, ChildTyped, Node
<1>5. KeyIsFresh(p)'
  BY <1>2, <1>4 DEF Local, KeyIsFresh
<1>6. ReadsAreBracketed(p)'
  BY <1>2, <1>4 DEF Local, ReadsAreBracketed
<1>7. CleanIsFaithful(p)'
  BY <1>2 DEF Local, CleanIsFaithful, Storable, Cacheable, Skips, Keyed
<1> QED
  BY <1>3, <1>5, <1>6, <1>7 DEF Local

LEMMA OwnOpen ==
  ASSUME TypeOK, NEW p \in Procs, Local(p), Open(p) PROVE Local(p)'
<1> USE DEF TypeOK, PhaseTyped, ScanTyped
<1>1. /\ UNCHANGED <<pc, mode, todo, rows, before, effect, facts, unread, saw, failed, clean,
                     hit, due>>
      /\ pc[p] \in {"scan", "rescan"}
      /\ look'[p].at = look[p].at /\ look'[p].stamp = look[p].stamp
  BY DEF Open, AtFile, Scanning, key, child
<1>2. Phased(p)'
  BY <1>1 DEF Local, Phased
<1>3. KeyIsFresh(p)' /\ ReadsAreBracketed(p)'
  BY <1>1 DEF Local, KeyIsFresh, ReadsAreBracketed
<1>4. CleanIsFaithful(p)'
  BY <1>1 DEF Local, CleanIsFaithful, Storable, Cacheable, Skips, Keyed
<1> QED
  BY <1>2, <1>3, <1>4 DEF Local

(* What a scan records of the file it is at. *)
LEMMA OwnRecord ==
  ASSUME TypeOK, NEW p \in Procs, Local(p), AtFile(p), NEW r \in Row, Record(p, r),
         r.stamp = look[p].stamp,
         p \in Runners => r.ver = Unknown \/ r.ver = node[look[p].at].ver, Ordered
  PROVE  Local(p)'
<1> DEFINE f == look[p].at
<1> USE DEF TypeOK, PhaseTyped, ScanTyped
<1>1. /\ f \in Inputs /\ f \in Things /\ pc[p] \in {"scan", "rescan"}
      /\ UNCHANGED <<pc, mode, before, effect, facts, unread, saw, failed, clean, hit, due>>
      /\ rows'[p] = [rows[p] EXCEPT ![f] = r]
      /\ todo'[p] = todo[p] \ {f} /\ look'[p] = NoLook
  BY DEF AtFile, Scanning, Record, key, child, Things
<1>2. Phased(p)'
  BY <1>1 DEF Local, Phased
<1>3. /\ node[f].ver >= due[p][f].ver /\ node[f].ver >= saw[p][f].ver /\ node[f].ver \in Nat
  BY <1>1 DEF Ordered, AtMost, FilesTyped, HitTyped, ChildTyped, Node
<1>4. \A g \in Inputs : rows'[p][g] = IF g = f THEN r ELSE rows[p][g]
  BY <1>1
<1>5. \A g \in Inputs : look'[p].at # g
  BY <1>1, ThingsAssumption DEF NoLook
<1>6. KeyIsFresh(p)'
  <2>1. p \in Runners /\ pc[p] = "scan" => AtLeast(r, due[p][f])
    BY <1>1, <1>3 DEF Local, KeyIsFresh, AtLeast
  <2>2. p \in Readers /\ pc[p] = "scan" => r.stamp >= due[p][f].stamp
    BY <1>1 DEF Local, KeyIsFresh
  <2> QED
    BY <1>1, <1>4, <1>5, <2>1, <2>2 DEF Local, KeyIsFresh
<1>7. ReadsAreBracketed(p)'
  <2>1. pc[p] = "rescan" => p \in Runners
    BY DEF Local, Phased, Procs
  <2>2. pc[p] = "rescan" => AtLeast(r, saw[p][f])
    BY <1>1, <1>3, <2>1 DEF Local, ReadsAreBracketed, AtLeast
  <2> QED
    BY <1>1, <1>4, <1>5, <2>2 DEF Local, ReadsAreBracketed
<1>8. CleanIsFaithful(p)'
  BY <1>1 DEF Local, CleanIsFaithful, Storable, Cacheable, Skips, Keyed
<1> QED
  BY <1>2, <1>6, <1>7, <1>8 DEF Local

LEMMA OwnRecordings ==
  ASSUME TypeOK, Ordered, NEW p \in Procs, Local(p),
         \/ Reuse(p) \/ Read(p) \/ (Skip(p) /\ mode[p] # "checkpoint")
  PROVE  Local(p)'
<1>0. look[p].stamp \in Nat /\ (AtFile(p) => look[p].at \in Inputs /\ look[p].at \in Things)
  BY DEF TypeOK, ScanTyped, AtFile, Things
<1>1. CASE Reuse(p)
  BY <1>1, <1>0, OwnRecord, ProcsAssumption DEF Reuse, Reusable, TypeOK, SharedTyped
<1>2. CASE Read(p)
  <2>1. node[look[p].at].ver \in Nat
    BY <1>2, <1>0 DEF Read, TypeOK, FilesTyped, Node
  <2> DEFINE r == [ver |-> node[look[p].at].ver, stamp |-> look[p].stamp]
  <2>2. r \in Row /\ r.stamp = look[p].stamp /\ r.ver = node[look[p].at].ver
    BY <1>0, <2>1 DEF Row
  <2>3. AtFile(p) /\ Record(p, r)
    BY <1>2 DEF Read
  <2> QED
    BY <2>2, <2>3, OwnRecord
<1>3. CASE Skip(p) /\ mode[p] # "checkpoint"
  <2> DEFINE r == [ver |-> Unknown, stamp |-> look[p].stamp]
  <2>1. r \in Row /\ r.stamp = look[p].stamp /\ r.ver = Unknown
    BY <1>0 DEF Row
  <2>2. AtFile(p) /\ Record(p, r)
    BY <1>3 DEF Skip
  <2> QED
    BY <2>1, <2>2, OwnRecord
<1> QED
  BY <1>1, <1>2, <1>3

LEMMA OwnEndScan == ASSUME TypeOK, NEW p \in Procs, Local(p), EndScan(p) PROVE Local(p)'
<1> USE DEF TypeOK, PhaseTyped, ScanTyped, KeyTyped, EndScan, Goto
<1>1. /\ UNCHANGED <<mode, todo, look, effect, facts, unread, saw, failed, clean, hit, due>>
      /\ pc[p] = "scan" /\ todo[p] = {} /\ look[p] = NoLook
  BY DEF Scanned, child
<1>2. CASE p \in Readers
  <2>1. pc'[p] = "done" /\ rows' = rows /\ before' = before
    BY <1>2
  <2>2. Phased(p)'
    BY <1>1, <2>1 DEF Local, Phased, Ran
  <2>3. KeyIsFresh(p)'
    BY <1>1, <1>2, <2>1, ThingsAssumption, ProcsAssumption
       DEF Local, KeyIsFresh, Observing, NoLook
  <2>4. ReadsAreBracketed(p)' /\ CleanIsFaithful(p)'
    BY <2>1 DEF ReadsAreBracketed, CleanIsFaithful, Ran
  <2> QED
    BY <2>2, <2>3, <2>4 DEF Local
<1>3. CASE p \notin Readers
  <2>1. pc'[p] = "effect" /\ before'[p] = rows[p]
    BY <1>3
  <2>2. Phased(p)'
    BY <1>1, <1>3, <2>1 DEF Local, Phased, Ran
  <2>3. \A f \in Inputs : AtLeast(rows[p][f], due[p][f])
    BY <1>1, <1>3 DEF Local, KeyIsFresh, Procs
  <2>4. KeyIsFresh(p)'
    BY <1>1, <1>3, <2>1, <2>3 DEF Local, KeyIsFresh, Observing
  <2>5. ReadsAreBracketed(p)' /\ CleanIsFaithful(p)'
    BY <2>1 DEF ReadsAreBracketed, CleanIsFaithful, Ran
  <2> QED
    BY <2>2, <2>4, <2>5 DEF Local
<1> QED
  BY <1>2, <1>3

LEMMA OwnProbeWrites ==
  ASSUME TypeOK, NEW p \in Procs, Local(p), ProbeWrites(p) PROVE Local(p)'
<1>1. /\ UNCHANGED <<pc, mode, todo, look, rows, before, effect, facts, unread, saw, failed,
                     clean, hit>>
      /\ pc[p] \in {"probe", "reprobe"}
  BY DEF ProbeWrites, scan, key, child
<1>2. Phased(p)'
  BY <1>1 DEF Local, Phased
<1>3. KeyIsFresh(p)'
  BY <1>1 DEF Local, KeyIsFresh, Observing
<1>4. ReadsAreBracketed(p)'
  BY <1>1 DEF Local, ReadsAreBracketed
<1>5. CleanIsFaithful(p)'
  BY <1>1 DEF Local, CleanIsFaithful
<1> QED
  BY <1>2, <1>3, <1>4, <1>5 DEF Local

LEMMA OwnProbe ==
  ASSUME TypeOK, Ordered, NEW p \in Procs, Local(p), Probe(p) PROVE Local(p)'
<1> USE DEF TypeOK, PhaseTyped, ScanTyped, KeyTyped, Probe, Goto
<1>1. /\ UNCHANGED <<mode, todo, look, rows, before, effect, unread, saw, failed, clean, hit, due>>
      /\ pc[p] = "probe" /\ pc'[p] = "scan"
      /\ facts'[p] = Unknown \/ facts'[p] = node[World].ver
  BY DEF Reported, scan, child
<1>2. Phased(p)'
  BY <1>1 DEF Local, Phased, Ran
<1>3. World \in Things /\ node[World].ver >= due[p][World].ver
  BY DEF Ordered, AtMost, Things, FilesTyped, HitTyped, Node
<1>4. todo[p] = Inputs /\ look[p] = NoLook
  BY <1>1 DEF Local, Phased
<1>5. KeyIsFresh(p)'
  BY <1>1, <1>3, <1>4, ThingsAssumption DEF KeyIsFresh, Observing, NoLook
<1>6. ReadsAreBracketed(p)' /\ CleanIsFaithful(p)'
  BY <1>1 DEF ReadsAreBracketed, CleanIsFaithful, Ran
<1> QED
  BY <1>2, <1>5, <1>6 DEF Local

LEMMA OwnObserveEffect ==
  ASSUME TypeOK, Ordered, NEW p \in Procs, Local(p), ObserveEffect(p) PROVE Local(p)'
<1> USE DEF TypeOK, PhaseTyped, KeyTyped, ObserveEffect, Goto
<1>1. /\ UNCHANGED <<mode, todo, look, rows, before, facts, unread, saw, failed, clean, hit, due>>
      /\ pc[p] = "effect" /\ pc'[p] = "lookup"
      /\ effect'[p] = Unknown \/ effect'[p] = node[Watched].stamp
  BY DEF Observed, scan, child
<1>2. Phased(p)'
  BY <1>1 DEF Local, Phased, Ran
<1>3. Watched \in Things /\ node[Watched].stamp >= due[p][Watched].stamp
  BY DEF Ordered, AtMost, Things, FilesTyped, HitTyped, Node
<1>4. KeyIsFresh(p)'
  BY <1>1, <1>3 DEF Local, KeyIsFresh, Observing
<1>5. ReadsAreBracketed(p)' /\ CleanIsFaithful(p)'
  BY <1>1 DEF ReadsAreBracketed, CleanIsFaithful, Ran
<1> QED
  BY <1>2, <1>4, <1>5 DEF Local

LEMMA OwnHit == ASSUME TypeOK, NEW p \in Procs, Local(p), Hit(p) PROVE Local(p)'
<1>1. /\ UNCHANGED <<mode, todo, look, rows, before, effect, facts, unread, saw, failed,
                     clean, due>>
      /\ pc[p] = "lookup" /\ pc'[p] = "done"
  BY DEF Hit, Goto, scan, key, child, TypeOK, PhaseTyped
<1>2. Phased(p)' /\ p \notin Readers
  BY <1>1 DEF Local, Phased, Ran
<1>3. KeyIsFresh(p)'
  BY <1>1, <1>2 DEF KeyIsFresh, Observing
<1>4. ReadsAreBracketed(p)' /\ CleanIsFaithful(p)'
  BY <1>1 DEF ReadsAreBracketed, CleanIsFaithful, Ran
<1> QED
  BY <1>2, <1>3, <1>4 DEF Local

LEMMA OwnMiss == ASSUME TypeOK, NEW p \in Procs, Local(p), Miss(p) PROVE Local(p)'
<1>1. /\ UNCHANGED <<mode, todo, look, rows, before, effect, facts, saw, failed, clean, hit, due>>
      /\ pc[p] = "lookup" /\ pc'[p] = "child"
      /\ unread'[p] = {n \in Things : n = World => Probing}
  BY DEF Miss, Goto, scan, key, TypeOK, PhaseTyped, ChildTyped
<1>2. Phased(p)'
  BY <1>1 DEF Local, Phased, Ran
<1>3. KeyIsFresh(p)'
  BY <1>1 DEF KeyIsFresh, Observing
<1>4. /\ Inputs \subseteq unread'[p] /\ Watched \in unread'[p]
      /\ Probing => World \in unread'[p]
  BY <1>1, ThingsAssumption DEF Things
<1>5. ReadsAreBracketed(p)' /\ CleanIsFaithful(p)'
  BY <1>1, <1>4 DEF ReadsAreBracketed, CleanIsFaithful, Ran
<1> QED
  BY <1>2, <1>3, <1>5 DEF Local

LEMMA OwnChildReads ==
  ASSUME TypeOK, Ordered, NEW p \in Procs, Local(p), ChildReads(p) PROVE Local(p)'
<1> USE DEF TypeOK, PhaseTyped, ChildTyped
<1>1. /\ UNCHANGED <<pc, mode, todo, look, rows, before, effect, facts, failed, clean, hit, due>>
      /\ pc[p] = "child"
  BY DEF ChildReads, scan, key
<1>2. PICK n \in unread[p] : /\ saw' = [saw EXCEPT ![p][n] = node[n]]
                             /\ unread' = [unread EXCEPT ![p] = @ \ {n}]
  BY DEF ChildReads
<1>3. /\ unread'[p] = unread[p] \ {n} /\ n \in Things
      /\ \A k \in Things : saw'[p][k] = IF k = n THEN node[n] ELSE saw[p][k]
  BY <1>2
<1>4. Phased(p)'
  BY <1>1 DEF Local, Phased
<1>5. KeyIsFresh(p)'
  BY <1>1 DEF Local, KeyIsFresh, Observing
<1>6. ReadsAreBracketed(p)'
  <2>1. \A f \in Inputs \ unread'[p] :
           before[p][f].ver <= saw'[p][f].ver /\ before[p][f].stamp <= saw'[p][f].stamp
    BY <1>1, <1>3 DEF Local, ReadsAreBracketed, Ran, Ordered, AtMost, Things
  <2>2. Watched \notin unread'[p] => effect[p] <= saw'[p][Watched].stamp
    BY <1>1, <1>3 DEF Local, ReadsAreBracketed, Ran, Ordered, Things
  <2>3. Probing /\ World \notin unread'[p] => facts[p] <= saw'[p][World].ver
    BY <1>1, <1>3 DEF Local, ReadsAreBracketed, Ran, Ordered, Things
  <2> QED
    BY <1>1, <2>1, <2>2, <2>3 DEF ReadsAreBracketed
<1>7. CleanIsFaithful(p)'
  BY <1>1 DEF CleanIsFaithful
<1> QED
  BY <1>4, <1>5, <1>6, <1>7 DEF Local

LEMMA OwnChildExits == ASSUME TypeOK, NEW p \in Procs, Local(p), ChildExits(p) PROVE Local(p)'
<1> USE DEF TypeOK, PhaseTyped, ScanTyped, ChildTyped
<1>1. /\ UNCHANGED <<mode, look, rows, before, effect, facts, unread, saw, clean, hit, due>>
      /\ pc[p] = "child" /\ pc'[p] \in {"reprobe", "rescan"}
      /\ unread[p] = {} /\ todo'[p] = Inputs
  BY DEF ChildExits, Visit, Goto, key
<1>2. pc'[p] = "rescan" => ~(Probing /\ Storable(p)')
  <2>1. PICK b \in BOOLEAN :
          /\ failed' = [failed EXCEPT ![p] = b]
          /\ Goto(p, IF Probing /\ Cacheable(p) /\ (b => CacheFailed /\ mode[p] # "noFailures")
                     THEN "reprobe" ELSE "rescan")
    BY DEF ChildExits
  <2>2. failed'[p] = b /\ Cacheable(p)' = Cacheable(p)
    BY <1>1, <2>1 DEF Cacheable, Skips, Keyed
  <2> QED
    BY <1>1, <2>1, <2>2 DEF Goto, Storable
<1>3. look[p] = NoLook
  BY <1>1 DEF Local, Phased
<1>4. Phased(p)'
  BY <1>1, <1>3 DEF Local, Phased, Ran
<1>5. KeyIsFresh(p)'
  BY <1>1, <1>4, ProcsAssumption DEF KeyIsFresh, Observing
<1>6. ReadsAreBracketed(p)'
  BY <1>1, <1>3, ThingsAssumption DEF Local, ReadsAreBracketed, Ran, NoLook
<1>7. CleanIsFaithful(p)'
  BY <1>1, <1>2 DEF CleanIsFaithful
<1> QED
  BY <1>4, <1>5, <1>6, <1>7 DEF Local

LEMMA Between == ASSUME NEW a \in Nat, NEW b \in Nat, a <= b, b <= a PROVE b = a
  OBVIOUS

LEMMA OwnReprobe ==
  ASSUME TypeOK, Ordered, NEW p \in Procs, Local(p), Reprobe(p) PROVE Local(p)'
<1> USE DEF TypeOK, PhaseTyped, ChildTyped
<1>1. /\ UNCHANGED <<mode, todo, look, rows, before, effect, facts, unread, saw, failed, hit, due>>
      /\ pc[p] = "reprobe" /\ pc'[p] = "rescan"
  BY DEF Reprobe, Goto, scan, key
<1>2. clean'[p] => facts[p] = node[World].ver
  BY DEF Reprobe, Reported
<1>3. todo[p] = Inputs /\ look[p] = NoLook /\ unread[p] = {}
  BY <1>1 DEF Local, Phased, Ran
<1>4. Phased(p)'
  BY <1>1, <1>3 DEF Local, Phased, Ran
<1>5. KeyIsFresh(p)'
  BY <1>1, <1>4, ProcsAssumption DEF KeyIsFresh, Observing
<1>6. ReadsAreBracketed(p)'
  BY <1>1, <1>3, ThingsAssumption DEF Local, ReadsAreBracketed, Ran, NoLook
<1>7. CleanIsFaithful(p)'
  <2>1. Probing => facts[p] <= saw[p][World].ver
    BY <1>1, <1>3 DEF Local, ReadsAreBracketed, Ran
  <2>2. saw[p][World].ver <= node[World].ver /\ saw[p][World].ver \in Nat /\ node[World].ver \in Nat
    BY DEF Ordered, AtMost, Things, FilesTyped, Node
  <2>3. ASSUME Probing, clean'[p] PROVE saw'[p][World].ver = facts'[p]
    <3>1. facts[p] = node[World].ver /\ facts[p] <= saw[p][World].ver
      BY <1>2, <2>1, <2>3
    <3>2. saw[p][World].ver = facts[p]
      BY <2>2, <3>1, Between
    <3> QED
      BY <1>1, <3>2
  <2> QED
    BY <1>1, <2>3 DEF CleanIsFaithful
<1> QED
  BY <1>4, <1>5, <1>6, <1>7 DEF Local

(* Two scans that agree on a file agree with whatever lies between them. *)
LEMMA Squeeze ==
  ASSUME NEW b \in [Inputs -> Row], NEW r \in [Inputs -> Row], NEW s \in [Inputs -> Node],
         Tree(r) = Tree(b), NEW f \in Inputs,
         b[f].ver <= s[f].ver, b[f].stamp <= s[f].stamp, AtLeast(r[f], s[f])
  PROVE  Agrees(b[f], s[f])
<1>1. Tree(r)[f] = Tree(b)[f]
  OBVIOUS
<1>2. CASE b[f].ver = Unknown
  <2>1. r[f].ver = Unknown /\ r[f].stamp = b[f].stamp
    BY <1>1, <1>2 DEF Tree
  <2>2. b[f].stamp \in Nat /\ s[f].stamp \in Nat
    BY DEF Row, Node
  <2>3. s[f].stamp <= b[f].stamp
    BY <2>1, <2>2 DEF AtLeast
  <2>4. s[f].stamp = b[f].stamp
    BY <2>2, <2>3, Between
  <2> QED
    BY <1>2, <2>4 DEF Agrees
<1>3. CASE b[f].ver # Unknown
  <2>0. b[f].ver \in Nat /\ s[f].ver \in Nat
    BY <1>3 DEF Row, Node
  <2>1. r[f].ver # Unknown /\ r[f].ver = b[f].ver
    BY <1>1, <1>3 DEF Tree
  <2>2. s[f].ver <= b[f].ver
    BY <2>0, <2>1 DEF AtLeast
  <2>3. s[f].ver = b[f].ver
    BY <2>0, <2>2, Between
  <2> QED
    BY <1>3, <2>3 DEF Agrees
<1> QED
  BY <1>2, <1>3

LEMMA OwnEndRescan == ASSUME TypeOK, NEW p \in Procs, Local(p), EndRescan(p) PROVE Local(p)'
<1> USE DEF TypeOK, PhaseTyped, ChildTyped
<1>1. /\ UNCHANGED <<mode, todo, look, rows, before, effect, facts, unread, saw, failed, hit, due>>
      /\ pc[p] = "rescan" /\ pc'[p] = "reeffect" /\ todo[p] = {} /\ look[p] = NoLook
      /\ clean'[p] => clean[p] /\ Tree(rows[p]) = Tree(before[p])
  BY DEF EndRescan, Scanned, Goto, scan, key
<1>2. Phased(p)'
  BY <1>1 DEF Local, Phased, Ran
<1>3. KeyIsFresh(p)'
  BY <1>1, <1>2, ProcsAssumption DEF KeyIsFresh, Observing
<1>4. unread[p] = {}
  BY <1>1 DEF Local, Phased, Ran
<1>5. ReadsAreBracketed(p)'
  BY <1>1, <1>4 DEF Local, ReadsAreBracketed, Ran
<1>6. ASSUME clean'[p], NEW f \in Inputs PROVE Agrees(before[p][f], saw[p][f])
  <2>1. /\ before[p][f].ver <= saw[p][f].ver /\ before[p][f].stamp <= saw[p][f].stamp
        /\ AtLeast(rows[p][f], saw[p][f])
    BY <1>1, <1>4 DEF Local, ReadsAreBracketed, Ran
  <2> DEFINE s == [g \in Inputs |-> saw[p][g]]
  <2>2. s \in [Inputs -> Node] /\ before[p] \in [Inputs -> Row] /\ rows[p] \in [Inputs -> Row]
    BY DEF ScanTyped, KeyTyped, Things
  <2>3. s[f] = saw[p][f]
    OBVIOUS
  <2> HIDE DEF s
  <2> QED
    BY <1>1, <1>6, <2>1, <2>2, <2>3, Squeeze
<1>7. CleanIsFaithful(p)'
  <2>1. Storable(p)' = Storable(p)
    BY <1>1 DEF Storable, Cacheable, Skips, Keyed
  <2> QED
    BY <1>1, <1>6, <2>1 DEF Local, CleanIsFaithful
<1> QED
  BY <1>2, <1>3, <1>5, <1>7 DEF Local

LEMMA OwnRescanFails ==
  ASSUME TypeOK, NEW p \in Procs, Local(p), RescanFails(p) PROVE Local(p)'
<1> USE DEF TypeOK, PhaseTyped, ChildTyped
<1>1. /\ UNCHANGED <<mode, todo, look, rows, before, effect, facts, unread, saw, failed, hit, due>>
      /\ pc[p] = "rescan" /\ pc'[p] = "reeffect" /\ ~clean'[p]
  BY DEF RescanFails, Goto, scan, key
<1>2. Phased(p)'
  BY <1>1 DEF Local, Phased, Ran
<1>3. KeyIsFresh(p)'
  BY <1>1, <1>2, ProcsAssumption DEF KeyIsFresh, Observing
<1>4. ReadsAreBracketed(p)'
  BY <1>1 DEF Local, Phased, ReadsAreBracketed, Ran
<1>5. CleanIsFaithful(p)'
  BY <1>1 DEF CleanIsFaithful
<1> QED
  BY <1>2, <1>3, <1>4, <1>5 DEF Local

LEMMA OwnObserveEffectMutation ==
  ASSUME TypeOK, Ordered, NEW p \in Procs, Local(p), ObserveEffectMutation(p) PROVE Local(p)'
<1> USE DEF TypeOK, PhaseTyped, ChildTyped
<1>1. /\ UNCHANGED <<mode, todo, look, rows, before, effect, facts, unread, saw, failed, hit, due>>
      /\ pc[p] = "reeffect" /\ pc'[p] = "publish"
      /\ clean'[p] => clean[p] /\ effect[p] = node[Watched].stamp
  BY DEF ObserveEffectMutation, Observed, Goto, scan, key
<1>2. Phased(p)'
  BY <1>1 DEF Local, Phased, Ran
<1>3. KeyIsFresh(p)'
  BY <1>1, <1>2, ProcsAssumption DEF KeyIsFresh, Observing
<1>4. ReadsAreBracketed(p)' /\ (unread[p] = {})
  BY <1>1 DEF Local, Phased, ReadsAreBracketed, Ran
<1>5. CleanIsFaithful(p)'
  <2>1. Storable(p)' = Storable(p)
    BY <1>1 DEF Storable, Cacheable, Skips, Keyed
  <2>2. effect[p] <= saw[p][Watched].stamp
    BY <1>1, <1>4 DEF Local, ReadsAreBracketed, Ran
  <2>3. /\ saw[p][Watched].stamp <= node[Watched].stamp
        /\ saw[p][Watched].stamp \in Nat /\ node[Watched].stamp \in Nat
    BY DEF Ordered, AtMost, Things, FilesTyped, Node
  <2>4. ASSUME clean'[p] PROVE saw'[p][Watched].stamp = effect'[p]
    <3>1. effect[p] = node[Watched].stamp
      BY <1>1, <2>4
    <3>2. saw[p][Watched].stamp = effect[p]
      BY <2>2, <2>3, <3>1, Between
    <3> QED
      BY <1>1, <3>2
  <2>5. clean'[p] => \A f \in Inputs : Agrees(before[p][f], saw[p][f])
    BY <1>1 DEF Local, CleanIsFaithful
  <2>6. clean'[p] /\ Probing /\ Storable(p) => saw[p][World].ver = facts[p]
    BY <1>1 DEF Local, CleanIsFaithful
  <2> QED
    BY <1>1, <2>1, <2>4, <2>5, <2>6 DEF CleanIsFaithful
<1> QED
  BY <1>2, <1>3, <1>4, <1>5 DEF Local

LEMMA OwnChildWrites ==
  ASSUME TypeOK, NEW p \in Procs, Local(p), ChildWrites(p) PROVE Local(p)'
<1>1. Own(p)' = Own(p)
  BY DEF ChildWrites, Own, scan, key, child
<1> QED
  BY <1>1, LocalFrame

LEMMA LocalStep ==
  ASSUME TypeOK, Ordered, [Next]_vars, NEW p \in Procs, Local(p) PROVE Local(p)'
<1>1. CASE Tick \/ Edit \/ Maintain \/ UNCHANGED vars
  <2>1. Own(p)' = Own(p)
    BY <1>1 DEF Tick, Edit, Maintain, vars, Own, scan, key, child
  <2> QED
    BY <2>1, LocalFrame
<1>2. ASSUME NEW q \in Procs, q # p, Step(q) \/ Run(q) PROVE Local(p)'
  BY <1>2, OthersKeepTheirOwn, LocalFrame
<1>3. CASE Step(p)
  BY <1>3, OwnStart, OwnForget, ForgetsForget, OwnLook, OwnOpen, OwnRecordings, OwnEndScan
     DEF Step, Forgets
<1>4. CASE Run(p)
  BY <1>4, OwnForget, ForgetsForget, OwnProbeWrites, OwnProbe, OwnReprobe, OwnEndRescan,
     OwnRescanFails, OwnObserveEffect, OwnObserveEffectMutation, OwnHit, OwnMiss,
     OwnChildReads, OwnChildWrites, OwnChildExits
     DEF Run, Forgets
<1> QED
  BY <1>1, <1>2, <1>3, <1>4 DEF Next, Procs

-----------------------------------------------------------------------------
(* Contents and timestamps only grow, and nothing observed is newer. *)
Grows == \A n \in Things : /\ node'[n].ver >= node[n].ver /\ node'[n].stamp >= node[n].stamp
                           /\ node'[n].ver <= writes' /\ node'[n].stamp <= clock'

LEMMA NodeSteps ==
  ASSUME [Next]_vars
  PROVE  UNCHANGED <<node, writes, clock>> \/ Tick \/ \E n \in Things : Write(n)
BY ProjectIsThings
   DEF Next, Step, Run, Edit, Maintain, Start, End, Abandon, Look, Reuse, Open, Read, Skip,
       EndScan, Record, ProbeWrites, Probe, Reprobe, EndRescan, RescanFails, ObserveEffect,
       ObserveEffectMutation, Hit, Miss, ChildReads, ChildWrites, ChildExits, Publish, vars, world

LEMMA NodeGrows == ASSUME TypeOK, Ordered, [Next]_vars PROVE Grows
<1> USE DEF TypeOK, FilesTyped, Node, Ordered, Grows
<1>1. CASE UNCHANGED <<node, writes, clock>>
  BY <1>1
<1>2. CASE Tick
  BY <1>2 DEF Tick
<1>3. CASE \E n \in Things : Write(n)
  BY <1>3 DEF Write
<1> QED
  BY <1>1, <1>2, <1>3, NodeSteps

OwnOrdered(p) ==
    /\ \A f \in Inputs : AtMost(rows[p][f], node[f]) /\ AtMost(before[p][f], node[f])
    /\ \A n \in Things : AtMost(saw[p][n], node[n]) /\ AtMost(due[p][n], node[n])
    /\ \A f \in Inputs : look[p].at = f => look[p].stamp <= node[f].stamp
    /\ effect[p] <= node[Watched].stamp /\ facts[p] <= node[World].ver

LEMMA Types ==
  ASSUME TypeOK, NEW p \in Procs
  PROVE  /\ \A f \in Inputs : /\ f \in Things /\ index[f] \in Row
                              /\ rows[p][f] \in Row /\ before[p][f] \in Row
         /\ \A n \in Things : saw[p][n] \in Node /\ due[p][n] \in Node /\ node[n] \in Node
         /\ look[p].stamp \in Nat /\ effect[p] \in Int /\ facts[p] \in Int
         /\ World \in Things /\ Watched \in Things
  BY DEF TypeOK, FilesTyped, SharedTyped, ScanTyped, KeyTyped, ChildTyped, HitTyped, Unknown,
         Things

LEMMA AtMostGrows ==
  ASSUME NEW r \in Row \cup Node, NEW n \in Node, NEW m \in Node, AtMost(r, n),
         m.ver >= n.ver, m.stamp >= n.stamp
  PROVE  AtMost(r, m)
  BY DEF Row, Node, Unknown, AtMost

LEMMA IntGrows == ASSUME NEW a \in Int, NEW b \in Nat, NEW c \in Nat, a <= b, b <= c PROVE a <= c
  OBVIOUS

LEMMA NodeFields == ASSUME NEW n \in Node PROVE n.ver \in Nat /\ n.stamp \in Nat
  BY DEF Node

LEMMA GrownOrdered ==
  ASSUME TypeOK, TypeOK', NEW p \in Procs, OwnOrdered(p), Grows, Own(p)' = Own(p)
  PROVE  OwnOrdered(p)'
<1>1. /\ look'[p] = look[p] /\ rows'[p] = rows[p] /\ before'[p] = before[p]
      /\ effect'[p] = effect[p] /\ facts'[p] = facts[p] /\ saw'[p] = saw[p] /\ due'[p] = due[p]
  BY DEF Own
<1>2. ASSUME NEW n \in Things
      PROVE  /\ node[n] \in Node /\ node'[n] \in Node
             /\ node'[n].ver >= node[n].ver /\ node'[n].stamp >= node[n].stamp
  BY DEF Grows, TypeOK, FilesTyped
<1>3. ASSUME NEW f \in Inputs PROVE AtMost(rows[p][f], node'[f]) /\ AtMost(before[p][f], node'[f])
  BY <1>2, Types, AtMostGrows DEF OwnOrdered
<1>4. ASSUME NEW n \in Things PROVE AtMost(saw[p][n], node'[n]) /\ AtMost(due[p][n], node'[n])
  BY <1>2, Types, AtMostGrows DEF OwnOrdered
<1>5. ASSUME NEW f \in Inputs, look[p].at = f PROVE look[p].stamp <= node'[f].stamp
  BY <1>2, <1>5, Types, NodeFields, IntGrows DEF OwnOrdered
<1>6. effect[p] <= node'[Watched].stamp /\ facts[p] <= node'[World].ver
  BY <1>2, Types, NodeFields, IntGrows DEF OwnOrdered
<1> QED
  BY <1>1, <1>3, <1>4, <1>5, <1>6 DEF OwnOrdered

LEMMA AtMostItself == ASSUME NEW n \in Node PROVE AtMost(n, n)
  BY DEF AtMost, Node

LEMMA BlankAtMost == ASSUME NEW n \in Node PROVE AtMost(Blank, n) /\ AtMost([ver |-> 0, stamp |-> 0], n)
  BY DEF AtMost, Node, Blank, Unknown

LEMMA StartOrdered ==
  ASSUME TypeOK, NEW p \in Procs, OwnOrdered(p), Start(p) PROVE OwnOrdered(p)'
<1>1. /\ look' = look /\ rows' = rows /\ before' = before /\ node' = node
      /\ effect' = effect /\ facts' = facts /\ saw' = saw /\ due'[p] = node
  BY DEF Start, world, key, child, TypeOK, HitTyped
<1> QED
  BY <1>1, Types, AtMostItself DEF OwnOrdered

LEMMA ForgetOrdered ==
  ASSUME TypeOK, NEW p \in Procs, Forget(p), node' = node PROVE OwnOrdered(p)'
<1>1. /\ look'[p] = NoLook /\ rows'[p] = NoRows /\ before'[p] = NoRows
      /\ effect'[p] = Unknown /\ facts'[p] = Unknown /\ saw'[p] = Nothing /\ due'[p] = Nothing
  BY DEF Forget, TypeOK, ScanTyped, KeyTyped, ChildTyped, HitTyped
<1>2. \A f \in Inputs : AtMost(NoRows[f], node[f])
  BY Types, BlankAtMost DEF NoRows
<1>3. \A n \in Things : AtMost(Nothing[n], node[n])
  BY Types, BlankAtMost DEF Nothing
<1>4. Unknown <= node[Watched].stamp /\ Unknown <= node[World].ver
  BY Types, NodeFields DEF Unknown
<1> QED
  BY <1>1, <1>2, <1>3, <1>4, ThingsAssumption DEF OwnOrdered, NoLook

LEMMA LookOrdered ==
  ASSUME TypeOK, NEW p \in Procs, OwnOrdered(p), Look(p) \/ Open(p) PROVE OwnOrdered(p)'
<1>1. /\ rows' = rows /\ before' = before /\ node' = node
      /\ effect' = effect /\ facts' = facts /\ saw' = saw /\ due' = due
  BY DEF Look, Open, world, key, child
<1>2. \A f \in Inputs : look'[p].at = f => look'[p].stamp <= node[f].stamp
  <2>1. CASE Look(p)
    <3>1. PICK f \in todo[p] :
            look' = [look EXCEPT ![p] = [at |-> f, stamp |-> node[f].stamp, opened |-> FALSE]]
      BY <2>1 DEF Look
    <3>2. f \in Inputs /\ look'[p].at = f /\ look'[p].stamp = node[f].stamp
      BY <3>1 DEF TypeOK, ScanTyped
    <3> QED
      BY <3>2, Types, NodeFields
  <2>2. CASE Open(p)
    BY <2>2 DEF Open, OwnOrdered, TypeOK, ScanTyped
  <2> QED
    BY <2>1, <2>2
<1> QED
  BY <1>1, <1>2 DEF OwnOrdered

LEMMA RecordOrdered ==
  ASSUME TypeOK, NEW p \in Procs, OwnOrdered(p), AtFile(p), NEW r \in Row, Record(p, r),
         AtMost(r, node[look[p].at])
  PROVE  OwnOrdered(p)'
<1>1. /\ before' = before /\ node' = node
      /\ effect' = effect /\ facts' = facts /\ saw' = saw /\ due' = due
      /\ look'[p] = NoLook /\ rows'[p] = [rows[p] EXCEPT ![look[p].at] = r]
  BY DEF Record, world, key, child, TypeOK, ScanTyped
<1>2. \A f \in Inputs : rows'[p][f] = IF f = look[p].at THEN r ELSE rows[p][f]
  BY <1>1 DEF TypeOK, ScanTyped
<1> QED
  BY <1>1, <1>2, ThingsAssumption DEF OwnOrdered, NoLook

LEMMA RecordingsOrdered ==
  ASSUME TypeOK, Ordered, NEW p \in Procs, OwnOrdered(p),
         \/ Reuse(p) \/ Read(p) \/ (Skip(p) /\ mode[p] # "checkpoint")
  PROVE  OwnOrdered(p)'
<1> DEFINE f == look[p].at
<1>0. /\ look[p].stamp \in Nat /\ f \in Inputs /\ f \in Things /\ AtFile(p)
      /\ node[f].ver \in Nat /\ node[f].stamp \in Nat /\ look[p].stamp <= node[f].stamp
  BY Types, NodeFields DEF Reuse, Read, Skip, TypeOK, ScanTyped, AtFile, OwnOrdered
<1>1. CASE Reuse(p)
  BY <1>1, <1>0, Types, RecordOrdered DEF Reuse, Ordered
<1>2. CASE Read(p)
  <2> DEFINE r == [ver |-> node[f].ver, stamp |-> look[p].stamp]
  <2>1. r \in Row /\ AtMost(r, node[f])
    BY <1>0 DEF Row, AtMost
  <2> QED
    BY <1>0, <1>2, <2>1, RecordOrdered DEF Read
<1>3. CASE Skip(p) /\ mode[p] # "checkpoint"
  <2> DEFINE r == [ver |-> Unknown, stamp |-> look[p].stamp]
  <2>1. r \in Row /\ AtMost(r, node[f])
    BY <1>0 DEF Row, AtMost, Unknown
  <2> QED
    BY <1>0, <1>3, <2>1, RecordOrdered DEF Skip
<1> QED
  BY <1>1, <1>2, <1>3

LEMMA EndScanOrdered ==
  ASSUME TypeOK, NEW p \in Procs, OwnOrdered(p), EndScan(p) PROVE OwnOrdered(p)'
<1>1. /\ node' = node /\ effect' = effect /\ facts' = facts /\ saw' = saw /\ due' = due
      /\ look' = look
      /\ \/ rows' = rows /\ before' = before
         \/ before'[p] = rows[p] /\ rows'[p] = NoRows
  BY DEF EndScan, world, child, TypeOK, ScanTyped, KeyTyped
<1>2. \A f \in Inputs : AtMost(NoRows[f], node[f])
  BY Types, BlankAtMost DEF NoRows
<1> QED
  BY <1>1, <1>2 DEF OwnOrdered

LEMMA ProbeWritesOrdered ==
  ASSUME TypeOK, TypeOK', Grows, NEW p \in Procs, OwnOrdered(p), ProbeWrites(p)
  PROVE  OwnOrdered(p)'
<1>1. /\ look' = look /\ rows' = rows /\ before' = before /\ effect' = effect
      /\ facts' = facts /\ saw' = saw /\ due'[p] = node'
  BY DEF ProbeWrites, scan, key, child, TypeOK, HitTyped
<1>2. ASSUME NEW n \in Things
      PROVE  /\ node[n] \in Node /\ node'[n] \in Node
             /\ node'[n].ver >= node[n].ver /\ node'[n].stamp >= node[n].stamp
  BY DEF Grows, TypeOK, FilesTyped
<1>3. ASSUME NEW f \in Inputs PROVE AtMost(rows[p][f], node'[f]) /\ AtMost(before[p][f], node'[f])
  BY <1>2, Types, AtMostGrows DEF OwnOrdered
<1>4. ASSUME NEW n \in Things PROVE AtMost(saw[p][n], node'[n]) /\ AtMost(node'[n], node'[n])
  BY <1>2, Types, AtMostGrows, AtMostItself DEF OwnOrdered
<1>5. ASSUME NEW f \in Inputs, look[p].at = f PROVE look[p].stamp <= node'[f].stamp
  BY <1>2, <1>5, Types, NodeFields, IntGrows DEF OwnOrdered
<1>6. effect[p] <= node'[Watched].stamp /\ facts[p] <= node'[World].ver
  BY <1>2, Types, NodeFields, IntGrows DEF OwnOrdered
<1> QED
  BY <1>1, <1>3, <1>4, <1>5, <1>6 DEF OwnOrdered

LEMMA ObservationOrdered ==
  ASSUME TypeOK, NEW p \in Procs, OwnOrdered(p), Probe(p) \/ ObserveEffect(p)
  PROVE  OwnOrdered(p)'
<1>1. /\ node' = node /\ saw' = saw /\ due' = due /\ look' = look /\ rows' = rows
      /\ before' = before
      /\ effect'[p] \in {effect[p], node[Watched].stamp, Unknown}
      /\ facts'[p] \in {facts[p], node[World].ver, Unknown}
  BY DEF Probe, ObserveEffect, Reported, Observed, world, scan, child, TypeOK, KeyTyped
<1>2. /\ node[Watched].stamp \in Nat /\ node[World].ver \in Nat
      /\ effect[p] <= node[Watched].stamp /\ facts[p] <= node[World].ver
  BY Types, NodeFields DEF OwnOrdered
<1>3. effect'[p] <= node[Watched].stamp /\ facts'[p] <= node[World].ver
  BY <1>1, <1>2 DEF Unknown
<1> QED
  BY <1>1, <1>3 DEF OwnOrdered

LEMMA ChildReadsOrdered ==
  ASSUME TypeOK, NEW p \in Procs, OwnOrdered(p), ChildReads(p) PROVE OwnOrdered(p)'
<1>1. /\ node' = node /\ due' = due /\ look' = look /\ rows' = rows /\ before' = before
      /\ effect' = effect /\ facts' = facts
  BY DEF ChildReads, world, scan, key
<1>2. \A k \in Things : saw'[p][k] = saw[p][k] \/ saw'[p][k] = node[k]
  BY DEF ChildReads, TypeOK, ChildTyped
<1>3. \A k \in Things : AtMost(saw'[p][k], node[k])
  BY <1>2, Types, AtMostItself DEF OwnOrdered
<1> QED
  BY <1>1, <1>3 DEF OwnOrdered

LEMMA OwnOrderedStep ==
  ASSUME TypeOK, TypeOK', Ordered, [Next]_vars, NEW p \in Procs, OwnOrdered(p)
  PROVE  OwnOrdered(p)'
<1>0. Grows
  BY NodeGrows
<1>1. CASE Tick \/ Edit \/ Maintain \/ UNCHANGED vars
  <2>1. Own(p)' = Own(p)
    BY <1>1 DEF Tick, Edit, Maintain, vars, Own, scan, key, child
  <2> QED
    BY <1>0, <2>1, GrownOrdered
<1>2. ASSUME NEW q \in Procs, q # p, Step(q) \/ Run(q) PROVE OwnOrdered(p)'
  BY <1>0, <1>2, OthersKeepTheirOwn, GrownOrdered
<1>3. CASE Forgets(p)
  BY <1>3, ForgetsForget, ForgetOrdered
     DEF Forgets, End, Abandon, Publish, Skip, Forget, Record, AtFile, world
<1>4. CASE ChildWrites(p)
  <2>1. Own(p)' = Own(p)
    BY <1>4 DEF ChildWrites, Own, scan, key, child
  <2> QED
    BY <1>0, <2>1, GrownOrdered
<1>5. CASE \/ Reprobe(p) \/ EndRescan(p) \/ RescanFails(p) \/ ObserveEffectMutation(p)
           \/ Hit(p) \/ Miss(p) \/ ChildExits(p)
  <2>1. /\ node' = node /\ due' = due /\ look' = look /\ rows' = rows /\ before' = before
        /\ effect' = effect /\ facts' = facts /\ saw' = saw
    BY <1>5 DEF Reprobe, EndRescan, RescanFails, ObserveEffectMutation, Hit, Miss, ChildExits,
                world, scan, key, child
  <2> QED
    BY <2>1 DEF OwnOrdered
<1>6. CASE Start(p) \/ Look(p) \/ Open(p) \/ EndScan(p) \/ ProbeWrites(p)
  BY <1>0, <1>6, StartOrdered, LookOrdered, EndScanOrdered, ProbeWritesOrdered
<1>7. CASE Probe(p) \/ ObserveEffect(p) \/ ChildReads(p)
  BY <1>7, ObservationOrdered, ChildReadsOrdered
<1>8. CASE \/ Reuse(p) \/ Read(p) \/ (Skip(p) /\ mode[p] # "checkpoint")
  BY <1>8, RecordingsOrdered
<1> QED
  BY <1>1, <1>2, <1>3, <1>4, <1>5, <1>6, <1>7, <1>8 DEF Next, Step, Run, Forgets, Procs

(* The index changes when a scan ends and when maintenance drops it. *)
LEMMA IndexSteps ==
  ASSUME [Next]_vars
  PROVE  \/ index' = index
         \/ Maintain /\ index' = NoRows
         \/ \E p \in Procs : (EndScan(p) \/ EndRescan(p)) /\ index' = rows[p] /\ node' = node
<1>1. CASE \E p \in Procs : EndScan(p) \/ EndRescan(p)
  BY <1>1 DEF EndScan, EndRescan, Persist, world
<1>2. CASE Maintain
  BY <1>2 DEF Maintain
<1>3. CASE Tick \/ Edit \/ UNCHANGED vars
  BY <1>3 DEF Tick, Edit, vars, shared
<1>4. CASE \E p \in Procs : \/ Start(p) \/ End(p) \/ Abandon(p) \/ Look(p) \/ Reuse(p)
                            \/ Open(p) \/ Read(p) \/ Skip(p)
  BY <1>4 DEF Start, End, Abandon, Look, Reuse, Open, Read, Skip, Record, shared
<1>5. CASE \E p \in Procs : \/ ProbeWrites(p) \/ Probe(p) \/ Reprobe(p) \/ RescanFails(p)
                            \/ ObserveEffect(p) \/ ObserveEffectMutation(p) \/ Hit(p) \/ Miss(p)
                            \/ ChildReads(p) \/ ChildWrites(p) \/ ChildExits(p) \/ Publish(p)
  BY <1>5 DEF ProbeWrites, Probe, Reprobe, RescanFails, ObserveEffect,
       ObserveEffectMutation, Hit, Miss, ChildReads, ChildWrites, ChildExits, Publish, shared
<1> QED
  BY <1>1, <1>2, <1>3, <1>4, <1>5 DEF Next, Step, Run, Procs

LEMMA IndexOrderedStep ==
  ASSUME TypeOK, TypeOK', Ordered, [Next]_vars, NEW f \in Inputs
  PROVE  AtMost(index'[f], node'[f])
<1>1. /\ node[f] \in Node /\ node'[f] \in Node /\ index[f] \in Row
      /\ node'[f].ver >= node[f].ver /\ node'[f].stamp >= node[f].stamp
  BY NodeGrows DEF Grows, TypeOK, FilesTyped, SharedTyped, Things
<1>2. CASE index' = index
  BY <1>1, <1>2, AtMostGrows DEF Ordered
<1>3. CASE index' = NoRows
  BY <1>1, <1>3, BlankAtMost DEF NoRows
<1>4. CASE \E p \in Procs : index' = rows[p] /\ node' = node
  BY <1>4 DEF Ordered
<1> QED
  BY <1>2, <1>3, <1>4, IndexSteps

LEMMA OrderedStep ==
  ASSUME TypeOK, TypeOK', Ordered, [Next]_vars PROVE Ordered'
<1>1. \A n \in Things : node'[n].ver <= writes' /\ node'[n].stamp <= clock'
  BY NodeGrows DEF Grows
<1>2. \A p \in Procs : OwnOrdered(p)'
  BY OwnOrderedStep DEF Ordered, OwnOrdered
<1> QED
  BY <1>1, <1>2, IndexOrderedStep DEF Ordered, OwnOrdered

-----------------------------------------------------------------------------
(* What is published is faithful, what is replayed is fresh. *)
LEMMA PublishedIsFaithful ==
  ASSUME TypeOK, NEW p \in Procs, Local(p), Publish(p), Storable(p), clean[p]
  PROVE  Faithful([key |-> Key(p), saw |-> saw[p], failed |-> failed[p]])
<1>1. pc[p] = "publish"
  BY DEF Publish
<1>2. /\ \A f \in Inputs : Agrees(before[p][f], saw[p][f])
      /\ saw[p][Watched].stamp = effect[p]
  BY <1>1 DEF Local, CleanIsFaithful
<1>3. ASSUME Probing PROVE saw[p][World].ver = facts[p]
  BY <1>1, <1>3 DEF Local, CleanIsFaithful
<1>4. ASSUME NEW f \in Inputs
      PROVE  IF Tree(before[p])[f].skipped
             THEN saw[p][f].stamp = Tree(before[p])[f].id
             ELSE saw[p][f].ver = Tree(before[p])[f].id
  <2>1. CASE before[p][f].ver = Unknown
    BY <1>2, <2>1 DEF Tree, Agrees
  <2>2. CASE before[p][f].ver # Unknown
    BY <1>2, <2>2 DEF Tree, Agrees
  <2> QED
    BY <2>1, <2>2
<1> QED
  BY <1>2, <1>3, <1>4 DEF Faithful, Key

LEMMA FaithfulStep ==
  ASSUME TypeOK, [Next]_vars, \A p \in Procs : Local(p), ReusableIsFaithful
  PROVE  ReusableIsFaithful'
<1> USE DEF ReusableIsFaithful
<1>1. ASSUME NEW e \in cache' PROVE Faithful(e)' <=> Faithful(e)
  BY DEF Faithful
<1>2. CASE cache' \subseteq cache
  BY <1>1, <1>2
<1>3. ASSUME NEW p \in Procs, Publish(p) PROVE ReusableIsFaithful'
  <2>1. CASE Storable(p) /\ clean[p]
    <3> DEFINE new == [key |-> Key(p), saw |-> saw[p], failed |-> failed[p]]
    <3>1. Faithful(new)
      BY <1>3, <2>1, PublishedIsFaithful
    <3>2. cache' \subseteq cache \cup {new}
      BY <1>3, <2>1 DEF Publish
    <3> HIDE DEF new
    <3> QED
      BY <1>1, <3>1, <3>2
  <2>2. CASE ~(Storable(p) /\ clean[p])
    BY <1>2, <1>3, <2>2 DEF Publish
  <2> QED
    BY <2>1, <2>2
<1>4. CASE Maintain
  BY <1>2, <1>4 DEF Maintain
<1>5. CASE Tick \/ Edit \/ UNCHANGED vars
  BY <1>2, <1>5 DEF Tick, Edit, vars, shared
<1>6. CASE \E p \in Procs : \/ Start(p) \/ End(p) \/ Abandon(p) \/ Look(p) \/ Reuse(p)
                            \/ Open(p) \/ Read(p) \/ Skip(p) \/ EndScan(p) \/ EndRescan(p)
  BY <1>2, <1>6 DEF Start, End, Abandon, Look, Reuse, Open, Read, Skip, Record, EndScan,
                    EndRescan, shared
<1>7. CASE \E p \in Procs : \/ ProbeWrites(p) \/ Probe(p) \/ Reprobe(p) \/ RescanFails(p)
                            \/ ObserveEffect(p) \/ ObserveEffectMutation(p) \/ Hit(p) \/ Miss(p)
                            \/ ChildReads(p) \/ ChildWrites(p) \/ ChildExits(p)
  BY <1>2, <1>7 DEF ProbeWrites, Probe, Reprobe, RescanFails, ObserveEffect,
       ObserveEffectMutation, Hit, Miss, ChildReads, ChildWrites, ChildExits, shared
<1> QED
  BY <1>3, <1>4, <1>5, <1>6, <1>7 DEF Next, Step, Run, Procs

(* An entry under the key of a fresh observation is fresh. *)
Fresh(e, p) ==
    /\ \A f \in Inputs :
         IF e.key.tree[f].skipped THEN e.key.tree[f].id >= due[p][f].stamp
                                  ELSE e.saw[f].ver >= due[p][f].ver
    /\ e.saw[Watched].stamp >= due[p][Watched].stamp
    /\ Probing => e.saw[World].ver >= due[p][World].ver

LEMMA HitIsFresh ==
  ASSUME TypeOK, ReusableIsFaithful, NEW p \in Procs, Local(p), pc[p] = "lookup",
         NEW e \in Stored(p)
  PROVE  Fresh(e, p)
<1>1. e \in cache /\ e.key = Key(p) /\ Faithful(e) /\ e \in Entry /\ Cacheable(p)
  BY DEF Stored, CanRead, ReusableIsFaithful, TypeOK, SharedTyped
<1>2. ASSUME NEW f \in Inputs
      PROVE  IF e.key.tree[f].skipped THEN e.key.tree[f].id >= due[p][f].stamp
                                      ELSE e.saw[f].ver >= due[p][f].ver
  <2>1. AtLeast(before[p][f], due[p][f])
    BY DEF Local, KeyIsFresh
  <2>2. e.key.tree[f] = Tree(before[p])[f]
    BY <1>1 DEF Key
  <2>3. CASE before[p][f].ver = Unknown
    BY <2>1, <2>2, <2>3 DEF Tree, AtLeast
  <2>4. CASE before[p][f].ver # Unknown
    <3>1. e.saw[f].ver = before[p][f].ver
      BY <1>1, <2>2, <2>4 DEF Tree, Faithful
    <3> QED
      BY <2>1, <2>2, <2>4, <3>1 DEF Tree, AtLeast
  <2> QED
    BY <2>3, <2>4
<1>3. e.saw[Watched].stamp >= due[p][Watched].stamp
  <2>1. e.saw[Watched].stamp = effect[p] /\ e.saw[Watched].stamp \in Nat
    BY <1>1, Types, NodeFields DEF Faithful, Key, Entry
  <2>2. effect[p] = Unknown \/ effect[p] >= due[p][Watched].stamp
    BY DEF Local, KeyIsFresh
  <2> QED
    BY <2>1, <2>2 DEF Unknown
<1>4. ASSUME Probing PROVE e.saw[World].ver >= due[p][World].ver
  <2>1. e.saw[World].ver = facts[p] /\ facts[p] # Unknown
    BY <1>1, <1>4 DEF Faithful, Key, Cacheable
  <2>2. facts[p] = Unknown \/ facts[p] >= due[p][World].ver
    BY DEF Local, KeyIsFresh, Observing
  <2> QED
    BY <2>1, <2>2
<1> QED
  BY <1>2, <1>3, <1>4 DEF Fresh

LEMMA FreshStep ==
  ASSUME TypeOK, [Next]_vars, \A p \in Procs : Local(p), ReusableIsFaithful, HitsAreFresh
  PROVE  HitsAreFresh'
<1> SUFFICES ASSUME NEW p \in Runners, NEW e \in hit'[p] PROVE Fresh(e, p)'
  BY DEF HitsAreFresh, Fresh
<1>0. p \in Procs /\ (hit[p] # {} => pc[p] = "done") /\ \A x \in hit[p] : Fresh(x, p)
  BY DEF Procs, HitsAreFresh, Local, Phased, Fresh
<1>1. ASSUME e \in hit[p], due'[p] = due[p] PROVE Fresh(e, p)'
  BY <1>0, <1>1 DEF Fresh
<1>2. CASE Tick \/ Edit \/ Maintain \/ UNCHANGED vars
  BY <1>1, <1>2 DEF Tick, Edit, Maintain, vars
<1>3. ASSUME NEW q \in Procs, q # p, Step(q) \/ Run(q) PROVE Fresh(e, p)'
  BY <1>0, <1>1, <1>3, OthersKeepTheirOwn DEF Own
<1>4. CASE Hit(p)
  <2>1. PICK x \in Stored(p) : hit' = [hit EXCEPT ![p] = {x}]
    BY <1>4 DEF Hit
  <2>2. e = x /\ pc[p] = "lookup" /\ due' = due
    BY <1>0, <1>4, <2>1 DEF Hit, TypeOK, HitTyped
  <2>3. Fresh(x, p)
    BY <1>0, <2>2, HitIsFresh
  <2> QED
    BY <2>2, <2>3 DEF Fresh
<1>5. CASE Forgets(p)
  <2>1. hit'[p] = {}
    BY <1>0, <1>5, ForgetsForget DEF Forget, TypeOK, HitTyped
  <2> QED
    BY <2>1
<1>6. CASE Start(p) \/ ProbeWrites(p)
  BY <1>0, <1>6 DEF Start, ProbeWrites
<1>7. CASE \/ Look(p) \/ Open(p) \/ EndScan(p) \/ Probe(p) \/ Reprobe(p)
           \/ EndRescan(p) \/ RescanFails(p) \/ ObserveEffect(p) \/ ObserveEffectMutation(p)
           \/ Miss(p) \/ ChildReads(p) \/ ChildWrites(p) \/ ChildExits(p)
  BY <1>0, <1>1, <1>7
     DEF Look, Open, EndScan, Probe, Reprobe, EndRescan, RescanFails, ObserveEffect,
         ObserveEffectMutation, Miss, ChildReads, ChildWrites, ChildExits
<1>8. CASE \/ Reuse(p) \/ Read(p) \/ (Skip(p) /\ mode[p] # "checkpoint")
  BY <1>0, <1>1, <1>8 DEF Reuse, Read, Skip, Record
<1> QED
  BY <1>0, <1>2, <1>3, <1>4, <1>5, <1>6, <1>7, <1>8 DEF Next, Step, Run, Forgets, Procs

-----------------------------------------------------------------------------
(* Timestamps: unless two writes fall between two ticks, they tell contents apart. *)
LEMMA BlurredStays == ASSUME TypeOK, [Next]_vars, ~blurred' PROVE ~blurred
<1>1. CASE UNCHANGED blurred
  BY <1>1
<1>2. CASE \E n \in Things : Write(n)
  BY <1>2 DEF Write
<1> QED
  BY <1>1, <1>2, ProjectIsThings
     DEF Next, Step, Run, Tick, Edit, Maintain, Start, End, Abandon, Look, Reuse, Open, Read, Skip,
         EndScan, Record, ProbeWrites, Probe, Reprobe, EndRescan, RescanFails, ObserveEffect,
         ObserveEffectMutation, Hit, Miss, ChildReads, ChildWrites, ChildExits, Publish, vars, world

LEMMA NewStamp ==
  ASSUME TypeOK, Ordered, [Next]_vars, ~blurred', NEW n \in Things
  PROVE  node'[n] = node[n] \/ node'[n].stamp > node[n].stamp
<1>1. CASE UNCHANGED <<node, writes, clock>> \/ Tick
  BY <1>1 DEF Tick
<1>2. CASE \E k \in Things : Write(k)
  <2>1. PICK k \in Things : Write(k)
    BY <1>2
  <2>2. CASE k = n
    <3>1. node[n].stamp # clock /\ node'[n].stamp = clock
      BY <2>1, <2>2 DEF Write, TypeOK, FilesTyped
    <3>2. node[n].stamp <= clock /\ node[n].stamp \in Nat /\ clock \in Nat
      BY DEF Ordered, TypeOK, FilesTyped, Node
    <3> QED
      BY <3>1, <3>2
  <2>3. CASE k # n
    BY <2>1, <2>3 DEF Write, TypeOK, FilesTyped
  <2> QED
    BY <2>2, <2>3
<1> QED
  BY <1>1, <1>2, NodeSteps

RowStep(p, f) ==
    \/ rows'[p][f] \in {rows[p][f], index[f], Blank}
    \/ rows'[p][f].ver = Unknown
    \/ rows'[p][f].ver = node[f].ver /\ node' = node

LEMMA RowSteps ==
  ASSUME TypeOK, [Next]_vars, NEW p \in Procs, NEW f \in Inputs PROVE RowStep(p, f)
<1> USE DEF RowStep
<1>1. CASE rows'[p] = rows[p]
  BY <1>1
<1>2. CASE Tick \/ Edit \/ Maintain \/ UNCHANGED vars
  BY <1>1, <1>2 DEF Tick, Edit, Maintain, vars, scan
<1>3. ASSUME NEW q \in Procs, q # p, Step(q) \/ Run(q) PROVE RowStep(p, f)
  BY <1>1, <1>3, OthersKeepTheirOwn DEF Own
<1>4. CASE Forgets(p)
  <2>1. rows'[p] = NoRows
    BY <1>4, ForgetsForget DEF Forget, TypeOK, ScanTyped
  <2> QED
    BY <2>1 DEF NoRows
<1>5. CASE \/ Reuse(p) \/ Read(p) \/ (Skip(p) /\ mode[p] # "checkpoint")
  <2>1. PICK r : /\ Record(p, r)
                 /\ r = index[look[p].at] \/ r.ver = Unknown
                      \/ (r.ver = node[look[p].at].ver /\ node' = node)
    BY <1>5 DEF Reuse, Read, Skip, Record, world
  <2>2. rows'[p][f] = IF f = look[p].at THEN r ELSE rows[p][f]
    BY <2>1 DEF Record, TypeOK, ScanTyped
  <2> QED
    BY <2>1, <2>2
<1>6. CASE EndScan(p)
  <2>1. rows'[p] = rows[p] \/ rows'[p] = NoRows
    BY <1>6 DEF EndScan, TypeOK, ScanTyped
  <2> QED
    BY <1>1, <2>1 DEF NoRows
<1>7. CASE \/ Start(p) \/ Look(p) \/ Open(p) \/ ProbeWrites(p) \/ Probe(p) \/ Reprobe(p)
           \/ EndRescan(p) \/ RescanFails(p) \/ ObserveEffect(p) \/ ObserveEffectMutation(p)
           \/ Hit(p) \/ Miss(p) \/ ChildReads(p) \/ ChildWrites(p) \/ ChildExits(p)
  BY <1>1, <1>7
     DEF Start, Look, Open, ProbeWrites, Probe, Reprobe, EndRescan, RescanFails, ObserveEffect,
         ObserveEffectMutation, Hit, Miss, ChildReads, ChildWrites, ChildExits, scan
<1> QED
  BY <1>2, <1>3, <1>4, <1>5, <1>6, <1>7 DEF Next, Step, Run, Forgets, Procs

LEMMA DueSteps ==
  ASSUME TypeOK, [Next]_vars, NEW p \in Procs
  PROVE  due'[p] = due[p] \/ due'[p] = node' \/ due'[p] = Nothing
<1>2. CASE Tick \/ Edit \/ Maintain \/ UNCHANGED vars
  BY <1>2 DEF Tick, Edit, Maintain, vars
<1>3. ASSUME NEW q \in Procs, q # p, Step(q) \/ Run(q) PROVE due'[p] = due[p]
  BY <1>3, OthersKeepTheirOwn DEF Own
<1>4. CASE Forgets(p)
  BY <1>4, ForgetsForget DEF Forget, TypeOK, HitTyped
<1>5. CASE Start(p) \/ ProbeWrites(p)
  BY <1>5 DEF Start, Visit, ProbeWrites, TypeOK, HitTyped, world
<1>6. CASE \/ Reuse(p) \/ Read(p) \/ (Skip(p) /\ mode[p] # "checkpoint")
  BY <1>6 DEF Reuse, Read, Skip, Record
<1>7. CASE \/ Look(p) \/ Open(p) \/ EndScan(p) \/ Probe(p) \/ Reprobe(p)
           \/ EndRescan(p) \/ RescanFails(p) \/ ObserveEffect(p) \/ ObserveEffectMutation(p)
           \/ Hit(p) \/ Miss(p) \/ ChildReads(p) \/ ChildWrites(p) \/ ChildExits(p)
  BY <1>7
     DEF Look, Open, EndScan, Probe, Reprobe, EndRescan, RescanFails, ObserveEffect,
         ObserveEffectMutation, Hit, Miss, ChildReads, ChildWrites, ChildExits
<1> QED
  BY <1>2, <1>3, <1>4, <1>5, <1>6, <1>7 DEF Next, Step, Run, Forgets, Procs

(* One row against one time, before and after a step. *)
LEMMA RightStays ==
  ASSUME NEW r \in Row, NEW n \in Node, NEW m \in Node, AtMost(r, n), RightFor(r, n),
         m = n \/ m.stamp > n.stamp
  PROVE  RightFor(r, m)
  BY DEF Row, Node, AtMost, RightFor

LEMMA NewIsRight ==
  ASSUME NEW r \in Row, NEW m \in Node, r.ver = Unknown \/ r.ver >= m.ver
  PROVE  RightFor(r, m)
  BY DEF RightFor

LEMMA StampsStep ==
  ASSUME TypeOK, TypeOK', Ordered, Ordered', [Next]_vars, StampsTell PROVE StampsTell'
<1> SUFFICES ASSUME ~blurred', NEW f \in Inputs
             PROVE  /\ RightFor(index'[f], node'[f])
                    /\ \A q \in Procs : RightFor(index'[f], due'[q][f])
                    /\ \A p \in Procs :
                         /\ RightFor(rows'[p][f], node'[f])
                         /\ \A q \in Procs : RightFor(rows'[p][f], due'[q][f])
  BY DEF StampsTell
<1>1. /\ RightFor(index[f], node[f]) /\ \A q \in Procs : RightFor(index[f], due[q][f])
      /\ \A p \in Procs : /\ RightFor(rows[p][f], node[f])
                          /\ \A q \in Procs : RightFor(rows[p][f], due[q][f])
  BY BlurredStays DEF StampsTell
<1>2. /\ f \in Things /\ node[f] \in Node /\ node'[f] \in Node
      /\ index[f] \in Row /\ index'[f] \in Row
      /\ \A p \in Procs : /\ rows[p][f] \in Row /\ rows'[p][f] \in Row
                          /\ due[p][f] \in Node /\ due'[p][f] \in Node
  BY DEF TypeOK, FilesTyped, SharedTyped, ScanTyped, HitTyped, Things
<1>3. node'[f] = node[f] \/ node'[f].stamp > node[f].stamp
  BY <1>2, NewStamp
(* A row that was right before is right afterwards. *)
<1>4. ASSUME NEW r \in Row, AtMost(r, node[f]), RightFor(r, node[f]),
             \A q \in Procs : RightFor(r, due[q][f])
      PROVE  RightFor(r, node'[f]) /\ \A q \in Procs : RightFor(r, due'[q][f])
  <2>1. RightFor(r, node'[f])
    BY <1>2, <1>3, <1>4, RightStays
  <2>2. ASSUME NEW q \in Procs PROVE RightFor(r, due'[q][f])
    <3>1. CASE due'[q] = Nothing
      BY <1>2, <3>1 DEF Nothing, RightFor, Row, Unknown
    <3> QED
      BY <1>4, <2>1, <3>1, DueSteps
  <2> QED
    BY <2>1, <2>2
(* One just taken is right too. *)
<1>5. ASSUME NEW r \in Row, r.ver = Unknown \/ (r.ver = node[f].ver /\ node' = node)
      PROVE  RightFor(r, node'[f]) /\ \A q \in Procs : RightFor(r, due'[q][f])
  <2>1. \A q \in Procs : AtMost(due'[q][f], node'[f])
    BY <1>2 DEF Ordered
  <2> QED
    BY <1>2, <1>5, <2>1 DEF RightFor, AtMost, Node
<1>6. ASSUME NEW p \in Procs
      PROVE  /\ RightFor(rows'[p][f], node'[f])
             /\ \A q \in Procs : RightFor(rows'[p][f], due'[q][f])
  <2>1. RowStep(p, f)
    BY RowSteps
  <2>2. CASE rows'[p][f] \in {rows[p][f], index[f]}
    BY <1>1, <1>2, <1>4, <2>2 DEF Ordered
  <2>3. CASE rows'[p][f] = Blank \/ rows'[p][f].ver = Unknown
    BY <1>2, <1>5, <2>3 DEF Blank
  <2>4. CASE rows'[p][f].ver = node[f].ver /\ node' = node
    BY <1>2, <1>5, <2>4
  <2> QED
    BY <2>1, <2>2, <2>3, <2>4 DEF RowStep
<1>7. RightFor(index'[f], node'[f]) /\ \A q \in Procs : RightFor(index'[f], due'[q][f])
  <2>1. CASE index' = index
    BY <1>1, <1>2, <1>4, <2>1 DEF Ordered
  <2>2. CASE index' = NoRows
    BY <1>2, <1>5, <2>2 DEF NoRows, Blank
  <2>3. CASE \E p \in Procs : index' = rows[p]
    BY <1>1, <1>2, <1>4, <2>3 DEF Ordered
  <2> QED
    BY <2>1, <2>2, <2>3, IndexSteps
<1> QED
  BY <1>6, <1>7

-----------------------------------------------------------------------------
(* Alone with its own command a run leaves an index that is up to date. *)
IndexFine == \A f \in Inputs : UpToDate(index[f], f)
Holds(p) == Scanning(p) \/ (p \in Readers /\ pc[p] = "done")
RowsFine(p) == \A f \in Inputs \ todo[p] : Holds(p) => UpToDate(rows[p][f], f)

LEMMA MixedStays == ASSUME TypeOK, [Next]_vars, ~mixed' PROVE ~mixed
BY DEF Next, Step, Run, Tick, Edit, Maintain, Start, End, Abandon, Look, Reuse, Open, Read, Skip,
       EndScan, Record, ProbeWrites, Probe, Reprobe, EndRescan, RescanFails, ObserveEffect,
       ObserveEffectMutation, Hit, Miss, ChildReads, ChildWrites, ChildExits, Publish, vars, history

(* A process that is at work was at work before, or is the only one. *)
LEMMA AtWork ==
  ASSUME TypeOK, AloneIsCurrent, ~mixed, ~mixed', NEW q \in Procs, Step(q) \/ Run(q),
         NEW p \in Procs, p # q
  PROVE  pc[p] = "idle" /\ pc'[p] = "idle"
<1>1. pc'[p] = pc[p]
  BY OthersKeepTheirOwn DEF Own
<1>2. CASE Start(q)
  BY <1>1, <1>2 DEF Start
<1>3. CASE pc[q] # "idle"
  BY <1>1, <1>3 DEF AloneIsCurrent
<1> QED
  BY <1>2, <1>3
     DEF Step, Run, End, Abandon, Look, Reuse, Open, Read, Skip, AtFile, Scanning,
         EndScan, Scanned, ProbeWrites, Probe, Reprobe, EndRescan, RescanFails, ObserveEffect,
         ObserveEffectMutation, Hit, Miss, ChildReads, ChildWrites, ChildExits, Publish

(* The only process at work, and what its step does to the index and its rows. *)
LEMMA AloneStep ==
  ASSUME TypeOK, NEW p \in Procs, Local(p), Step(p) \/ Run(p), ~mixed', ~mixed,
         ~Changing(p) => IndexFine, RowsFine(p)
  PROVE  (~Changing(p)' => IndexFine') /\ RowsFine(p)'
<1> USE DEF TypeOK, PhaseTyped, ScanTyped, Goto
<1>a. ASSUME node' = node, index' = index, ~Changing(p), ~Holds(p)'
      PROVE  (~Changing(p)' => IndexFine') /\ RowsFine(p)'
  BY <1>a DEF IndexFine, RowsFine, UpToDate
<1>b. ASSUME Changing(p)', ~Holds(p)' PROVE (~Changing(p)' => IndexFine') /\ RowsFine(p)'
  BY <1>b DEF RowsFine
<1>c. ASSUME Changing(p)', todo'[p] = Inputs
      PROVE  (~Changing(p)' => IndexFine') /\ RowsFine(p)'
  BY <1>c DEF RowsFine
<1>1. CASE Start(p)
  <2>1. /\ node' = node /\ index' = index /\ pc[p] = "idle" /\ todo'[p] = Inputs
    BY <1>1 DEF Start, Visit, world, shared
  <2>2. ~Changing(p)
    BY <2>1 DEF Changing
  <2> QED
    BY <2>1, <2>2 DEF IndexFine, RowsFine, UpToDate
<1>2. CASE Forgets(p)
  <2>1. ~Changing(p) /\ node' = node /\ index' = index
    BY <1>2, ProcsAssumption
       DEF Forgets, End, Abandon, Publish, Skip, Forget, Record, AtFile, Scanning, Changing,
           Local, Phased, world, shared
  <2>2. ~Holds(p)'
    BY <1>2, ForgetsForget DEF Forget, Holds, Scanning
  <2> QED
    BY <2>1, <2>2, <1>a
<1>3. CASE Look(p) \/ Open(p)
  BY <1>3 DEF Look, Open, world, shared, IndexFine, RowsFine, UpToDate, Changing, Holds, Scanning
<1>4. CASE \/ Reuse(p) \/ Read(p) \/ (Skip(p) /\ mode[p] # "checkpoint")
  <2>1. /\ AtFile(p) /\ look[p].at \in Inputs
        /\ node' = node /\ index' = index /\ pc' = pc
        /\ todo'[p] = todo[p] \ {look[p].at}
    BY <1>4 DEF Reuse, Read, Skip, Record, AtFile, world, shared
  <2>2. PICK r : /\ rows' = [rows EXCEPT ![p][look[p].at] = r]
                 /\ \/ r = index[look[p].at] /\ p \in Readers
                    \/ r.ver = Unknown \/ r.ver = node[look[p].at].ver
    BY <1>4 DEF Reuse, Read, Skip, Record, Reusable
  <2>3. UpToDate(r, look[p].at)
    <3>1. p \in Readers => ~Changing(p)
      BY <2>1, ProcsAssumption DEF Changing, Local, Phased, AtFile, Scanning
    <3> QED
      BY <2>1, <2>2, <3>1 DEF IndexFine, UpToDate
  <2>4. \A f \in Inputs : rows'[p][f] = IF f = look[p].at THEN r ELSE rows[p][f]
    BY <2>1, <2>2
  <2>5. Changing(p)' = Changing(p) /\ Holds(p)' = Holds(p) /\ Holds(p)
    BY <2>1 DEF Changing, Holds, Scanning, AtFile
  <2> QED
    BY <2>1, <2>3, <2>4, <2>5 DEF IndexFine, RowsFine, UpToDate
<1>5. CASE EndScan(p) \/ EndRescan(p)
  <2>1. /\ node' = node /\ Scanning(p) /\ todo[p] = {} /\ todo' = todo
        /\ index' = IF mode[p] = "readonly" THEN index ELSE rows[p]
    BY <1>5 DEF EndScan, EndRescan, Scanned, Persist, world, scan
  <2>2. \A f \in Inputs : UpToDate(rows[p][f], f)
    BY <2>1 DEF RowsFine, Holds
  <2>3. mode[p] = "readonly" => IndexFine
    BY <2>1, ProcsAssumption DEF Local, Phased, Changing
  <2>4. IndexFine'
    BY <2>1, <2>2, <2>3 DEF IndexFine, UpToDate
  <2>5. Holds(p)' => rows' = rows
    BY <1>5, ProcsAssumption DEF EndScan, EndRescan, Holds, Scanning, Local, Phased, scan
  <2> QED
    BY <2>1, <2>2, <2>4, <2>5 DEF RowsFine, UpToDate
<1>6. CASE ProbeWrites(p) \/ ChildReads(p) \/ ChildWrites(p)
  <2>1. pc' = pc /\ pc[p] \in {"probe", "reprobe", "child"}
    BY <1>6 DEF ProbeWrites, ChildReads, ChildWrites
  <2>2. p \notin Readers
    BY <2>1 DEF Local, Phased
  <2> QED
    BY <2>1, <2>2, <1>b DEF Changing, Holds, Scanning
<1>7. CASE Probe(p) \/ Reprobe(p) \/ ChildExits(p)
  <2>1. pc'[p] \in {"scan", "rescan", "reprobe"} /\ pc[p] \in {"probe", "reprobe", "child"}
    BY <1>7 DEF Probe, Reprobe, ChildExits
  <2>2. todo'[p] = Inputs
    BY <1>7 DEF Probe, Reprobe, ChildExits, Visit, Local, Phased, scan
  <2>3. p \in Runners
    BY <2>1 DEF Local, Phased, Procs
  <2> QED
    BY <2>1, <2>2, <2>3, <1>c DEF Changing
<1>8. CASE RescanFails(p)
  BY <1>8 DEF RescanFails
<1>9. CASE ObserveEffect(p) \/ ObserveEffectMutation(p) \/ Hit(p)
  <2>1. /\ node' = node /\ index' = index
        /\ pc[p] \in {"effect", "reeffect", "lookup"} /\ pc'[p] \in {"lookup", "publish", "done"}
    BY <1>9 DEF ObserveEffect, ObserveEffectMutation, Hit, world, shared
  <2>2. p \notin Readers
    BY <2>1 DEF Local, Phased
  <2> QED
    BY <2>1, <2>2, <1>a DEF Changing, Holds, Scanning
<1>10. CASE Miss(p)
  <2>1. pc'[p] = "child"
    BY <1>10 DEF Miss
  <2> QED
    BY <2>1, <1>b DEF Changing, Holds, Scanning
<1> QED
  BY <1>1, <1>2, <1>3, <1>4, <1>5, <1>6, <1>7, <1>8, <1>9, <1>10 DEF Step, Run, Forgets

LEMMA AloneIsCurrentStep ==
  ASSUME TypeOK, [Next]_vars, \A p \in Procs : Local(p), AloneIsCurrent
  PROVE  AloneIsCurrent'
<1> SUFFICES ASSUME ~mixed' PROVE AloneIsCurrent'
  BY DEF AloneIsCurrent
<1>1. ~mixed
  BY MixedStays
<1>2. /\ (\A p \in Procs : ~Changing(p)) => IndexFine
      /\ \A p \in Procs : RowsFine(p)
      /\ \A p, q \in Procs : pc[p] # "idle" /\ pc[q] # "idle" => p = q
  BY <1>1 DEF AloneIsCurrent, IndexFine, RowsFine, Holds
<1>3. ASSUME /\ (\A p \in Procs : ~Changing(p)') => IndexFine'
             /\ \A p \in Procs : RowsFine(p)'
             /\ \A p, q \in Procs : pc'[p] # "idle" /\ pc'[q] # "idle" => p = q
      PROVE  AloneIsCurrent'
  BY <1>3 DEF AloneIsCurrent, IndexFine, RowsFine, Holds
<1>4. CASE Tick \/ Maintain \/ UNCHANGED vars
  <2>1. node' = node /\ UNCHANGED <<pc, rows, todo>> /\ (index' = index \/ index' = NoRows)
    BY <1>4 DEF Tick, Maintain, vars, world, shared, scan
  <2>2. \A p \in Procs : Changing(p)' = Changing(p) /\ Holds(p)' = Holds(p)
    BY <2>1 DEF Changing, Holds, Scanning
  <2>3. IndexFine => IndexFine'
    BY <2>1 DEF IndexFine, UpToDate, NoRows, Blank
  <2>4. \A p \in Procs : RowsFine(p)'
    BY <1>2, <2>1, <2>2 DEF RowsFine, UpToDate
  <2> QED
    BY <1>2, <1>3, <2>1, <2>2, <2>3, <2>4
<1>5. CASE Edit
  BY <1>5 DEF Edit
<1>6. ASSUME NEW p \in Procs, Step(p) \/ Run(p) PROVE AloneIsCurrent'
  <2>1. ASSUME NEW q \in Procs, q # p PROVE pc[q] = "idle" /\ pc'[q] = "idle"
    BY <1>1, <1>6, <2>1, AtWork
  <2>2. ASSUME NEW q \in Procs, q # p PROVE ~Changing(q) /\ ~Holds(q)'
    <3>1. pc[q] = "idle" /\ pc'[q] = "idle"
      BY <2>1, <2>2
    <3> QED
      BY <3>1 DEF Changing, Holds, Scanning
  <2>3. ~Changing(p) => IndexFine
    BY <1>2, <2>2
  <2>4. (~Changing(p)' => IndexFine') /\ RowsFine(p)'
    BY <1>1, <1>2, <1>6, <2>3, AloneStep
  <2>5. \A q \in Procs : RowsFine(q)'
    BY <2>2, <2>4 DEF RowsFine
  <2>6. \A q, r \in Procs : pc'[q] # "idle" /\ pc'[r] # "idle" => q = r
    BY <2>1
  <2> QED
    BY <1>3, <2>4, <2>5, <2>6
<1> QED
  BY <1>4, <1>5, <1>6 DEF Next, Procs

-----------------------------------------------------------------------------
LEMMA InitInv == Init => IInv
<1> SUFFICES ASSUME Init PROVE IInv
  OBVIOUS
<1>1. TypeOK
  BY InitIsTyped
<1>2. ASSUME NEW p \in Procs PROVE OwnOrdered(p)
  BY <1>2, ThingsAssumption
     DEF Init, OwnOrdered, Nothing, NoRows, Blank, NoLook, AtMost, Unknown, Things
<1>3. Ordered
  BY <1>2 DEF Init, Ordered, OwnOrdered, Nothing, NoRows, Blank, AtMost, Unknown, Things
<1>4. ASSUME NEW p \in Procs PROVE Local(p)
  BY <1>4 DEF Init, Local, Phased, KeyIsFresh, ReadsAreBracketed, CleanIsFaithful, Ran, Observing
<1>5. ReusableIsFaithful /\ HitsAreFresh
  BY DEF Init, ReusableIsFaithful, HitsAreFresh, Procs
<1>6. StampsTell
  BY DEF Init, StampsTell, RightFor, NoRows, Blank
<1>7. AloneIsCurrent
  BY DEF Init, AloneIsCurrent, NoRows, Blank, UpToDate, Scanning
<1> QED
  BY <1>1, <1>3, <1>4, <1>5, <1>6, <1>7 DEF IInv, Local

LEMMA StepInv == ASSUME IInv, [Next]_vars PROVE IInv'
<1>1. /\ TypeOK /\ Ordered /\ ReusableIsFaithful /\ HitsAreFresh /\ StampsTell /\ AloneIsCurrent
      /\ \A p \in Procs : Local(p)
  BY DEF IInv, Local
<1>2. TypeOK'
  BY <1>1, FilesStep, SharedStep, RestStep DEF TypeOK
<1>3. Ordered'
  BY <1>1, <1>2, OrderedStep
<1>4. \A p \in Procs : Local(p)'
  BY <1>1, LocalStep
<1>5. ReusableIsFaithful' /\ HitsAreFresh'
  BY <1>1, FaithfulStep, FreshStep
<1>6. StampsTell' /\ AloneIsCurrent'
  BY <1>1, <1>2, <1>3, StampsStep, AloneIsCurrentStep
<1> QED
  BY <1>2, <1>3, <1>4, <1>5, <1>6 DEF IInv, Local

(* The inductive invariant holds in every reachable state. *)
THEOREM Invariance == Spec => []IInv
  BY InitInv, StepInv, PTL DEF Spec

(* A result is reusable only if its command saw what it is keyed by. *)
THEOREM ResultsAreFaithful == Spec => []ReusableIsFaithful
  BY Invariance, PTL DEF IInv

(* No hit replays a result for a state that was over when the run began. *)
THEOREM ReplaysAreFresh == Spec => []HitsAreFresh
  BY Invariance, PTL DEF IInv

LEMMA InvIsCurrent == ASSUME IInv PROVE ScansAreCurrent
<1> SUFFICES ASSUME ~mixed \/ ~blurred, NEW p \in Readers, pc[p] = "done", NEW f \in Inputs,
                    rows[p][f].ver # Unknown
             PROVE  rows[p][f].ver >= due[p][f].ver
  BY DEF ScansAreCurrent, Current
<1>1. p \in Procs /\ TypeOK /\ f \notin todo[p]
  BY DEF IInv, Procs, Phased
<1>2. CASE ~blurred
  <2>1. rows[p][f].stamp >= due[p][f].stamp
    BY <1>1 DEF IInv, KeyIsFresh
  <2> QED
    BY <1>1, <1>2, <2>1 DEF IInv, StampsTell, RightFor
<1>3. CASE ~mixed
  <2>1. rows[p][f].ver = node[f].ver
    BY <1>1, <1>3 DEF IInv, AloneIsCurrent, UpToDate
  <2>2. due[p][f].ver <= node[f].ver /\ due[p][f].ver \in Nat /\ node[f].ver \in Nat
    BY <1>1, Types, NodeFields DEF IInv, Ordered, AtMost
  <2> QED
    BY <2>1, <2>2
<1> QED
  BY <1>2, <1>3

(* An ordinary scan records nothing that was over when it began, as long as  *)
(* timestamps tell writes apart, or as long as nothing but the commands of    *)
(* awa run writes, one run at a time.                                        *)
THEOREM OrdinaryScansAreCurrent == Spec => []ScansAreCurrent
  BY Invariance, InvIsCurrent, PTL

(* Neither a replay nor an indexed hash is stale where the code says it is   *)
(* not.                                                                      *)
THEOREM NeverStale == Spec => []NothingIsStale
<1>1. IInv => NothingIsStale
  BY InvIsCurrent DEF IInv, NothingIsStale
<1> QED
  BY <1>1, Invariance, PTL
=============================================================================
