---------------------------- MODULE ProjectProofs ----------------------------
(* What keeps a project's beginning, its operator's consent and doctor's    *)
(* repair sound, for any number of processes, directories, policies, moves  *)
(* and damaged stores; and what an exit status tells, of any command.       *)
EXTENDS Diagnosis, ProjectInit, ProbeGrants, CommandSession, FiniteSetTheorems, SequenceTheorems,
    WellFoundedInduction, TLAPS

-----------------------------------------------------------------------------
(* A project comes into being.                                              *)
LEMMA TaskGoes ==
    ASSUME TasksFit, NEW p \in Starters, NEW s \in Stages, Goes(p, s), s # "ended", ~IsAt(p, "ended"),
           s \in {"marker", "dirs", "roll back"} => task[p].does = "init",
           s = "write" => task[p].does = "write",
           s = "config" => task[p].does \in {"init", "configure"},
           s \in {"guard", "create guard", "replace guard"} => task[p].does # "configure"
    PROVE  /\ TasksFit'
           /\ task'[p].step = s /\ task'[p].answer = task[p].answer
           /\ \A q \in Starters : /\ task'[q].does = task[q].does /\ task'[q].profile = task[q].profile
                                  /\ task'[q].force = task[q].force
                                  /\ q # p => task'[q] = task[q]
<1>1. task' = [task EXCEPT ![p].step = s]
  BY DEF Goes
<1>2. /\ task'[p].step = s /\ task'[p].answer = task[p].answer
      /\ \A q \in Starters : /\ task'[q].does = task[q].does /\ task'[q].profile = task[q].profile
                             /\ task'[q].force = task[q].force
                             /\ q # p => task'[q] = task[q]
  BY <1>1 DEF TasksFit
<1>3. task' \in [Starters -> [does : {"init", "write", "read", "configure"}, profile : {"default", "strict"},
                              force : BOOLEAN, step : Stages, answer : Replies]]
  BY <1>1 DEF TasksFit
<1>4. ASSUME NEW q \in Starters
      PROVE  /\ task'[q].step \in {"marker", "dirs", "roll back"} => task'[q].does = "init"
             /\ task'[q].step = "write" => task'[q].does = "write"
             /\ task'[q].step = "config" => task'[q].does \in {"init", "configure"}
             /\ task'[q].step \in {"guard", "create guard", "replace guard"} => task'[q].does # "configure"
             /\ task'[q].answer = "none" <=> task'[q].step # "ended"
  <2>1. CASE q = p
    BY <1>2, <2>1 DEF TasksFit, IsAt
  <2>2. CASE q # p
    <3>1. task'[q] = task[q]
      BY <1>2, <2>2
    <3> QED
      BY <3>1 DEF TasksFit, IsAt
  <2> QED
    BY <2>1, <2>2
<1> QED
  BY <1>2, <1>3, <1>4 DEF TasksFit, IsAt

LEMMA TaskEnds ==
    ASSUME TasksFit, NEW p \in Starters, NEW reply \in Replies \ {"none"}, Ends(p, reply)
    PROVE  /\ TasksFit'
           /\ task'[p].step = "ended" /\ task'[p].answer = reply
           /\ \A q \in Starters : /\ task'[q].does = task[q].does /\ task'[q].profile = task[q].profile
                                  /\ task'[q].force = task[q].force
                                  /\ q # p => task'[q] = task[q]
<1>1. task' = [task EXCEPT ![p].step = "ended", ![p].answer = reply]
  BY DEF Ends
<1>2. /\ task'[p].step = "ended" /\ task'[p].answer = reply
      /\ \A q \in Starters : /\ task'[q].does = task[q].does /\ task'[q].profile = task[q].profile
                             /\ task'[q].force = task[q].force
                             /\ q # p => task'[q] = task[q]
  BY <1>1 DEF TasksFit
<1>3. task' \in [Starters -> [does : {"init", "write", "read", "configure"}, profile : {"default", "strict"},
                              force : BOOLEAN, step : Stages, answer : Replies]]
  <2>1. reply \in Replies /\ "ended" \in Stages
    BY DEF Stages
  <2> QED
    BY <1>1, <2>1 DEF TasksFit
<1>4. ASSUME NEW q \in Starters
      PROVE  /\ task'[q].step \in {"marker", "dirs", "roll back"} => task'[q].does = "init"
             /\ task'[q].step = "write" => task'[q].does = "write"
             /\ task'[q].step = "config" => task'[q].does \in {"init", "configure"}
             /\ task'[q].step \in {"guard", "create guard", "replace guard"} => task'[q].does # "configure"
             /\ task'[q].answer = "none" <=> task'[q].step # "ended"
  <2>1. CASE q = p
    BY <1>2, <2>1 DEF TasksFit, IsAt
  <2>2. CASE q # p
    <3>1. task'[q] = task[q]
      BY <1>2, <2>2
    <3> QED
      BY <3>1 DEF TasksFit, IsAt
  <2> QED
    BY <2>1, <2>2
<1> QED
  BY <1>2, <1>3, <1>4 DEF TasksFit, IsAt

(* Where there is a marker, that is the project that is found. *)
LEMMA LeastOfTwo ==
    ASSUME NEW S \in SUBSET {1, 2}, S # {}
    PROVE  LET first == CHOOSE i \in S : \A j \in S : i <= j
           IN first \in {1, 2} /\ (1 \in S => first = 1)
<1> DEFINE least(i) == \A j \in S : i <= j
           first == CHOOSE i \in S : least(i)
<1>1. \A j \in S : j = 1 \/ j = 2
  OBVIOUS
<1>2. CASE 1 \in S
  <2>1. least(1) /\ \A i \in S : least(i) => i = 1
    BY <1>1, <1>2
  <2> HIDE DEF least
  <2>2. first = 1
    BY <1>2, <2>1
  <2> QED
    BY <2>2 DEF least
<1>3. CASE 1 \notin S
  <2>0. \A i \in S : i = 2
    BY <1>1, <1>3
  <2>1. least(2)
    BY <2>0
  <2>2. PICK i \in S : TRUE
    OBVIOUS
  <2>3. 2 \in S
    BY <2>0, <2>2
  <2> HIDE DEF least
  <2>4. first = 2
    BY <2>0, <2>1, <2>3
  <2> QED
    BY <1>3, <2>4 DEF least
<1> QED
  BY <1>2, <1>3

LEMMA FoundHere ==
    /\ FindRoot(Here) \in {"not found", "failed", Here, Above}
    /\ node[Here] = "dir" => FindRoot(Here) = Here
<1> DEFINE ups == <<Here, Above>>
           ends == {i \in DOMAIN ups : markerExists(node[ups[i]]) \/ node[ups[i]] = "opaque"}
           first == CHOOSE i \in ends : \A j \in ends : i <= j
<1>1. Ancestors(Here) = ups
  BY DEF Ancestors
<1>2. ends \in SUBSET {1, 2} /\ ups[1] = Here /\ ups[2] = Above
  OBVIOUS
<1>3. FindRoot(Here) = IF ends = {} THEN "not found" ELSE IF node[ups[first]] = "opaque" THEN "failed" ELSE ups[first]
  BY <1>1 DEF FindRoot
<1>4. node[Here] = "dir" => 1 \in ends
  BY DEF markerExists
<1> HIDE DEF ends, ups
<1>5. ends # {} => first \in {1, 2} /\ (1 \in ends => first = 1)
  BY <1>2, LeastOfTwo
<1> HIDE DEF first
<1> QED
  BY <1>2, <1>3, <1>4, <1>5

(* A process that does not build, before and after its step, and leaves the *)
(* project alone. *)
LEMMA BystanderStep ==
    ASSUME ProjectInv, TasksFit', NEW p \in Starters,
           \A q \in Starters \ {p} : task'[q] = task[q],
           task'[p].does = task[p].does,
           ~Builds(p), ~Builds(p)', Did(p, "configure")' => Did(p, "configure"),
           IsAt(p, "write")' => guard = "effective" \/ IsAt(p, "write"),
           node[Here] = "dir" /\ Answers(p) => Answers(p)',
           UNCHANGED <<node, layoutDirs, guard, local, evidence, past>>
    PROVE  ProjectInv'
<1>1. \A q \in Starters \ {p} :
        /\ Builds(q)' <=> Builds(q)
        /\ \A d : Did(q, d)' <=> Did(q, d)
        /\ Answers(q)' <=> Answers(q)
        /\ IsAt(q, "write")' <=> IsAt(q, "write")
  BY DEF Builds, Did, Answers, IsAt, FoundNothing
<1>2. BuilderIsAlone'
  BY <1>1 DEF ProjectInv, BuilderIsAlone
<1>3. ProjectIsWhole'
  BY <1>1 DEF ProjectInv, ProjectIsWhole
<1>4. SomebodyAnswers'
  BY <1>1 DEF ProjectInv, SomebodyAnswers
<1> QED
  BY <1>2, <1>3, <1>4 DEF ProjectInv

LEMMA StartStep == ASSUME ProjectInv, NEW p \in Starters, Start(p) PROVE ProjectInv'
<1>1. TasksFit /\ IsAt(p, "start") /\ UNCHANGED <<node, layoutDirs, guard, local, evidence, past>>
  BY DEF ProjectInv, Start
<1>2. task[p].answer = "none"
  BY <1>1 DEF TasksFit, IsAt
<1>3. \/ task[p].does = "init" /\ Goes(p, "marker")
      \/ task[p].does = "configure" /\ Goes(p, "config")
      \/ task[p].does \notin {"init", "configure"} /\ Goes(p, "guard")
      \/ \E reply \in {"not found", "failed", Above} : node[Here] # "dir" /\ Ends(p, reply)
  BY FoundHere DEF Start
<1>4. ~Builds(p) /\ ~Answers(p)
  BY <1>1, <1>2 DEF Builds, Did, Building, Answers, IsAt
<1>5. CASE \E s \in {"marker", "config", "guard"} :
             /\ Goes(p, s) /\ (s = "marker" => task[p].does = "init")
             /\ (s = "config" => task[p].does = "configure")
             /\ (s = "guard" => task[p].does \notin {"init", "configure"})
  <2>1. PICK s \in {"marker", "config", "guard"} :
             /\ Goes(p, s) /\ (s = "marker" => task[p].does = "init")
             /\ (s = "config" => task[p].does = "configure")
             /\ (s = "guard" => task[p].does \notin {"init", "configure"})
    BY <1>5
  <2>2. /\ TasksFit' /\ task'[p].step = s /\ task'[p].answer = "none" /\ task'[p].does = task[p].does
        /\ \A q \in Starters \ {p} : task'[q] = task[q]
    BY <1>1, <1>2, <2>1, TaskGoes DEF Stages, Building, IsAt
  <2>3. ~Builds(p)' /\ ~Did(p, "configure")' /\ ~IsAt(p, "write")'
    BY <2>1, <2>2 DEF Builds, Did, IsAt, Building
  <2> QED
    BY <1>1, <1>4, <2>2, <2>3, BystanderStep
<1>6. CASE \E reply \in {"not found", "failed", Above} : node[Here] # "dir" /\ Ends(p, reply)
  <2>1. PICK reply \in {"not found", "failed", Above} : Ends(p, reply)
    BY <1>6
  <2>2. /\ TasksFit' /\ task'[p].step = "ended" /\ task'[p].answer = reply /\ task'[p].does = task[p].does
        /\ \A q \in Starters \ {p} : task'[q] = task[q]
    BY <1>1, <2>1, TaskEnds DEF Above, Replies
  <2>3. ~Builds(p)' /\ ~Did(p, "configure")' /\ ~IsAt(p, "write")'
    BY <2>2 DEF Builds, Did, IsAt, Building, Above
  <2> QED
    BY <1>1, <1>4, <2>2, <2>3, BystanderStep
<1> QED
  BY <1>3, <1>5, <1>6
(* The step that makes the marker, and those of who made it. *)
LEMMA CreateMarkerStep == ASSUME ProjectInv, NEW p \in Starters, CreateMarker(p) PROVE ProjectInv'
<1>1. TasksFit /\ IsAt(p, "marker") /\ UNCHANGED <<layoutDirs, guard, local, evidence, past>>
  BY DEF ProjectInv, CreateMarker
<1>2. task[p].answer = "none" /\ task[p].does = "init"
  BY <1>1 DEF TasksFit, IsAt
<1>3. ~Builds(p) /\ ~Answers(p)
  BY <1>1, <1>2 DEF Builds, Did, Building, Answers, IsAt
<1>4. CASE \E reply \in {"failed", "already initialized", "not a directory"} :
             Ends(p, reply) /\ node' = node
  <2>1. PICK reply \in {"failed", "already initialized", "not a directory"} :
          Ends(p, reply) /\ node' = node
    BY <1>4
  <2>2. /\ TasksFit' /\ task'[p].step = "ended" /\ task'[p].answer = reply /\ task'[p].does = task[p].does
        /\ \A q \in Starters \ {p} : task'[q] = task[q]
    BY <1>1, <2>1, TaskEnds DEF Replies
  <2>3. ~Builds(p)' /\ ~Did(p, "configure")' /\ ~IsAt(p, "write")'
    BY <2>2 DEF Builds, Did, IsAt, Building
  <2> QED
    BY <1>1, <1>3, <2>1, <2>2, <2>3, BystanderStep
<1>5. CASE node[Here] = "absent" /\ node' = [node EXCEPT ![Here] = "dir"] /\ Goes(p, "dirs")
  <2>1. /\ TasksFit' /\ task'[p].step = "dirs" /\ task'[p].answer = "none" /\ task'[p].does = "init"
        /\ \A q \in Starters \ {p} : task'[q] = task[q]
    BY <1>1, <1>2, <1>5, TaskGoes DEF Stages, Building, IsAt
  <2>2. node' \in [{Here, Above} -> Around \cup {"dir", "absent"}] /\ node'[Here] = "dir"
    BY <1>5 DEF ProjectInv
  <2>3. \A q \in Starters : ~Builds(q)
    BY <1>5 DEF ProjectInv, BuilderIsAlone
  <2>4. \A q \in Starters \ {p} : Builds(q)' <=> Builds(q)
    BY <2>1 DEF Builds, Did
  <2>5. BuilderIsAlone'
    BY <2>2, <2>3, <2>4 DEF BuilderIsAlone
  <2>6. ProjectIsWhole'
    <3>1. \A q \in Starters \ {p} : /\ \A d : Did(q, d)' <=> Did(q, d)
                                    /\ IsAt(q, "write")' <=> IsAt(q, "write")
      BY <2>1 DEF Did, IsAt
    <3>2. ~Did(p, "configure")' /\ ~IsAt(p, "write")'
      BY <2>1 DEF Did, IsAt
    <3> QED
      BY <1>1, <2>1, <2>3, <2>4, <3>1, <3>2 DEF ProjectInv, ProjectIsWhole
  <2>7. SomebodyAnswers'
    BY <2>1 DEF SomebodyAnswers, Answers, Building
  <2> QED
    BY <2>1, <2>2, <2>5, <2>6, <2>7 DEF ProjectInv
<1> QED
  BY <1>4, <1>5 DEF CreateMarker

(* A step of the process that builds, which leaves the marker where it is. *)
LEMMA BuilderStep ==
    ASSUME ProjectInv, TasksFit', NEW p \in Starters, Builds(p), ~IsAt(p, "ended"),
           \A q \in Starters \ {p} : task'[q] = task[q],
           task'[p].does = "init", Answers(p)',
           node' = [node EXCEPT ![Here] = "dir"],
           layoutDirs' \subseteq RequiredDirs,
           Builds(p)' /\ task'[p].step \notin {"dirs", "roll back"} =>
             /\ layoutDirs' = RequiredDirs
             /\ task'[p].step \in {"config", "ended"} /\ "tampered" \notin past' => guard' = "effective"
             /\ Did(p, "init")' /\ task'[p].profile = "strict" /\ "forced" \notin past' => local' = "strict",
           guard' \in {guard, "effective"} \/ "rolled back" \in past',
           past \subseteq past',
           local' = local \/ past' \cap {"rolled back", "forced"} # {} \/ local = NoFile,
           evidence' \in {evidence, FALSE}
    PROVE  ProjectInv'
<1>1. node' = node /\ node[Here] = "dir"
  BY DEF ProjectInv, BuilderIsAlone
<1>2. \A q \in Starters \ {p} :
        /\ ~Builds(q)
        /\ Builds(q)' <=> Builds(q)
        /\ \A d : Did(q, d)' <=> Did(q, d)
        /\ IsAt(q, "write")' <=> IsAt(q, "write")
  BY DEF Builds, Did, IsAt, ProjectInv, BuilderIsAlone
<1>3. ~Did(p, "configure")' /\ ~IsAt(p, "write")'
  BY DEF Did, IsAt, TasksFit
<1>4. BuilderIsAlone'
  BY <1>1, <1>2 DEF BuilderIsAlone
<1>5. \A q \in Starters : Did(q, "configure")' /\ past' \cap {"rolled back", "forced"} = {} => local' = "template"
  <2> SUFFICES ASSUME NEW q \in Starters, Did(q, "configure")', past' \cap {"rolled back", "forced"} = {}
               PROVE  local' = "template"
    OBVIOUS
  <2>1. Did(q, "configure") /\ past \cap {"rolled back", "forced"} = {}
    BY <1>2, <1>3
  <2>2. local = "template"
    BY <2>1 DEF ProjectInv, ProjectIsWhole
  <2> QED
    BY <2>2 DEF NoFile
<1>6. (evidence' \/ \E q \in Starters : IsAt(q, "write")') /\ past' \subseteq {"existed"} => guard' = "effective"
  BY <1>2, <1>3 DEF ProjectInv, ProjectIsWhole
<1>7. ProjectIsWhole'
  BY <1>2, <1>5, <1>6 DEF ProjectIsWhole
<1>8. SomebodyAnswers'
  BY DEF SomebodyAnswers
<1> QED
  BY <1>1, <1>4, <1>7, <1>8 DEF ProjectInv

LEMMA EnsureDirsStep == ASSUME ProjectInv, NEW p \in Starters, EnsureDirs(p) PROVE ProjectInv'
<1>1. /\ TasksFit /\ IsAt(p, "dirs") /\ UNCHANGED <<node, guard, local, evidence, past>>
      /\ task[p].does = "init"
  BY DEF ProjectInv, EnsureDirs, TasksFit, IsAt
<1>2. Builds(p) /\ ~IsAt(p, "ended")
  BY <1>1 DEF Builds, Building, IsAt
<1>3. node' = [node EXCEPT ![Here] = "dir"]
  BY <1>1, <1>2 DEF ProjectInv, BuilderIsAlone
<1>4. PICK made \in SUBSET RequiredDirs :
        /\ layoutDirs' = layoutDirs \cup made
        /\ IF made = RequiredDirs THEN Goes(p, "guard") ELSE Goes(p, "roll back")
  BY DEF EnsureDirs
<1>5. layoutDirs' \subseteq RequiredDirs /\ (made = RequiredDirs => layoutDirs' = RequiredDirs)
  BY <1>4 DEF ProjectInv, ProjectIsWhole
<1>6. PICK s \in {"guard", "roll back"} : Goes(p, s) /\ (s = "guard" => made = RequiredDirs)
  BY <1>4
<1>7. /\ TasksFit' /\ task'[p].step = s /\ task'[p].answer = task[p].answer /\ task'[p].does = "init"
      /\ \A q \in Starters \ {p} : task'[q] = task[q]
  BY <1>1, <1>6, TaskGoes DEF Stages, Building, IsAt
<1>8. Answers(p)' /\ ~Did(p, "init")'
  BY <1>1, <1>7 DEF Answers, Building, Did, TasksFit, IsAt
<1> QED
  BY <1>1, <1>2, <1>3, <1>5, <1>6, <1>7, <1>8, BuilderStep
(* A step that leaves the project as good as it was: of the guard, of the   *)
(* configuration or of a command, by whoever does not build. *)
LEMMA VisitorStep ==
    ASSUME ProjectInv, TasksFit', NEW p \in Starters, ~Builds(p), ~Builds(p)',
           \A q \in Starters \ {p} : task'[q] = task[q],
           task'[p].does = task[p].does, Answers(p)',
           node' \in {node, [node EXCEPT ![Here] = "dir"]}, layoutDirs' = layoutDirs,
           guard' = guard \/ guard' = "effective", past \subseteq past',
           local' = local \/ "forced" \in past' \/ local = NoFile,
           past' \cap {"rolled back", "forced"} = {} /\ Did(p, "configure")' => local' = "template",
           evidence' = evidence \/ IsAt(p, "write"),
           IsAt(p, "write")' => guard' = "effective"
    PROVE  ProjectInv'
<1>1. node' \in [{Here, Above} -> Around \cup {"dir", "absent"}] /\ node'[Here] \in {node[Here], "dir"}
  BY DEF ProjectInv
<1>2. \A q \in Starters \ {p} :
        /\ Builds(q)' <=> Builds(q)
        /\ \A d : Did(q, d)' <=> Did(q, d)
        /\ IsAt(q, "write")' <=> IsAt(q, "write")
  BY DEF Builds, Did, IsAt
<1>3. BuilderIsAlone'
  BY <1>1, <1>2 DEF ProjectInv, BuilderIsAlone
<1>4. \A q \in Starters : Did(q, "configure")' /\ past' \cap {"rolled back", "forced"} = {} => local' = "template"
  <2> SUFFICES ASSUME NEW q \in Starters \ {p}, Did(q, "configure")', past' \cap {"rolled back", "forced"} = {}
               PROVE  local' = "template"
    OBVIOUS
  <2>1. Did(q, "configure") /\ past \cap {"rolled back", "forced"} = {}
    BY <1>2
  <2>2. local = "template"
    BY <2>1 DEF ProjectInv, ProjectIsWhole
  <2> QED
    BY <2>2 DEF NoFile
<1>5. (evidence' \/ \E q \in Starters : IsAt(q, "write")') /\ past' \subseteq {"existed"} => guard' = "effective"
  BY <1>2 DEF ProjectInv, ProjectIsWhole
<1>6. ASSUME NEW q \in Starters, Builds(q)', task'[q].step \notin {"dirs", "roll back"}
      PROVE  /\ layoutDirs' = RequiredDirs
             /\ task'[q].step \in {"config", "ended"} /\ "tampered" \notin past' => guard' = "effective"
             /\ Did(q, "init")' /\ task'[q].profile = "strict" /\ "forced" \notin past' => local' = "strict"
  <2>1. q # p /\ task'[q] = task[q] /\ Builds(q) /\ (Did(q, "init")' <=> Did(q, "init"))
    BY <1>2, <1>6
  <2> QED
    BY <2>1, <1>6 DEF ProjectInv, ProjectIsWhole, NoFile
<1>7. ProjectIsWhole'
  BY <1>4, <1>5, <1>6 DEF ProjectInv, ProjectIsWhole
<1>8. SomebodyAnswers'
  BY DEF SomebodyAnswers
<1> QED
  BY <1>1, <1>3, <1>7, <1>8 DEF ProjectInv

(* Where the guard leads a process that has found it, or made it, effective. *)
LEMMA AfterGuardGoes ==
    ASSUME TasksFit, NEW p \in Starters, AfterGuard(p), task[p].step \in {"guard", "create guard", "replace guard"}
    PROVE  /\ TasksFit' /\ task'[p].does = task[p].does /\ task'[p].profile = task[p].profile
           /\ \A q \in Starters \ {p} : task'[q] = task[q]
           /\ \/ task[p].does = "write" /\ task'[p].step = "write" /\ task'[p].answer = "none"
              \/ task[p].does = "init" /\ task'[p].step = "config" /\ task'[p].answer = "none"
              \/ /\ task'[p].step = "ended" /\ task'[p].answer = "done"
                 /\ task[p].does = "init" => task[p].profile # "strict"
<1>0. task[p].answer = "none" /\ ~IsAt(p, "ended")
  BY DEF TasksFit, IsAt
<1>1. \/ task[p].does = "write" /\ Goes(p, "write")
      \/ task[p].does = "init" /\ Goes(p, "config")
      \/ Ends(p, "done") /\ (task[p].does = "init" => task[p].profile # "strict")
  BY DEF AfterGuard, profileConfig, NoFile
<1>2. CASE task[p].does = "write" /\ Goes(p, "write")
  BY <1>0, <1>2, TaskGoes DEF Stages, Building
<1>3. CASE task[p].does = "init" /\ Goes(p, "config")
  BY <1>0, <1>3, TaskGoes DEF Stages, Building
<1>4. CASE Ends(p, "done") /\ (task[p].does = "init" => task[p].profile # "strict")
  BY <1>4, TaskEnds DEF Replies
<1> QED
  BY <1>1, <1>2, <1>3, <1>4

LEMMA FailsGoes ==
    ASSUME TasksFit, NEW p \in Starters, Fails(p), ~IsAt(p, "ended")
    PROVE  /\ TasksFit' /\ task'[p].does = task[p].does /\ task'[p].profile = task[p].profile
           /\ \A q \in Starters \ {p} : task'[q] = task[q]
           /\ \/ task[p].does = "init" /\ task'[p].step = "roll back" /\ task'[p].answer = "none"
              \/ task[p].does # "init" /\ task'[p].step = "ended" /\ task'[p].answer = "failed"
<1>0. task[p].answer = "none"
  BY DEF TasksFit
<1>1. CASE task[p].does = "init" /\ Goes(p, "roll back")
  BY <1>0, <1>1, TaskGoes DEF Stages, Building
<1>2. CASE task[p].does # "init" /\ Ends(p, "failed")
  BY <1>2, TaskEnds DEF Replies
<1> QED
  BY <1>1, <1>2 DEF Fails
LEMMA InspectStep == ASSUME ProjectInv, NEW p \in Starters, InspectStateGitignore(p) PROVE ProjectInv'
<1>1. /\ TasksFit /\ IsAt(p, "guard") /\ UNCHANGED <<node, layoutDirs, guard, local, evidence, past>>
      /\ task[p].answer = "none" /\ task[p].does # "configure"
  BY DEF ProjectInv, InspectStateGitignore, TasksFit, IsAt
<1>2. /\ TasksFit' /\ task'[p].does = task[p].does /\ task'[p].profile = task[p].profile
      /\ \A q \in Starters \ {p} : task'[q] = task[q]
      /\ \/ task'[p].step \in {"create guard", "replace guard"} /\ task'[p].answer = "none"
         \/ task[p].does = "write" /\ task'[p].step = "write" /\ task'[p].answer = "none" /\ guard = "effective"
         \/ task[p].does = "init" /\ task'[p].step = "config" /\ task'[p].answer = "none" /\ guard = "effective"
         \/ /\ task'[p].step = "ended" /\ task'[p].answer = "done" /\ guard = "effective"
            /\ task[p].does = "init" => task[p].profile # "strict"
         \/ task[p].does = "init" /\ task'[p].step = "roll back" /\ task'[p].answer = "none"
         \/ task[p].does # "init" /\ task'[p].step = "ended" /\ task'[p].answer = "failed"
  <2>1. CASE guard = "effective" /\ AfterGuard(p)
    BY <1>1, <2>1, AfterGuardGoes DEF IsAt
  <2>2. CASE Goes(p, "create guard") \/ Goes(p, "replace guard")
    BY <1>1, <2>2, TaskGoes DEF Stages, Building, IsAt
  <2>3. CASE Fails(p)
    BY <1>1, <2>3, FailsGoes DEF IsAt
  <2> QED
    BY <2>1, <2>2, <2>3 DEF InspectStateGitignore
<1>3. CASE task[p].does = "init"
  <2>1. Builds(p) /\ ~IsAt(p, "ended")
    BY <1>1, <1>3 DEF Builds, Building, IsAt
  <2>2. node' = [node EXCEPT ![Here] = "dir"] /\ layoutDirs = RequiredDirs
    BY <1>1, <2>1 DEF ProjectInv, BuilderIsAlone, ProjectIsWhole, IsAt
  <2>3. Answers(p)' /\ task'[p].does = "init"
    BY <1>2, <1>3 DEF Answers, Building
  <2>4. /\ layoutDirs' \subseteq RequiredDirs
        /\ Builds(p)' /\ task'[p].step \notin {"dirs", "roll back"} =>
             /\ layoutDirs' = RequiredDirs
             /\ task'[p].step \in {"config", "ended"} /\ "tampered" \notin past' => guard' = "effective"
             /\ Did(p, "init")' /\ task'[p].profile = "strict" /\ "forced" \notin past' => local' = "strict"
    BY <1>1, <1>2, <1>3, <2>2 DEF Did
  <2> QED
    BY <1>1, <1>2, <2>1, <2>2, <2>3, <2>4, BuilderStep
<1>4. CASE task[p].does # "init"
  <2>1. ~Builds(p) /\ ~Builds(p)' /\ ~FoundNothing(p)'
    BY <1>2, <1>4 DEF Builds, FoundNothing, Did, Above
  <2>2. Answers(p)'
    BY <1>2, <1>4, <2>1 DEF Answers, IsAt
  <2>3. IsAt(p, "write")' => guard' = "effective"
    BY <1>1, <1>2 DEF IsAt
  <2>4. Did(p, "configure")' /\ past' \cap {"rolled back", "forced"} = {} => local' = "template"
    BY <1>1, <1>2 DEF Did
  <2> QED
    BY <1>1, <1>2, <2>1, <2>2, <2>3, <2>4, VisitorStep
<1> QED
  BY <1>3, <1>4
LEMMA EnsureGuardStep == ASSUME ProjectInv, NEW p \in Starters, EnsureStateGitignore(p) PROVE ProjectInv'
<1>1. /\ TasksFit /\ task[p].step \in {"create guard", "replace guard"}
      /\ UNCHANGED <<layoutDirs, local, evidence, past>> /\ task[p].answer = "none" /\ ~IsAt(p, "ended")
      /\ task[p].does # "configure" /\ ~IsAt(p, "write")
  BY DEF ProjectInv, EnsureStateGitignore, TasksFit, IsAt
<1>2. \/ guard' = "effective" /\ node' = [node EXCEPT ![Here] = "dir"] /\ AfterGuard(p)
      \/ guard' = guard /\ node' = node /\ Fails(p)
  BY DEF EnsureStateGitignore
<1>3. /\ TasksFit' /\ task'[p].does = task[p].does /\ task'[p].profile = task[p].profile
      /\ \A q \in Starters \ {p} : task'[q] = task[q]
      /\ \/ task[p].does = "write" /\ task'[p].step = "write" /\ task'[p].answer = "none" /\ guard' = "effective"
         \/ task[p].does = "init" /\ task'[p].step = "config" /\ task'[p].answer = "none" /\ guard' = "effective"
         \/ /\ task'[p].step = "ended" /\ task'[p].answer = "done" /\ guard' = "effective"
            /\ task[p].does = "init" => task[p].profile # "strict"
         \/ task[p].does = "init" /\ task'[p].step = "roll back" /\ task'[p].answer = "none"
         \/ task[p].does # "init" /\ task'[p].step = "ended" /\ task'[p].answer = "failed"
  BY <1>1, <1>2, AfterGuardGoes, FailsGoes
<1>4. CASE task[p].does = "init"
  <2>1. Builds(p)
    BY <1>1, <1>4 DEF Builds, Building
  <2>2. node' = [node EXCEPT ![Here] = "dir"] /\ layoutDirs = RequiredDirs
    BY <1>1, <1>2, <2>1 DEF ProjectInv, BuilderIsAlone, ProjectIsWhole
  <2>3. Answers(p)' /\ task'[p].does = "init"
    BY <1>3, <1>4 DEF Answers, Building
  <2>4. /\ layoutDirs' \subseteq RequiredDirs
        /\ Builds(p)' /\ task'[p].step \notin {"dirs", "roll back"} =>
             /\ layoutDirs' = RequiredDirs
             /\ task'[p].step \in {"config", "ended"} /\ "tampered" \notin past' => guard' = "effective"
             /\ Did(p, "init")' /\ task'[p].profile = "strict" /\ "forced" \notin past' => local' = "strict"
    BY <1>1, <1>3, <1>4, <2>2 DEF Did
  <2> QED
    BY <1>1, <1>2, <1>3, <2>1, <2>2, <2>3, <2>4, BuilderStep
<1>5. CASE task[p].does # "init"
  <2>1. ~Builds(p) /\ ~Builds(p)' /\ ~FoundNothing(p)'
    BY <1>3, <1>5 DEF Builds, FoundNothing, Did, Above
  <2>2. Answers(p)'
    BY <1>3, <1>5, <2>1 DEF Answers, IsAt
  <2>3. IsAt(p, "write")' => guard' = "effective"
    BY <1>1, <1>3 DEF IsAt
  <2>4. ~Did(p, "configure")'
    BY <1>1, <1>3 DEF Did
  <2> QED
    BY <1>1, <1>2, <1>3, <2>1, <2>2, <2>3, <2>4, VisitorStep
<1> QED
  BY <1>4, <1>5

LEMMA WriteConfigStep == ASSUME ProjectInv, NEW p \in Starters, WriteConfig(p) PROVE ProjectInv'
<1>1. /\ TasksFit /\ IsAt(p, "config") /\ UNCHANGED <<layoutDirs, guard, evidence>>
      /\ task[p].answer = "none" /\ ~IsAt(p, "ended") /\ task[p].does \in {"init", "configure"} /\ ~IsAt(p, "write")
  BY DEF ProjectInv, WriteConfig, TasksFit, IsAt
<1>2. \/ Fails(p) /\ node' = node /\ local' = local /\ past' = past
      \/ /\ local = NoFile \/ "forced" \in past'
         /\ local' = IF task[p].does = "init" THEN profileConfig(task[p].profile) ELSE "template"
         /\ past' \in {past, past \cup {"forced"}}
         /\ node' = [node EXCEPT ![Here] = "dir"] /\ Ends(p, "done")
  BY DEF WriteConfig, WriteNewFile
<1>3. /\ TasksFit' /\ task'[p].does = task[p].does /\ task'[p].profile = task[p].profile
      /\ \A q \in Starters \ {p} : task'[q] = task[q]
      /\ \/ task'[p].step = "ended" /\ task'[p].answer = "done" /\ Ends(p, "done")
         \/ task[p].does = "init" /\ task'[p].step = "roll back" /\ task'[p].answer = "none"
         \/ task[p].does # "init" /\ task'[p].step = "ended" /\ task'[p].answer = "failed"
  BY <1>1, <1>2, TaskEnds, FailsGoes DEF Replies
<1>4. past \subseteq past' /\ (local' = local \/ "forced" \in past' \/ local = NoFile)
  BY <1>2
<1>5. task'[p].answer = "done" => /\ node' = [node EXCEPT ![Here] = "dir"]
                                  /\ local' = IF task[p].does = "init" THEN profileConfig(task[p].profile) ELSE "template"
  BY <1>1, <1>2, FailsGoes
<1>6. CASE task[p].does = "init"
  <2>1. Builds(p)
    BY <1>1, <1>6 DEF Builds, Building, IsAt
  <2>2. /\ node' = [node EXCEPT ![Here] = "dir"] /\ layoutDirs = RequiredDirs
        /\ "tampered" \notin past => guard = "effective"
    BY <1>1, <1>2, <2>1 DEF ProjectInv, BuilderIsAlone, ProjectIsWhole, IsAt
  <2>3. Answers(p)' /\ task'[p].does = "init"
    BY <1>3, <1>6 DEF Answers, Building
  <2>4. /\ layoutDirs' \subseteq RequiredDirs
        /\ Builds(p)' /\ task'[p].step \notin {"dirs", "roll back"} =>
             /\ layoutDirs' = RequiredDirs
             /\ task'[p].step \in {"config", "ended"} /\ "tampered" \notin past' => guard' = "effective"
             /\ Did(p, "init")' /\ task'[p].profile = "strict" /\ "forced" \notin past' => local' = "strict"
    BY <1>1, <1>3, <1>4, <1>5, <1>6, <2>2 DEF Did, profileConfig, NoFile
  <2> QED
    BY <1>1, <1>3, <1>4, <2>1, <2>2, <2>3, <2>4, BuilderStep
<1>7. CASE task[p].does # "init"
  <2>1. ~Builds(p) /\ ~Builds(p)' /\ ~FoundNothing(p)' /\ ~IsAt(p, "write")'
    BY <1>3, <1>7 DEF Builds, FoundNothing, Did, Above, IsAt
  <2>2. Answers(p)'
    BY <1>3, <1>7, <2>1 DEF Answers, IsAt
  <2>3. Did(p, "configure")' => local' = "template"
    BY <1>5, <1>7 DEF Did, profileConfig
  <2> QED
    BY <1>1, <1>2, <1>3, <1>4, <2>1, <2>2, <2>3, VisitorStep
<1> QED
  BY <1>6, <1>7

LEMMA WriteStep == ASSUME ProjectInv, NEW p \in Starters, Write(p) PROVE ProjectInv'
<1>1. /\ TasksFit /\ IsAt(p, "write") /\ Ends(p, "done") /\ evidence' = TRUE
      /\ node' = [node EXCEPT ![Here] = "dir"] /\ UNCHANGED <<layoutDirs, guard, local, past>>
      /\ task[p].does = "write"
  BY DEF ProjectInv, Write, TasksFit
<1>2. /\ TasksFit' /\ task'[p].does = "write" /\ task'[p].step = "ended" /\ task'[p].answer = "done"
      /\ \A q \in Starters \ {p} : task'[q] = task[q]
  BY <1>1, TaskEnds DEF Replies
<1>3. ~Builds(p) /\ ~Builds(p)' /\ Answers(p)' /\ ~IsAt(p, "write")' /\ ~Did(p, "configure")'
  BY <1>1, <1>2 DEF Builds, Answers, FoundNothing, Did, Above, IsAt
<1>4. past \subseteq {"existed"} => guard = "effective"
  BY <1>1 DEF ProjectInv, ProjectIsWhole
<1> QED
  BY <1>1, <1>2, <1>3, <1>4, VisitorStep
LEMMA RollbackStep == ASSUME ProjectInv, NEW p \in Starters, Rollback(p) PROVE ProjectInv'
<1>1. /\ TasksFit /\ IsAt(p, "roll back") /\ past' = past \cup {"rolled back"} /\ task[p].does = "init"
      /\ ~IsAt(p, "ended")
  BY DEF ProjectInv, Rollback, TasksFit, IsAt
<1>2. Builds(p)
  BY <1>1 DEF Builds, Building, IsAt
<1>3. node[Here] = "dir" /\ (\A q \in Starters \ {p} : ~Builds(q)) /\ layoutDirs \subseteq RequiredDirs
  BY <1>2 DEF ProjectInv, BuilderIsAlone, ProjectIsWhole
<1>4. CASE /\ node' = [node EXCEPT ![Here] = "absent"] /\ layoutDirs' = {} /\ Ends(p, "failed")
  <2>1. /\ TasksFit' /\ task'[p].step = "ended" /\ task'[p].answer = "failed"
        /\ \A q \in Starters \ {p} : task'[q] = task[q]
    BY <1>1, <1>4, TaskEnds DEF Replies
  <2>2. \A q \in Starters : ~Builds(q)'
    BY <1>3, <2>1 DEF Builds, Did, Building
  <2>3. node' \in [{Here, Above} -> Around \cup {"dir", "absent"}] /\ node'[Here] = "absent"
    BY <1>4 DEF ProjectInv
  <2>4. ProjectIsWhole'
    BY <1>1, <1>4, <2>2 DEF ProjectIsWhole
  <2> QED
    BY <2>1, <2>2, <2>3, <2>4 DEF ProjectInv, BuilderIsAlone, SomebodyAnswers
<1>5. CASE /\ node' = node /\ layoutDirs' \in SUBSET layoutDirs /\ local' \in {local, NoFile}
           /\ evidence' \in {evidence, FALSE} /\ Ends(p, "failed, left behind")
  <2>1. /\ TasksFit' /\ task'[p].step = "ended" /\ task'[p].answer = "failed, left behind"
        /\ task'[p].does = "init" /\ \A q \in Starters \ {p} : task'[q] = task[q]
    BY <1>1, <1>5, TaskEnds DEF Replies
  <2>2. Answers(p)' /\ ~Builds(p)'
    BY <2>1 DEF Answers, Builds, Did, Building
  <2>3. node' = [node EXCEPT ![Here] = "dir"]
    BY <1>3, <1>5 DEF ProjectInv
  <2>4. layoutDirs' \subseteq RequiredDirs
    BY <1>3, <1>5
  <2> QED
    BY <1>1, <1>2, <1>5, <2>1, <2>2, <2>3, <2>4, BuilderStep
<1> QED
  BY <1>4, <1>5 DEF Rollback

LEMMA DiesStep == ASSUME ProjectInv, NEW p \in Starters, Dies(p) PROVE ProjectInv'
<1>1. /\ TasksFit /\ task[p].step \notin {"start", "ended"} /\ Ends(p, "died")
      /\ UNCHANGED <<node, layoutDirs, guard, local, evidence, past>>
  BY DEF ProjectInv, Dies
<1>2. /\ TasksFit' /\ task'[p].does = task[p].does /\ task'[p].step = "ended" /\ task'[p].answer = "died"
      /\ \A q \in Starters \ {p} : task'[q] = task[q]
  BY <1>1, TaskEnds DEF Replies
<1>3. ~Builds(p)' /\ Answers(p)' /\ ~IsAt(p, "write")' /\ ~Did(p, "configure")'
  BY <1>2 DEF Builds, Building, Answers, FoundNothing, Did, Above, IsAt
<1>4. CASE Builds(p)
  <2>1. node' = [node EXCEPT ![Here] = "dir"] /\ layoutDirs' \subseteq RequiredDirs /\ task[p].does = "init"
    BY <1>1, <1>4 DEF ProjectInv, BuilderIsAlone, ProjectIsWhole, Builds
  <2> QED
    BY <1>1, <1>2, <1>3, <1>4, <2>1, BuilderStep DEF IsAt
<1>5. CASE ~Builds(p)
  BY <1>1, <1>2, <1>3, <1>5, VisitorStep
<1> QED
  BY <1>4, <1>5

LEMMA TamperStep == ASSUME ProjectInv, Tamper PROVE ProjectInv'
<1>1. past' = past \cup {"tampered"} /\ UNCHANGED <<node, layoutDirs, local, evidence, task>>
  BY DEF Tamper
<1>2. TasksFit' /\ BuilderIsAlone' /\ SomebodyAnswers'
  BY <1>1 DEF ProjectInv, TasksFit, IsAt, BuilderIsAlone, Builds, Did, SomebodyAnswers, Answers, FoundNothing
<1>3. ProjectIsWhole'
  BY <1>1 DEF ProjectInv, ProjectIsWhole, Builds, Did
<1> QED
  BY <1>1, <1>2, <1>3 DEF ProjectInv

LEMMA ProjectStep == ProjectInv /\ [ProjectNext]_initVars => ProjectInv'
<1> SUFFICES ASSUME ProjectInv, [ProjectNext]_initVars PROVE ProjectInv'
  OBVIOUS
<1>1. CASE ProjectNext
  BY <1>1, StartStep, CreateMarkerStep, EnsureDirsStep, InspectStep, EnsureGuardStep, WriteConfigStep,
     WriteStep, RollbackStep, DiesStep, TamperStep DEF ProjectNext
<1>2. CASE UNCHANGED initVars
  <2>1. /\ node' = node /\ layoutDirs' = layoutDirs /\ guard' = guard /\ local' = local
        /\ evidence' = evidence /\ task' = task /\ past' = past
    BY <1>2 DEF initVars
  <2>2. TasksFit'
    BY <2>1 DEF ProjectInv, TasksFit, IsAt
  <2>3. BuilderIsAlone' = BuilderIsAlone
    BY <2>1 DEF BuilderIsAlone, Builds, Did
  <2>4. ProjectIsWhole' = ProjectIsWhole
    BY <2>1 DEF ProjectIsWhole, Builds, Did, IsAt
  <2>5. SomebodyAnswers' = SomebodyAnswers
    BY <2>1 DEF SomebodyAnswers, Answers, FoundNothing, IsAt
  <2> QED
    BY <2>1, <2>2, <2>3, <2>4, <2>5 DEF ProjectInv
<1> QED
  BY <1>1, <1>2

LEMMA ProjectBegins == ProjectInitially => ProjectInv
<1> SUFFICES ASSUME ProjectInitially PROVE ProjectInv
  OBVIOUS
<1> DEFINE Task == [does : {"init", "write", "read", "configure"}, profile : {"default", "strict"},
                    force : BOOLEAN, step : Stages, answer : Replies]
<1>0. ASSUME NEW t \in Tasks PROVE t \in Task /\ t.step = "start" /\ t.answer = "none"
  <2>1. PICK d \in {"init", "write", "read", "configure"}, r \in {"default", "strict"}, f \in BOOLEAN :
          t = [does |-> d, profile |-> r, force |-> f, step |-> "start", answer |-> "none"]
    BY DEF Tasks
  <2> QED
    BY <2>1 DEF Stages, Replies
<1>1. task \in [Starters -> Task] /\ \A p \in Starters : task[p].step = "start" /\ task[p].answer = "none"
  <2>1. task \in [Starters -> Tasks]
    BY DEF ProjectInitially
  <2> HIDE DEF Task
  <2> QED
    BY <1>0, <2>1
<1>2. TasksFit
  BY <1>1 DEF TasksFit, IsAt
<1>3. \A p \in Starters : ~Builds(p) /\ ~Did(p, "configure") /\ ~IsAt(p, "write")
  BY <1>1 DEF Builds, Building, Did, IsAt
<1>4. /\ node \in [{Here, Above} -> Around] /\ layoutDirs \subseteq RequiredDirs /\ evidence = FALSE
      /\ node[Here] = "dir" => "existed" \in past
  BY DEF ProjectInitially
<1> QED
  BY <1>2, <1>3, <1>4 DEF ProjectInv, BuilderIsAlone, ProjectIsWhole, SomebodyAnswers

(* For any processes, layout and surroundings: one init creates the project, *)
(* whole, a failed one leaves nothing unless it says so, and neither a       *)
(* configuration nor the guard over evidence is lost to another process.     *)
THEOREM InitsAreAllOrNothing == ProjectSpec => []InitIsAllOrNothing
<1>1. ASSUME ProjectInv PROVE InitIsAllOrNothing
  <2>1. ASSUME NEW p \in Starters, Did(p, "init")
        PROVE  /\ node[Here] = "dir" /\ layoutDirs = RequiredDirs
               /\ "tampered" \notin past => guard = "effective"
               /\ task[p].profile = "strict" /\ "forced" \notin past => local = "strict"
               /\ \A q \in Starters \ {p} : ~Did(q, "init") /\ ~IsAt(q, "roll back")
    <3>1. Builds(p) /\ task[p].step = "ended"
      BY <1>1, <2>1 DEF Builds, Did, ProjectInv, TasksFit, IsAt
    <3>2. \A q \in Starters \ {p} : ~Builds(q)
      BY <1>1, <3>1 DEF ProjectInv, BuilderIsAlone
    <3>3. \A q \in Starters \ {p} : ~Did(q, "init") /\ ~IsAt(q, "roll back")
      BY <1>1, <3>2 DEF Builds, Did, Building, ProjectInv, TasksFit, IsAt
    <3> QED
      BY <1>1, <2>1, <3>1, <3>3 DEF ProjectInv, BuilderIsAlone, ProjectIsWhole
  <2>2. \A p \in Starters : Answers(p) => ~CleanlyFailed(p) /\ ~FoundNothing(p)
    BY <1>1 DEF Answers, CleanlyFailed, FoundNothing, ProjectInv, TasksFit, Building, IsAt
  <2> QED
    BY <1>1, <2>1, <2>2 DEF InitIsAllOrNothing, ProjectInv, SomebodyAnswers, ProjectIsWhole
<1> QED
  BY <1>1, ProjectBegins, ProjectStep, PTL DEF ProjectSpec

-----------------------------------------------------------------------------
(* The operator's consent.                                                  *)
LEMMA ArgvsFinite ==
    ASSUME NEW p \in Policies
    PROVE  IsFiniteSet(Argvs(p))
<1> DEFINE f == [x \in p.probes |-> x.argv]
<1>1. IsFiniteSet(p.probes)
  BY GrantAssumption DEF Policies
<1>2. f \in Surjection(p.probes, Argvs(p))
  BY DEF Surjection, Argvs
<1> HIDE DEF f
<1> QED
  BY <1>1, <1>2, FS_Surjection

(* The order in which a phase runs its probes names each of them once.      *)
LEMMA OnceEach ==
    ASSUME NEW S, IsFiniteSet(S)
    PROVE  SetToSeq(S) \in Seq(S) /\ IsInjective(SetToSeq(S))
<1> DEFINE n == Cardinality(S)
<1>1. n \in Nat /\ ExistsBijection(1..n, S)
  BY FS_CardinalityType
<1>2. PICK g \in Bijection(1..n, S) : TRUE
  BY <1>1 DEF ExistsBijection
<1>3. g \in [1..n -> S] /\ IsInjective(g)
  BY <1>2 DEF Bijection, Injection
<1>4. SetToSeq(S) \in [1..n -> S] /\ IsInjective(SetToSeq(S))
  BY <1>3 DEF SetToSeq
<1> HIDE DEF n
<1>5. SetToSeq(S) \in Seq(S)
  BY <1>1, <1>4
<1> QED
  BY <1>4, <1>5

LEMMA PhaseBegins ==
    ASSUME NEW path \in ProjectPaths, NEW p \in Policies, NEW s \in {"before", "after"},
           probing' = Phase(path, p, s)
    PROVE  ProbesInOrder'
<1>1. SetToSeq(Argvs(p)) \in Seq(Argvs(p)) /\ IsInjective(SetToSeq(Argvs(p)))
  BY ArgvsFinite, OnceEach
<1> QED
  BY <1>1 DEF ProbesInOrder, Phase, Starting, Running

(* What the store answers depends on these three things alone.              *)
LEMMA SameStore ==
    ASSUME UNCHANGED <<leads, userDir, record>>
    PROVE  Counting' = Counting
BY DEF LoadGrant, Counting

LEMMA Unmoved ==
    ASSUME GrantInv, UNCHANGED <<leads, declared, userDir, record, approved, moves>>
    PROVE  GrantsFit' /\ RecordsAreApproved'
BY DEF GrantInv, GrantsFit, RecordsAreApproved

LEMMA OperatorUnmoved ==
    ASSUME GrantInv, UNCHANGED <<leads, userDir, record, operator, moves>>
    PROVE  OperatorKnows'
BY SameStore DEF GrantInv, OperatorKnows

LEMMA ProbingUnmoved ==
    ASSUME GrantInv, UNCHANGED probing
    PROVE  ProbesInOrder'
BY DEF GrantInv, ProbesInOrder, Starting, Running, Counted

LEMMA ApprovedMeansGranted ==
    ASSUME GrantInv, NEW path \in ProjectPaths, NEW p \in Policies, Granted(path, p)
    PROVE  /\ leads[path] \in ProjectRoots /\ leads[path] # Nowhere
           /\ \E q \in approved[leads[path]] : SameCommands(p, q)
<1> DEFINE root == leads[path]
<1>1. root \in ProjectRoots \cup {Nowhere}
  BY DEF GrantInv, GrantsFit, Roots
<1>2. root # Nowhere /\ userDir.place # root /\ record[root].kind = "grant" /\ record[root].root = root
      /\ LoadGrant(path).contexts = record[root].contexts
  BY DEF Granted, LoadGrant, Unavailable, Grant
<1>3. record[root].contexts = {ProbeGrantContext(q) : q \in approved[root]}
  BY <1>1, <1>2 DEF GrantInv, RecordsAreApproved
<1>4. PICK q \in approved[root] : ProbeGrantContext(p) = ProbeGrantContext(q)
  BY <1>2, <1>3 DEF Granted
<1>5. SameCommands(p, q)
  BY <1>4 DEF ProbeGrantContext, SameCommands
<1> QED
  BY <1>1, <1>2, <1>5

(* An answer that is true when it is given.                                 *)
LEMMA AnswerIsTrue ==
    ASSUME GrantInv, UNCHANGED moves, NEW path \in ProjectPaths, NEW reply, NEW policies,
           operator' = Told(path, reply, policies),
           reply = "approved" => \A p \in policies : ProbeGrantContext(p) \in Counting'[path],
           reply \in {"revoked", "unapproved"} => Counting'[path] = {}
    PROVE  OperatorKnows'
<1>1. moves \in Nat /\ moves' = moves
  BY DEF GrantInv, GrantsFit
<1>2. /\ operator'.doing = "told" /\ operator'.path = path /\ operator'.answer = reply
      /\ operator'.policies = policies /\ operator'.since = moves
  BY DEF Told
<1>3. operator'.since \in Nat /\ operator'.since <= moves'
  BY <1>1, <1>2
<1> QED
  BY <1>2, <1>3 DEF OperatorKnows

(* What counts for a path by what lies where its record is kept.            *)
LEMMA StoreAnswers ==
    ASSUME NEW path \in ProjectPaths, leads[path] # Nowhere, userDir.place # "opaque", userDir.place # leads[path]
    PROVE  /\ ~userDir.exists \/ record[leads[path]].kind = "none" => Counting[path] = {}
           /\ userDir.exists /\ record[leads[path]].kind = "grant" /\ record[leads[path]].root = leads[path] =>
                Counting[path] = record[leads[path]].contexts
<1> DEFINE root == leads[path]
           found == record[root]
<1>1. Counting[path] = LoadGrant(path).contexts
  BY DEF Counting
<1>2. LoadGrant(path) = IF ~userDir.exists THEN Grant("absent", {})
                        ELSE CASE found.kind = "none" -> Grant("absent", {})
                               [] found.kind = "grant" -> IF found.root = root THEN Grant("recorded", found.contexts) ELSE Unavailable
                               [] OTHER -> Unavailable
  BY DEF LoadGrant
<1>3. CASE ~userDir.exists
  BY <1>1, <1>2, <1>3 DEF Grant
<1>4. CASE userDir.exists /\ found.kind = "none"
  <2>1. LoadGrant(path) = Grant("absent", {})
    BY <1>2, <1>4
  <2> QED
    BY <1>1, <1>4, <2>1 DEF Grant
<1>5. CASE userDir.exists /\ found.kind = "grant" /\ found.root = root
  <2>1. LoadGrant(path) = Grant("recorded", found.contexts)
    BY <1>2, <1>5
  <2> QED
    BY <1>1, <1>5, <2>1 DEF Grant
<1> QED
  BY <1>3, <1>4, <1>5

LEMMA StoreAnswersNext ==
    ASSUME NEW path \in ProjectPaths, leads'[path] # Nowhere, userDir'.place # "opaque", userDir'.place # leads'[path]
    PROVE  /\ ~userDir'.exists \/ record'[leads'[path]].kind = "none" => Counting'[path] = {}
           /\ userDir'.exists /\ record'[leads'[path]].kind = "grant" /\ record'[leads'[path]].root = leads'[path] =>
                Counting'[path] = record'[leads'[path]].contexts
<1> DEFINE root == leads'[path]
           found == record'[root]
<1>1. Counting'[path] = LoadGrant(path)'.contexts
  BY DEF Counting
<1>2. LoadGrant(path)' = IF ~userDir'.exists THEN Grant("absent", {})
                        ELSE CASE found.kind = "none" -> Grant("absent", {})
                               [] found.kind = "grant" -> IF found.root = root THEN Grant("recorded", found.contexts) ELSE Unavailable
                               [] OTHER -> Unavailable
  BY DEF LoadGrant
<1>3. CASE ~userDir'.exists
  BY <1>1, <1>2, <1>3 DEF Grant
<1>4. CASE userDir'.exists /\ found.kind = "none"
  <2>1. LoadGrant(path)' = Grant("absent", {})
    BY <1>2, <1>4
  <2> QED
    BY <1>1, <1>4, <2>1 DEF Grant
<1>5. CASE userDir'.exists /\ found.kind = "grant" /\ found.root = root
  <2>1. LoadGrant(path)' = Grant("recorded", found.contexts)
    BY <1>2, <1>5
  <2> QED
    BY <1>1, <1>5, <2>1 DEF Grant
<1> QED
  BY <1>3, <1>4, <1>5

-----------------------------------------------------------------------------
LEMMA GrantsBegin == GrantInit => GrantInv
<1> SUFFICES ASSUME GrantInit PROVE GrantInv
  OBVIOUS
<1>1. GrantsFit
  <2>1. leads \in [ProjectPaths -> Roots] /\ declared \in [ProjectRoots -> Declarations] /\ moves \in Nat
    BY DEF GrantInit, Roots
  <2>2. record = [r \in Roots |-> record[r]] /\ approved \in [Roots -> SUBSET Policies]
    BY DEF GrantInit, Roots
  <2>3. userDir \in [exists : BOOLEAN, place : ProjectRoots \cup {"outside", "opaque"}]
    <3>1. CASE userDir \in [exists : BOOLEAN, place : ProjectRoots \cup {"outside"}]
      BY <3>1
    <3>2. CASE userDir = [exists |-> TRUE, place |-> "opaque"]
      <4>1. TRUE \in BOOLEAN
        OBVIOUS
      <4> QED
        BY <3>2, <4>1
    <3> QED
      BY <3>1, <3>2 DEF GrantInit
  <2> QED
    BY <2>1, <2>2, <2>3 DEF GrantsFit
<1>2. RecordsAreApproved
  BY DEF GrantInit, RecordsAreApproved, NoRecordFile
<1>3. OperatorKnows
  BY DEF GrantInit, OperatorKnows, AtRest
<1>4. ProbesInOrder
  BY DEF GrantInit, ProbesInOrder, NoRun, Starting, Running
<1> QED
  BY <1>1, <1>2, <1>3, <1>4 DEF GrantInv

LEMMA LoadForAllowKeeps ==
    ASSUME GrantInv, NEW path \in ProjectPaths, LoadForAllow(path)
    PROVE  GrantInv'
<1>1. GrantsFit' /\ RecordsAreApproved' /\ ProbesInOrder'
  BY Unmoved, ProbingUnmoved DEF LoadForAllow
<1>2. leads[path] \in ProjectRoots
  BY DEF LoadForAllow, GrantInv, GrantsFit, Roots
<1>3. WithProbes(declared[leads[path]]) \subseteq Policies
  BY <1>2 DEF WithProbes, Policies, GrantInv, GrantsFit
<1> DEFINE policies == WithProbes(declared[leads[path]])
<1>4. CASE operator' = Told(path, "unasked", {})
  BY <1>1, <1>4, AnswerIsTrue DEF LoadForAllow, GrantInv
<1>5. CASE operator' = [doing |-> "allow", path |-> path, policies |-> policies]
  <2>1. OperatorKnows'
    BY <1>3, <1>5 DEF OperatorKnows
  <2> QED
    BY <1>1, <2>1 DEF GrantInv
<1> QED
  BY <1>4, <1>5 DEF LoadForAllow

LEMMA AllowKeeps ==
    ASSUME GrantInv, Allow
    PROVE  GrantInv'
<1> DEFINE path == operator.path
           root == leads[path]
           created == IF root # Nowhere /\ userDir.place # "opaque" THEN [userDir EXCEPT !.exists = TRUE] ELSE userDir
<1>1. path \in ProjectPaths /\ operator.policies \subseteq Policies
  BY DEF Allow, GrantInv, OperatorKnows
<1>2. root \in ProjectRoots \cup {Nowhere}
  BY <1>1 DEF GrantInv, GrantsFit, Roots
<1>3. /\ created \in [exists : BOOLEAN, place : ProjectRoots \cup {"outside", "opaque"}]
      /\ created.place = userDir.place /\ userDir.exists => created.exists
  BY DEF GrantInv, GrantsFit
<1>4. ProbesInOrder'
  BY ProbingUnmoved DEF Allow
<1>5. CASE /\ userDir' \in {userDir, created} /\ UNCHANGED <<record, approved>>
           /\ operator' = Told(path, "failed", {})
  <2>1. GrantsFit' /\ RecordsAreApproved'
    BY <1>3, <1>5 DEF Allow, GrantInv, GrantsFit, RecordsAreApproved
  <2>2. OperatorKnows'
    BY <1>1, <1>5, AnswerIsTrue DEF Allow
  <2> QED
    BY <1>4, <2>1, <2>2 DEF GrantInv
<1>6. ASSUME Writable(path), userDir' = created,
             record' = [record EXCEPT ![root] = Recorded(root, {ProbeGrantContext(p) : p \in operator.policies})],
             approved' = [approved EXCEPT ![root] = operator.policies],
             NEW reply \in {"approved", "unconfirmed"}, operator' = Told(path, reply, operator.policies)
      PROVE  GrantInv'
  <2>1. root \in ProjectRoots /\ root # Nowhere /\ userDir.place # "opaque" /\ userDir.place # root
        /\ created.exists
    BY <1>2, <1>6 DEF Writable, GrantInv, GrantsFit
  <2>2. /\ record'[root] = Recorded(root, {ProbeGrantContext(p) : p \in operator.policies})
        /\ \A r \in Roots : r # root => record'[r] = record[r]
        /\ record' = [r \in Roots |-> record'[r]]
    BY <1>2, <1>6 DEF GrantInv, GrantsFit, Roots
  <2>3. /\ approved'[root] = operator.policies
        /\ \A r \in Roots : r # root => approved'[r] = approved[r]
        /\ approved' \in [Roots -> SUBSET Policies]
    BY <1>1, <1>2, <1>6 DEF GrantInv, GrantsFit, Roots
  <2>4. GrantsFit'
    BY <1>3, <1>6, <2>2, <2>3 DEF Allow, GrantInv, GrantsFit
  <2>5. ASSUME NEW r \in ProjectRoots, userDir'.place # r, record'[r].kind = "grant", record'[r].root = r
        PROVE  record'[r].contexts = {ProbeGrantContext(p) : p \in approved'[r]}
    <3>1. CASE r = root
      <4>1. record'[root].contexts = {ProbeGrantContext(p) : p \in operator.policies}
        BY <2>2 DEF Recorded
      <4> QED
        BY <2>3, <3>1, <4>1
    <3>2. CASE r # root
      BY <1>3, <1>6, <2>2, <2>3, <2>5, <3>2 DEF GrantInv, RecordsAreApproved, Roots
    <3> QED
      BY <3>1, <3>2
  <2>6. RecordsAreApproved'
    BY <2>5 DEF RecordsAreApproved
  <2>7. Counting'[path] = {ProbeGrantContext(p) : p \in operator.policies}
    <3>1. leads' = leads /\ record'[root].kind = "grant" /\ record'[root].root = root
          /\ record'[root].contexts = {ProbeGrantContext(p) : p \in operator.policies}
      BY <2>2 DEF Recorded, Allow
    <3>2. userDir'.exists /\ userDir'.place = userDir.place
      BY <1>3, <1>6, <2>1
    <3> QED
      BY <1>1, <2>1, <3>1, <3>2, StoreAnswersNext
  <2>8. \A p \in operator.policies : ProbeGrantContext(p) \in Counting'[path]
    BY <2>7
  <2>9. OperatorKnows'
    BY <1>1, <1>6, <2>8, AnswerIsTrue DEF Allow
  <2> QED
    BY <1>4, <2>4, <2>6, <2>9 DEF GrantInv
<1> QED
  BY <1>5, <1>6 DEF Allow

LEMMA RevokeKeeps ==
    ASSUME GrantInv, NEW path \in ProjectPaths, Revoke(path)
    PROVE  GrantInv'
<1> DEFINE root == leads[path]
<1>1. root \in ProjectRoots
  BY DEF Revoke, GrantInv, GrantsFit, Roots
<1>2. ProbesInOrder'
  BY ProbingUnmoved DEF Revoke
<1>3. CASE operator' = Told(path, "failed", {}) /\ UNCHANGED <<record, approved>>
  <2>1. GrantsFit' /\ RecordsAreApproved'
    BY <1>3, Unmoved DEF Revoke
  <2>2. OperatorKnows'
    BY <1>3, AnswerIsTrue DEF Revoke
  <2> QED
    BY <1>2, <2>1, <2>2 DEF GrantInv
<1>4. CASE /\ Writable(path) /\ (~userDir.exists \/ record[root] = NoRecordFile)
           /\ operator' = Told(path, "unapproved", {}) /\ UNCHANGED <<record, approved>>
  <2>1. GrantsFit' /\ RecordsAreApproved'
    BY <1>4, Unmoved DEF Revoke
  <2>2. Counting[path] = {} /\ Counting' = Counting
    BY <1>4, StoreAnswers, SameStore DEF Revoke, Writable, NoRecordFile
  <2>3. OperatorKnows'
    BY <1>4, <2>2, AnswerIsTrue DEF Revoke
  <2> QED
    BY <1>2, <2>1, <2>3 DEF GrantInv
<1>5. ASSUME Writable(path), record' = [record EXCEPT ![root] = NoRecordFile],
             approved' = [approved EXCEPT ![root] = {}],
             NEW reply \in {"revoked", "unconfirmed"}, operator' = Told(path, reply, {})
      PROVE  GrantInv'
  <2>1. /\ record'[root] = NoRecordFile
        /\ \A r \in Roots : r # root => record'[r] = record[r]
        /\ record' = [r \in Roots |-> record'[r]]
    BY <1>1, <1>5 DEF GrantInv, GrantsFit, Roots
  <2>2. /\ \A r \in Roots : r # root => approved'[r] = approved[r]
        /\ approved' \in [Roots -> SUBSET Policies]
    BY <1>1, <1>5 DEF GrantInv, GrantsFit, Roots
  <2>3. GrantsFit'
    BY <2>1, <2>2 DEF Revoke, GrantInv, GrantsFit
  <2>4. RecordsAreApproved'
    <3> SUFFICES ASSUME NEW r \in ProjectRoots, userDir'.place # r, record'[r].kind = "grant", record'[r].root = r
                 PROVE  record'[r].contexts = {ProbeGrantContext(p) : p \in approved'[r]}
      BY DEF RecordsAreApproved
    <3>1. r # root
      BY <2>1 DEF NoRecordFile
    <3> QED
      BY <2>1, <2>2, <3>1 DEF Revoke, GrantInv, RecordsAreApproved, Roots
  <2>5. Counting'[path] = {}
    BY <1>5, <2>1, StoreAnswersNext DEF Revoke, Writable, NoRecordFile
  <2>6. OperatorKnows'
    BY <1>5, <2>5, AnswerIsTrue DEF Revoke
  <2> QED
    BY <1>2, <2>3, <2>4, <2>6 DEF GrantInv
<1> QED
  BY <1>3, <1>4, <1>5 DEF Revoke

LEMMA OperatorDiesKeeps ==
    ASSUME GrantInv, OperatorDies
    PROVE  GrantInv'
<1>1. GrantsFit' /\ RecordsAreApproved' /\ ProbesInOrder'
  BY Unmoved, ProbingUnmoved DEF OperatorDies
<1>2. OperatorKnows'
  BY DEF OperatorDies, OperatorKnows, AtRest
<1> QED
  BY <1>1, <1>2 DEF GrantInv

-----------------------------------------------------------------------------
LEMMA BeginRunKeeps ==
    ASSUME GrantInv, NEW path \in ProjectPaths, BeginRun(path)
    PROVE  GrantInv'
<1>1. GrantsFit' /\ RecordsAreApproved' /\ OperatorKnows'
  BY Unmoved, OperatorUnmoved DEF BeginRun
<1>2. leads[path] \in ProjectRoots
  BY DEF BeginRun, GrantInv, GrantsFit, Roots
<1>3. PICK p \in WithProbes(declared[leads[path]]) : probing' = Phase(path, p, "before")
  BY DEF BeginRun
<1>4. p \in Policies
  BY <1>2 DEF WithProbes, Policies, GrantInv, GrantsFit
<1>5. ProbesInOrder'
  BY <1>3, <1>4, PhaseBegins
<1> QED
  BY <1>1, <1>5 DEF GrantInv

LEMMA AuthorizeKeeps ==
    ASSUME GrantInv, authorizeProbes
    PROVE  GrantInv'
<1>1. GrantsFit' /\ RecordsAreApproved' /\ OperatorKnows'
  BY Unmoved, OperatorUnmoved DEF authorizeProbes
<1>2. /\ Starting /\ probing.ran = {} /\ probing.facts = <<>>
      /\ probing.path \in ProjectPaths /\ probing.policy \in Policies /\ probing.checked \in BOOLEAN
      /\ probing.left \in Seq(Argvs(probing.policy)) /\ IsInjective(probing.left)
      /\ probing = [phase |-> probing.phase, checked |-> probing.checked, path |-> probing.path,
                    policy |-> probing.policy, left |-> probing.left, facts |-> probing.facts,
                    ran |-> probing.ran, consent |-> probing.consent]
  BY DEF authorizeProbes, Starting, GrantInv, ProbesInOrder
<1>3. CASE ~Granted(probing.path, probing.policy)
  <2>1. probing' = [probing EXCEPT !.phase = "denied", !.facts = Facts("denied")]
    BY <1>3 DEF authorizeProbes
  <2>2. probing' = [phase |-> "denied", checked |-> probing.checked, path |-> probing.path,
                    policy |-> probing.policy, left |-> probing.left, facts |-> Facts("denied"),
                    ran |-> probing.ran, consent |-> probing.consent]
    BY <1>2, <2>1
  <2>3. ProbesInOrder'
    BY <1>2, <2>2 DEF ProbesInOrder, Starting, Running
  <2> QED
    BY <1>1, <2>3 DEF GrantInv
<1>4. CASE Granted(probing.path, probing.policy)
  <2>1. probing' = [probing EXCEPT !.checked = TRUE, !.consent = approved[leads[probing.path]]]
    BY <1>4 DEF authorizeProbes
  <2>2. probing' = [phase |-> probing.phase, checked |-> TRUE, path |-> probing.path,
                    policy |-> probing.policy, left |-> probing.left, facts |-> probing.facts,
                    ran |-> probing.ran, consent |-> approved[leads[probing.path]]]
    BY <1>2, <2>1
  <2>3. \E q \in approved[leads[probing.path]] : SameCommands(probing.policy, q)
    BY <1>2, <1>4, ApprovedMeansGranted
  <2>4. Cardinality(Counted(<<>>)) = Cardinality({})
    <3>1. Counted(<<>>) = {}
      BY DEF Counted
    <3> QED
      BY <3>1
  <2>5. ProbesInOrder'
    <3>1. \E q \in probing'.consent : SameCommands(probing'.policy, q)
      BY <2>2, <2>3
    <3>2. probing'.facts = <<>> /\ probing'.ran = {}
      BY <1>2, <2>2
    <3> QED
      BY <1>2, <2>2, <2>4, <3>1, <3>2 DEF ProbesInOrder, Starting, Running
  <2> QED
    BY <1>1, <2>5 DEF GrantInv
<1> QED
  BY <1>3, <1>4

(* Every probe run so far is counted, and the next has not run yet.         *)
LEMMA AllCounted ==
    ASSUME NEW facts \in Seq({"acquired", "unavailable", "skipped"}),
           \A i \in DOMAIN facts : facts[i] # "skipped"
    PROVE  Counted(facts) = 1..Len(facts) /\ Cardinality(Counted(facts)) = Len(facts)
<1>1. Counted(facts) = 1..Len(facts) /\ Len(facts) \in Nat
  BY DEF Counted
<1>2. Cardinality(1..Len(facts)) = Len(facts)
  BY <1>1, FS_Interval
<1> QED
  BY <1>1, <1>2

LEMMA AcquireFactKeeps ==
    ASSUME GrantInv, AcquireFact
    PROVE  GrantInv'
<1> DEFINE left == probing.left
           facts == probing.facts
           ran == probing.ran
           argvs == Argvs(probing.policy)
           first == Head(probing.left)
           ProbeWord == {"acquired", "unavailable", "skipped"}
<1>1. GrantsFit' /\ RecordsAreApproved' /\ OperatorKnows'
  BY Unmoved, OperatorUnmoved DEF AcquireFact
<1>2. /\ Running /\ left # <<>>
      /\ probing.path \in ProjectPaths /\ probing.policy \in Policies
      /\ left \in Seq(argvs) /\ IsInjective(left)
      /\ probing = [phase |-> probing.phase, checked |-> probing.checked, path |-> probing.path,
                    policy |-> probing.policy, left |-> probing.left, facts |-> probing.facts,
                    ran |-> probing.ran, consent |-> probing.consent]
      /\ \E q \in probing.consent : SameCommands(probing.policy, q)
      /\ facts \in Seq(ProbeWord) /\ ran \subseteq argvs
      /\ Cardinality(Counted(facts)) = Cardinality(ran)
      /\ \A i \in DOMAIN facts : facts[i] # "skipped"
      /\ \A i \in DOMAIN left : left[i] \notin ran
  BY DEF AcquireFact, Running, GrantInv, ProbesInOrder
<1>3. PICK status \in {"acquired", "unavailable"} :
        probing' = [probing EXCEPT !.ran = @ \cup {Head(probing.left)},
                      !.facts = IF status = "acquired" THEN Append(@, status)
                                ELSE Append(@, status) \o [i \in 1..(Len(probing.left) - 1) |-> "skipped"],
                      !.left = IF status = "acquired" THEN Tail(@) ELSE <<>>]
  BY DEF AcquireFact
<1> DEFINE told == Append(facts, status)
           rest == [i \in 1..(Len(left) - 1) |-> "skipped"]
<1>4. probing' = [phase |-> probing.phase, checked |-> probing.checked, path |-> probing.path,
                  policy |-> probing.policy, left |-> IF status = "acquired" THEN Tail(left) ELSE <<>>,
                  facts |-> IF status = "acquired" THEN told ELSE told \o rest,
                  ran |-> ran \cup {first}, consent |-> probing.consent]
  BY <1>2, <1>3
<1>5. first = left[1] /\ 1 \in DOMAIN left /\ first \in argvs /\ first \notin ran /\ Len(left) \in Nat /\ Len(left) >= 1
  BY <1>2
<1>6. told \in Seq(ProbeWord) /\ Len(told) = Len(facts) + 1 /\ \A i \in DOMAIN told : told[i] # "skipped"
  BY <1>2
<1>7. Cardinality(ran \cup {first}) = Len(facts) + 1
  <2>1. IsFiniteSet(ran)
    BY <1>2, ArgvsFinite, FS_Subset
  <2>2. Cardinality(ran \cup {first}) = Cardinality(ran) + 1
    BY <1>5, <2>1, FS_AddElement
  <2>3. Cardinality(ran) = Len(facts)
    BY <1>2, AllCounted
  <2> QED
    BY <2>2, <2>3
<1>8. Counted(told) = 1..Len(told) /\ Cardinality(Counted(told)) = Len(told)
  BY <1>6, AllCounted
<1> HIDE DEF told
<1>9. ASSUME status = "unavailable"
      PROVE  told \o rest \in Seq(ProbeWord) /\ Counted(told \o rest) = Counted(told)
  <2>1. rest \in Seq(ProbeWord) /\ Len(rest) = Len(left) - 1
    BY <1>5
  <2> HIDE DEF rest
  <2>2. /\ told \o rest \in Seq(ProbeWord) /\ Len(told \o rest) = Len(told) + Len(rest)
        /\ \A i \in 1..(Len(told) + Len(rest)) :
             (told \o rest)[i] = IF i <= Len(told) THEN told[i] ELSE rest[i - Len(told)]
    <3>1. told \in Seq(ProbeWord) /\ rest \in Seq(ProbeWord)
      BY <1>6, <2>1
    <3> HIDE DEF ProbeWord
    <3> QED
      BY <3>1
  <2>3. \A i \in 1..Len(rest) : rest[i] = "skipped"
    BY <2>1 DEF rest
  <2>4. \A i \in DOMAIN (told \o rest) : (told \o rest)[i] # "skipped" <=> i \in 1..Len(told)
    BY <1>6, <2>1, <2>2, <2>3
  <2>5. 1..Len(told) \subseteq DOMAIN (told \o rest)
    BY <1>6, <2>1, <2>2
  <2> QED
    BY <1>8, <2>2, <2>4, <2>5 DEF Counted
<1>10. IsInjective(probing'.left) /\ probing'.left \in Seq(argvs)
       /\ \A i \in DOMAIN probing'.left : probing'.left[i] \notin ran \cup {first}
  <2>1. CASE status = "acquired"
    <3>1. probing'.left = Tail(left) /\ Tail(left) \in Seq(argvs) /\ Len(Tail(left)) = Len(left) - 1
          /\ \A i \in 1..(Len(left) - 1) : Tail(left)[i] = left[i + 1]
      BY <1>2, <1>4, <1>5, <2>1
    <3>2. \A i, j \in 1..Len(left) : left[i] = left[j] => i = j
      BY <1>2 DEF IsInjective
    <3>3. \A i \in 1..Len(left) : left[i] \notin ran
      BY <1>2
    <3>4. DOMAIN Tail(left) = 1..(Len(left) - 1)
      BY <3>1
    <3>5. IsInjective(Tail(left))
      <4>1. ASSUME NEW i \in 1..(Len(left) - 1), NEW j \in 1..(Len(left) - 1), Tail(left)[i] = Tail(left)[j]
            PROVE  i = j
        <5>1. i + 1 \in 1..Len(left) /\ j + 1 \in 1..Len(left)
          BY <1>5
        <5>2. left[i + 1] = left[j + 1]
          BY <3>1, <4>1
        <5>3. i + 1 = j + 1
          BY <3>2, <5>1, <5>2
        <5> QED
          BY <5>3
      <4> QED
        BY <3>4, <4>1 DEF IsInjective
    <3>6. \A i \in 1..(Len(left) - 1) : Tail(left)[i] \notin ran /\ Tail(left)[i] # left[1]
      BY <1>5, <3>1, <3>2, <3>3
    <3> QED
      BY <1>5, <3>1, <3>4, <3>5, <3>6
  <2>2. CASE status # "acquired"
    <3>1. probing'.left = <<>>
      BY <1>4, <2>2
    <3> QED
      BY <3>1 DEF IsInjective
  <2> QED
    BY <2>1, <2>2
<1>11. /\ probing'.facts \in Seq(ProbeWord) /\ Cardinality(Counted(probing'.facts)) = Cardinality(probing'.ran)
       /\ probing'.left # <<>> => \A i \in DOMAIN probing'.facts : probing'.facts[i] # "skipped"
  <2>1. CASE status = "acquired"
    BY <1>4, <1>6, <1>7, <1>8, <2>1
  <2>2. CASE status = "unavailable"
    <3>1. probing'.facts = told \o rest /\ probing'.left = <<>> /\ probing'.ran = ran \cup {first}
      BY <1>4, <2>2
    <3> HIDE DEF rest
    <3> QED
      BY <1>6, <1>7, <1>8, <1>9, <2>2, <3>1
  <2> QED
    BY <2>1, <2>2
<1>12. /\ probing'.phase = probing.phase /\ probing'.checked = probing.checked /\ probing'.path = probing.path
       /\ probing'.policy = probing.policy /\ probing'.ran = ran \cup {first} /\ probing'.consent = probing.consent
       /\ probing' = [phase |-> probing'.phase, checked |-> probing'.checked, path |-> probing'.path,
                      policy |-> probing'.policy, left |-> probing'.left, facts |-> probing'.facts,
                      ran |-> probing'.ran, consent |-> probing'.consent]
  BY <1>4
<1>13. probing.checked = TRUE /\ probing.phase \in {"before", "after"}
  BY <1>2 DEF Running, GrantInv, ProbesInOrder
<1>14. ran \cup {first} \subseteq argvs
  BY <1>2, <1>5
<1>15. ProbesInOrder'
  <2> HIDE DEF first
  <2> QED
    BY <1>2, <1>10, <1>11, <1>12, <1>13, <1>14 DEF ProbesInOrder, Starting, Running
<1> QED
  BY <1>1, <1>15 DEF GrantInv

LEMMA RunCommandKeeps ==
    ASSUME GrantInv, RunCommand
    PROVE  GrantInv'
<1>1. GrantsFit' /\ RecordsAreApproved' /\ OperatorKnows'
  BY Unmoved, OperatorUnmoved DEF RunCommand
<1>2. probing.path \in ProjectPaths /\ probing.policy \in Policies
  BY DEF RunCommand, Running, GrantInv, ProbesInOrder
<1>3. CASE probing' = Phase(probing.path, probing.policy, "after")
  BY <1>1, <1>2, <1>3, PhaseBegins DEF GrantInv
<1>4. CASE probing' = NoRun
  BY <1>1, <1>4 DEF GrantInv, ProbesInOrder, NoRun, Starting, Running
<1> QED
  BY <1>3, <1>4 DEF RunCommand

LEMMA EndRunKeeps ==
    ASSUME GrantInv, EndRun
    PROVE  GrantInv'
<1>1. GrantsFit' /\ RecordsAreApproved' /\ OperatorKnows'
  BY Unmoved, OperatorUnmoved DEF EndRun
<1>2. ProbesInOrder'
  BY DEF EndRun, ProbesInOrder, NoRun, Starting, Running
<1> QED
  BY <1>1, <1>2 DEF GrantInv

-----------------------------------------------------------------------------
LEMMA MoveKeeps ==
    ASSUME GrantInv, Move
    PROVE  OperatorKnows' /\ ProbesInOrder' /\ moves' \in Nat
<1>1. moves \in Nat /\ moves' = moves + 1 /\ operator' = operator
  BY DEF Move, GrantInv, GrantsFit
<1>2. ASSUME operator.doing = "told"
      PROVE  operator.since # moves' /\ operator.since <= moves'
  <2>1. operator.since \in Nat /\ operator.since <= moves
    BY <1>2 DEF GrantInv, OperatorKnows
  <2> QED
    BY <1>1, <2>1
<1>3. OperatorKnows'
  <2>1. \/ operator.doing = "nothing"
        \/ operator.doing = "allow" /\ operator.path \in ProjectPaths /\ operator.policies \subseteq Policies
        \/ operator.doing = "told" /\ operator.path \in ProjectPaths /\ operator.since \in Nat
    BY DEF GrantInv, OperatorKnows
  <2> QED
    BY <1>1, <1>2, <2>1 DEF OperatorKnows
<1> QED
  BY <1>1, <1>3, ProbingUnmoved DEF Move

LEMMA CheckoutKeeps ==
    ASSUME GrantInv, NEW root \in ProjectRoots, Checkout(root)
    PROVE  GrantInv'
<1>1. OperatorKnows' /\ ProbesInOrder' /\ moves' \in Nat
  BY MoveKeeps DEF Checkout
<1>2. PICK policies \in Declarations : declared' = [declared EXCEPT ![root] = policies]
  BY DEF Checkout
<1>3. declared' \in [ProjectRoots -> Declarations]
  BY <1>2 DEF GrantInv, GrantsFit
<1>4. /\ \A r \in Roots : r # userDir.place => record'[r] = record[r]
      /\ record' = [r \in Roots |-> record'[r]]
  BY DEF Checkout, GrantInv, GrantsFit, Roots
<1>5. GrantsFit'
  BY <1>1, <1>3, <1>4 DEF Checkout, Move, GrantInv, GrantsFit
<1>6. RecordsAreApproved'
  BY <1>4 DEF Checkout, Move, GrantInv, RecordsAreApproved, Roots
<1> QED
  BY <1>1, <1>5, <1>6 DEF GrantInv

LEMMA RelinkKeeps ==
    ASSUME GrantInv, NEW path \in ProjectPaths, Relink(path)
    PROVE  GrantInv'
<1>1. OperatorKnows' /\ ProbesInOrder' /\ moves' \in Nat
  BY MoveKeeps DEF Relink
<1>2. GrantsFit'
  BY <1>1 DEF Relink, Move, GrantInv, GrantsFit, Roots
<1>3. RecordsAreApproved'
  BY DEF Relink, Move, GrantInv, RecordsAreApproved
<1> QED
  BY <1>1, <1>2, <1>3 DEF GrantInv

LEMMA DamageKeeps ==
    ASSUME GrantInv, NEW root \in ProjectRoots, DamageRecord(root)
    PROVE  GrantInv'
<1>1. OperatorKnows' /\ ProbesInOrder' /\ moves' \in Nat
  BY MoveKeeps DEF DamageRecord
<1>2. PICK found \in Damages \cup {record[r] : r \in ProjectRoots} :
        /\ found.kind = "grant" => found.root # root
        /\ record' = [record EXCEPT ![root] = found]
  BY DEF DamageRecord
<1>3. /\ record'[root] = found
      /\ \A r \in Roots : r # root => record'[r] = record[r]
      /\ record' = [r \in Roots |-> record'[r]]
  BY <1>2 DEF GrantInv, GrantsFit, Roots
<1>4. GrantsFit'
  BY <1>1, <1>3 DEF DamageRecord, Move, GrantInv, GrantsFit
<1>5. RecordsAreApproved'
  BY <1>2, <1>3 DEF DamageRecord, Move, GrantInv, RecordsAreApproved, Roots
<1> QED
  BY <1>1, <1>4, <1>5 DEF GrantInv

LEMMA GrantStep == GrantInv /\ [GrantNext]_grantVars => GrantInv'
<1> SUFFICES ASSUME GrantInv, [GrantNext]_grantVars PROVE GrantInv'
  OBVIOUS
<1>1. CASE UNCHANGED grantVars
  BY <1>1, Unmoved, OperatorUnmoved, ProbingUnmoved DEF grantVars, GrantInv
<1>2. CASE GrantNext
  BY <1>2, LoadForAllowKeeps, AllowKeeps, RevokeKeeps, OperatorDiesKeeps, BeginRunKeeps, AuthorizeKeeps,
     AcquireFactKeeps, RunCommandKeeps, EndRunKeeps, CheckoutKeeps, RelinkKeeps, DamageKeeps DEF GrantNext
<1> QED
  BY <1>1, <1>2

(* A probe runs only where the operator approved that very command at that  *)
(* canonical root and had not revoked it before the phase began, each probe *)
(* of a phase runs once at most, and what allow and revoke answer is true   *)
(* when they answer (the consent store, run probes).                        *)
THEOREM ProbesConsented == GrantSpec => []ProbesAreConsented
<1>1. GrantInv => ProbesAreConsented
  <2> SUFFICES ASSUME GrantInv PROVE ProbesAreConsented
    OBVIOUS
  <2>1. \A path \in ProjectPaths, p \in Policies :
          Granted(path, p) => \E q \in approved[leads[path]] : SameCommands(p, q)
    BY ApprovedMeansGranted
  <2>2. /\ Running => \E q \in probing.consent : SameCommands(probing.policy, q)
        /\ probing.phase = "denied" => probing.ran = {}
        /\ Running => Cardinality(Counted(probing.facts)) = Cardinality(probing.ran)
    BY DEF GrantInv, ProbesInOrder
  <2>3. ASSUME operator.doing = "told", operator.since = moves
        PROVE  /\ operator.answer = "approved" => \A p \in operator.policies : Granted(operator.path, p)
               /\ operator.answer \in {"revoked", "unapproved"} => \A p \in Policies : ~Granted(operator.path, p)
    <3>1. operator.path \in ProjectPaths
      BY <2>3 DEF GrantInv, OperatorKnows
    <3>2. Counting[operator.path] = LoadGrant(operator.path).contexts
      BY <3>1 DEF Counting
    <3> QED
      BY <2>3, <3>2 DEF GrantInv, OperatorKnows, Granted
  <2> QED
    BY <2>1, <2>2, <2>3 DEF ProbesAreConsented, Policies, Counted
<1> QED
  BY <1>1, GrantsBegin, GrantStep, PTL DEF GrantSpec

-----------------------------------------------------------------------------
(* Doctor's repair, for any store, any faults and any writers beside it.    *)
(* The shape of every finding is followed from the check that makes it to   *)
(* the list the repair walks; a writer holds every lock that is held, and   *)
(* none is at work during a repair.                                         *)
Holders == Item("checkpoint", Checkpoints) \cup Item("recovery", Records)
Abouts == Items \cup Item("files", {"captured", "opaque"}) \cup {Reference(h, b) : h \in Holders, b \in Blobs}

(* What doctor may act on. *)
Remains == Item("checkpoint", Checkpoints) \cup Item("temp", Temps) \cup Item("lock", Locks \ Exclusive)
           \cup {One("index"), One("guard")}
Findings == {f \in [about : Abouts, severity : {"error", "warning"}, repairable : BOOLEAN, repaired : BOOLEAN] :
                f.repairable => f.about \in Remains}

LEMMA FindingIsOne ==
    ASSUME NEW about \in Abouts, NEW severity \in {"error", "warning"}, NEW repairable \in BOOLEAN,
           repairable => about \in Remains
    PROVE  Finding(about, severity, repairable) \in Findings
  BY DEF Finding, Findings

LEMMA OneFinding ==
    ASSUME NEW about \in Abouts
    PROVE  /\ Passed \in Seq(Findings) /\ Error(about) \in Seq(Findings) /\ Warning(about) \in Seq(Findings)
           /\ about \in Remains => Repairable(about) \in Seq(Findings)
<1>1. \A f \in Findings : <<f>> \in Seq(Findings)
  OBVIOUS
<1>2. Finding(about, "error", FALSE) \in Findings /\ Finding(about, "warning", FALSE) \in Findings
  BY FindingIsOne
<1>3. about \in Remains => Finding(about, "warning", TRUE) \in Findings
  BY FindingIsOne
<1>4. Passed \in Seq(Findings)
  BY DEF Passed
<1> QED
  BY <1>1, <1>2, <1>3, <1>4 DEF Error, Warning, Repairable

LEMMA InOrder ==
    ASSUME NEW S, IsFiniteSet(S)
    PROVE  Cardinality(S) \in Nat /\ \A k \in 1..Cardinality(S) : SetToSeq(S)[k] \in S
<1>1. Cardinality(S) \in Nat /\ ExistsBijection(1..Cardinality(S), S)
  BY FS_CardinalityType
<1>2. PICK f \in [1..Cardinality(S) -> S] : IsInjective(f)
  BY <1>1 DEF ExistsBijection, Bijection, Injection, IsInjective
<1>3. SetToSeq(S) \in [1..Cardinality(S) -> S]
  BY <1>2 DEF SetToSeq
<1> QED
  BY <1>1, <1>3

LEMMA EachIsListed ==
    ASSUME NEW kind, NEW names, IsFiniteSet(names), NEW T, Item(kind, names) \subseteq T
    PROVE  Each(kind, names) \in Seq(T)
<1>1. \A k \in 1..Cardinality(names) : <<kind, SetToSeq(names)[k]>> \in T
  BY InOrder DEF Item
<1>2. Cardinality(names) \in Nat
  BY InOrder
<1> QED
  BY <1>1, <1>2, IsASeq DEF Each

Inspected == Items \cup Item("remnant", Checkpoints) \cup {One("files")}

LEMMA InspectionIsTyped == Inspection \in Seq(Inspected)
<1>1. /\ Each("dir", Dirs) \in Seq(Inspected) /\ Each("checkpoint", Checkpoints) \in Seq(Inspected)
      /\ Each("remnant", Checkpoints) \in Seq(Inspected) /\ Each("run", Runs) \in Seq(Inspected)
      /\ Each("recovery", Records) \in Seq(Inspected) /\ Each("temp", Temps) \in Seq(Inspected)
      /\ Each("lock", Locks) \in Seq(Inspected)
  BY DiagnosisAssumption, EachIsListed DEF Inspected, Items
<1>2. \A k \in {"checkpoints", "runs", "restores", "pointers", "index", "runs/tmp", "guard", "advice", "files"} :
        One(k) \in Inspected
  BY DEF Inspected, Items
<1>3. /\ <<One("checkpoints")>> \in Seq(Inspected) /\ <<One("runs")>> \in Seq(Inspected)
      /\ <<One("pointers"), One("restores")>> \in Seq(Inspected)
      /\ <<One("index"), One("runs/tmp")>> \in Seq(Inspected)
      /\ <<One("guard"), One("advice"), One("files")>> \in Seq(Inspected)
  BY <1>2
<1> QED
  BY <1>1, <1>3, ConcatProperties DEF Inspection

(* What doctor and the others are at while a diagnosis is under way. *)
Phases == {"checking", "waiting", "timed out", "repairing", "interrupted", "reported"}
Walks == {"checkpoints", "runs", "restores", "runs/tmp"}
DocType == [at : Nat \ {0}, phase : Phases, strict : BOOLEAN, repairs : BOOLEAN,
            listed : SUBSET Checkpoints, closed : SUBSET Walks, verified : SUBSET Blobs,
            findings : Seq(Findings), last : Nat, withdrawn : SUBSET Nat]
DiagnosisTypes == /\ store = [i \in Items |-> store[i]] /\ \A i \in Items : IsFiniteSet(store[i])
                  /\ doc.phase = "reported" \/ doc \in DocType
HeldByTheWriter == \A l \in Locks : "held" \in store[<<"lock", l>>] => <<"lock", l>> \in writer
RepairIsAlone == doc.phase = "repairing" => writer = {} /\ doc.last <= Len(doc.findings)
DiagnosisInv == DiagnosisTypes /\ HeldByTheWriter /\ RepairIsAlone

LEMMA PhasesAre ==
    /\ "checking" \in Phases /\ "waiting" \in Phases /\ "repairing" \in Phases
    /\ "interrupted" \in Phases /\ "reported" \in Phases
  BY Zenon DEF Phases

LEMMA DocOf ==
    ASSUME NEW turn \in Nat \ {0}, NEW phase \in Phases, NEW strict \in BOOLEAN, NEW repairs \in BOOLEAN,
           NEW listed \in SUBSET Checkpoints, NEW closed \in SUBSET Walks, NEW verified \in SUBSET Blobs,
           NEW findings \in Seq(Findings), NEW last \in Nat, NEW withdrawn \in SUBSET Nat
    PROVE  [at |-> turn, phase |-> phase, strict |-> strict, repairs |-> repairs, listed |-> listed,
            closed |-> closed, verified |-> verified, findings |-> findings, last |-> last,
            withdrawn |-> withdrawn] \in DocType
  BY DEF DocType

LEMMA EitherIs == ASSUME NEW S, NEW p, NEW a \in S, NEW b \in S PROVE (IF p THEN a ELSE b) \in S
  OBVIOUS

LEMMA ListIsTyped == ASSUME NEW T, NEW n \in Nat, NEW s \in [1..n -> T] PROVE s \in Seq(T)
  BY SeqDef

LEMMA LostIsTyped ==
    ASSUME NEW item \in Holders, NEW refs \in Seq(Blobs), NEW places, places \subseteq DOMAIN refs
    PROVE  LostAt(item, refs, places) \in Seq(Findings)
<1>1. IsFiniteSet(places)
  <2>1. IsFiniteSet(1..Len(refs)) /\ DOMAIN refs = 1..Len(refs)
    BY FS_Interval
  <2> QED
    BY <2>1, FS_Subset
<1>2. ASSUME NEW k \in 1..Cardinality(places)
      PROVE  Finding(Reference(item, refs[SetToSeq(places)[k]]), "error", FALSE) \in Findings
  <2>1. SetToSeq(places)[k] \in places
    BY <1>1, InOrder
  <2>2. refs[SetToSeq(places)[k]] \in Blobs
    BY <2>1
  <2>3. Reference(item, refs[SetToSeq(places)[k]]) \in Abouts
    BY <2>2 DEF Abouts
  <2> QED
    BY <2>3, FindingIsOne
<1>3. LostAt(item, refs, places) \in [1..Cardinality(places) -> Findings] /\ Cardinality(places) \in Nat
  BY <1>1, <1>2, InOrder DEF LostAt
<1> QED
  BY <1>3, ListIsTyped

(* The findings of a check: only what may be acted on is called repairable. *)
LEMMA CountedIsTyped ==
    ASSUME NEW about \in Abouts, NEW severity \in {"error", "warning"}, NEW faults, IsFiniteSet(faults)
    PROVE  [i \in 1..Cardinality(faults) |-> Finding(about, severity, FALSE)] \in Seq(Findings)
<1>1. Finding(about, severity, FALSE) \in Findings /\ Cardinality(faults) \in Nat
  BY FindingIsOne, FS_CardinalityType
<1>2. [i \in 1..Cardinality(faults) |-> Finding(about, severity, FALSE)] \in [1..Cardinality(faults) -> Findings]
  BY <1>1
<1> QED
  BY <1>1, <1>2, ListIsTyped

LEMMA CheckpointIsTyped ==
    ASSUME DiagnosisTypes, NEW c \in Checkpoints
    PROVE  checkOneCheckpoint(c) \in Seq(Findings) /\ checkHeaderless(c) \in Seq(Findings)
<1> DEFINE item == <<"checkpoint", c>>
<1>1. item \in Holders /\ item \in Remains /\ item \in Abouts
  BY DEF Holders, Remains, Abouts, Items, Item
<1>2. /\ Passed \in Seq(Findings) /\ Error(item) \in Seq(Findings)
      /\ Warning(item) \in Seq(Findings) /\ Repairable(item) \in Seq(Findings)
  BY <1>1, OneFinding
<1>3. Readable(c) \in Seq(Blobs)
  <2>1. Refs[c] \in Seq(Blobs)
    BY DiagnosisAssumption
  <2>2. SubSeq(Refs[c], 1, Len(Refs[c]) - 1) \in Seq(Blobs)
    BY <2>1, SubSeqProperties
  <2> QED
    BY <2>1, <2>2, EitherIs DEF Readable
<1>4. verify(item, Readable(c), doc.strict, doc.verified) \in Seq(Findings)
  BY <1>1, <1>3, LostIsTyped DEF verify
<1> HIDE DEF item
<1>5. (IF store[item] \cap {"torn", "bad frontier"} # {} THEN Error(item) ELSE Passed) \in Seq(Findings)
  BY <1>2, EitherIs
<1>6. (verify(item, Readable(c), doc.strict, doc.verified)
         \o (IF store[item] \cap {"torn", "bad frontier"} # {} THEN Error(item) ELSE Passed)) \in Seq(Findings)
  BY <1>4, <1>5, ConcatProperties
<1>7. checkOneCheckpoint(c) \in Seq(Findings)
  BY <1>2, <1>6, Zenon DEF checkOneCheckpoint, item
<1>8. remnantFinding(item) \in Seq(Findings)
  BY <1>2, Zenon DEF remnantFinding
<1> QED
  BY <1>2, <1>7, <1>8, EitherIs DEF checkHeaderless, item

LEMMA DrainedIsOfBlobs == ASSUME NEW u \in Records PROVE Drained(u) \in Seq(Blobs)
<1>1. Captured[u] \in Seq(Blobs)
  BY DiagnosisAssumption
<1>2. SubSeq(Captured[u], 1, Len(Captured[u]) - 1) \in Seq(Blobs)
  BY <1>1, SubSeqProperties
<1> QED
  BY <1>1, <1>2, EitherIs DEF Drained

LEMMA RestoreIsTyped ==
    ASSUME DiagnosisTypes, NEW u \in Records
    PROVE  checkRestore(u) \in Seq(Findings)
<1> DEFINE item == <<"recovery", u>>
           lost == {i \in DOMAIN Drained(u) : Broken(Drained(u)[i], FALSE)}
<1>1. item \in Holders /\ item \in Abouts
  BY DEF Holders, Abouts, Items, Item
<1>2. Passed \in Seq(Findings) /\ Error(item) \in Seq(Findings) /\ Warning(item) \in Seq(Findings)
  BY <1>1, OneFinding
<1>3. Drained(u) \in Seq(Blobs) /\ lost \subseteq DOMAIN Drained(u)
  BY DrainedIsOfBlobs
<1>4. LostAt(item, Drained(u), lost) \in Seq(Findings)
  BY <1>1, <1>3, LostIsTyped
<1> HIDE DEF item
<1>5. (IF store[item] # {} THEN Error(item) ELSE Passed) \in Seq(Findings)
  BY <1>2, EitherIs
<1>6. (LostAt(item, Drained(u), lost) \o (IF store[item] # {} THEN Error(item) ELSE Passed)) \in Seq(Findings)
  BY <1>4, <1>5, ConcatProperties
<1> QED
  BY <1>2, <1>6, Zenon DEF checkRestore, item

LEMMA ItemIsTyped ==
    ASSUME DiagnosisTypes, NEW item \in Items
    PROVE  /\ checkLayout(item) \in Seq(Findings)
           /\ item[1] = "run" => checkRun(item) \in Seq(Findings)
           /\ checkRunPointers(item) \in Seq(Findings)
           /\ item[1] = "index" => checkIndex(item) \in Seq(Findings)
           /\ item[1] = "temp" => checkTemp(item) \in Seq(Findings)
           /\ item[1] = "lock" => checkLock(item) \in Seq(Findings)
           /\ item[1] = "guard" => checkStateGitignore(item) \in Seq(Findings)
           /\ Advice(item) \in Seq(Findings)
<1>1. item \in Abouts /\ IsFiniteSet(store[item])
  BY DEF Abouts, DiagnosisTypes
<1>2. /\ Passed \in Seq(Findings) /\ Error(item) \in Seq(Findings) /\ Warning(item) \in Seq(Findings)
      /\ item \in Remains => Repairable(item) \in Seq(Findings)
  BY <1>1, OneFinding
<1>3. [i \in 1..Cardinality(store[item]) |-> Finding(item, "error", FALSE)] \in Seq(Findings)
      /\ [i \in 1..Cardinality(store[item]) |-> Finding(item, "warning", FALSE)] \in Seq(Findings)
  BY <1>1, CountedIsTyped
<1>4. item[1] \in {"index", "temp", "guard"} => item \in Remains
  BY DEF Items, Item, One, Remains
<1>5. item[1] = "lock" /\ item[2] \notin Exclusive => item \in Remains
  BY DEF Items, Item, One, Remains
<1>6. checkLayout(item) \in Seq(Findings)
  BY <1>2, EitherIs DEF checkLayout
<1>7. checkRun(item) \in Seq(Findings)
  BY <1>2, <1>3, Zenon DEF checkRun, verifyRunPayloads
<1>8. ASSUME item[1] = "index" PROVE checkIndex(item) \in Seq(Findings)
  <2>1. Finding(item, "error", TRUE) \in Findings
    BY <1>1, <1>4, <1>8, FindingIsOne
  <2>2. <<Finding(item, "error", TRUE)>> \in Seq(Findings)
    <3>1. \A f \in Findings : <<f>> \in Seq(Findings)
      OBVIOUS
    <3> QED
      BY <2>1, <3>1
  <2> QED
    BY <1>2, <2>2, Zenon DEF checkIndex
<1>9. item[1] = "temp" => checkTemp(item) \in Seq(Findings)
  BY <1>2, <1>4 DEF checkTemp
<1>10. item[1] = "lock" => checkLock(item) \in Seq(Findings)
  BY <1>2, <1>5 DEF checkLock
<1>11. item[1] = "guard" => checkStateGitignore(item) \in Seq(Findings)
  BY <1>2, <1>4 DEF checkStateGitignore
<1>12. Advice(item) \in Seq(Findings) /\ checkRunPointers(item) \in Seq(Findings)
  BY <1>3 DEF Advice, checkRunPointers
<1> QED
  BY <1>6, <1>7, <1>8, <1>9, <1>10, <1>11, <1>12

LEMMA SecretsAreTyped == secretCaptureCandidates \in Seq(Findings)
<1>1. <<"files", "captured">> \in Abouts /\ <<"files", "opaque">> \in Abouts
  BY DEF Abouts, Item
<1>2. /\ Passed \in Seq(Findings)
      /\ Warning(<<"files", "captured">>) \in Seq(Findings) /\ Warning(<<"files", "opaque">>) \in Seq(Findings)
  BY <1>1, OneFinding
<1> DEFINE Of(fault) == IF \E n \in ToSet(RootFiles) : {"secret", fault} \subseteq store[<<"file", n>>]
                        THEN Warning(<<"files", fault>>) ELSE Passed
<1>3. Of("captured") \in Seq(Findings) /\ Of("opaque") \in Seq(Findings)
  BY <1>2, EitherIs, Zenon
<1>4. secretCaptureCandidates = Of("captured") \o Of("opaque")
  BY DEF secretCaptureCandidates
<1> HIDE DEF Of
<1> QED
  BY <1>3, <1>4, ConcatProperties

LEMMA CheckIsTyped ==
    ASSUME DiagnosisTypes, NEW item \in Inspected
    PROVE  Check(item) \in Seq(Findings)
<1>1. CASE item \in Item("remnant", Checkpoints)
  <2>1. item[1] = "remnant" /\ item[2] \in Checkpoints
    BY <1>1 DEF Item
  <2> QED
    BY <2>1, CheckpointIsTyped DEF Check
<1>2. CASE item = One("files")
  <2>1. item[1] = "files"
    BY <1>2 DEF One
  <2> QED
    BY <2>1, SecretsAreTyped DEF Check
<1>3. CASE item \in Items
  <2>1. /\ item[1] # "remnant" /\ item[1] # "files"
        /\ item[1] = "checkpoint" => item[2] \in Checkpoints
        /\ item[1] = "recovery" => item[2] \in Records
    BY <1>3 DEF Items, Item, One
  <2>2. /\ item[1] = "checkpoint" => checkOneCheckpoint(item[2]) \in Seq(Findings)
        /\ item[1] = "recovery" => checkRestore(item[2]) \in Seq(Findings)
    BY <2>1, CheckpointIsTyped, RestoreIsTyped
  <2> QED
    BY <1>3, <2>1, <2>2, ItemIsTyped DEF Check
<1> QED
  BY <1>1, <1>2, <1>3 DEF Inspected

LEMMA DiagnosisBegins == DoctorInit => DiagnosisInv
<1> SUFFICES ASSUME DoctorInit PROVE DiagnosisInv
  OBVIOUS
<1>1. store = [i \in Items |-> store[i]] /\ \A i \in Items : FaultsFit(i, store[i])
  BY DiagnosisAssumption DEF DoctorInit
<1>2. doc \in DocType /\ doc.phase = "checking"
  <2>1. PICK strict \in BOOLEAN, repairs \in BOOLEAN :
          doc = [at |-> 1, phase |-> "checking", strict |-> strict, repairs |-> repairs,
                 listed |-> {}, closed |-> {}, verified |-> {}, findings |-> <<>>, last |-> 0, withdrawn |-> {}]
    BY DEF DoctorInit
  <2>2. <<>> \in Seq(Findings) /\ {} \in SUBSET Walks /\ {} \in SUBSET Checkpoints
        /\ {} \in SUBSET Blobs /\ {} \in SUBSET Nat /\ 1 \in Nat \ {0} /\ 0 \in Nat
    OBVIOUS
  <2>3. doc \in DocType
    BY <2>1, <2>2, PhasesAre, DocOf, Zenon
  <2> QED
    BY <2>1, <2>3
<1>3. ASSUME NEW l \in Locks PROVE "held" \notin store[<<"lock", l>>]
  <2>1. <<"lock", l>> \in Items
    BY DEF Items, Item
  <2>2. FaultsFit(<<"lock", l>>, store[<<"lock", l>>])
    BY <1>1, <2>1
  <2>3. <<"lock", l>>[1] = "lock"
    OBVIOUS
  <2>4. store[<<"lock", l>>] \in {{}, {"stale"}, {"unknown"}}
    BY <2>2, <2>3, Zenon DEF FaultsFit
  <2> QED
    BY <2>4
<1>4. \A i \in Items : IsFiniteSet(store[i])
  BY <1>1 DEF FaultsFit
<1> QED
  BY <1>1, <1>2, <1>3, <1>4 DEF DiagnosisInv, DiagnosisTypes, HeldByTheWriter, RepairIsAlone

(* Doctor's own bookkeeping: what a step does to doc alone. *)
LEMMA InspectIsTyped ==
    ASSUME DiagnosisInv, Inspect
    PROVE  doc' \in DocType /\ doc'.phase = "checking" /\ UNCHANGED <<store, writer>>
<1> DEFINE item == Inspection[doc.at]  kind == item[1]
<1>1. doc \in DocType /\ doc.phase = "checking" /\ UNCHANGED <<store, writer>> /\ DiagnosisTypes
  BY DEF Inspect, DiagnosisInv, DiagnosisTypes
<1>2. item \in Inspected
  BY <1>1, InspectionIsTyped DEF Inspect, DocType
<1>3. doc.findings \o Check(item) \in Seq(Findings)
  BY <1>1, <1>2, CheckIsTyped, ConcatProperties DEF DocType
<1>4. PICK closed \in SUBSET Walks, listed \in SUBSET Checkpoints, verified \in SUBSET Blobs :
        doc' \in {[doc EXCEPT !.at = @ + 1],
                  [doc EXCEPT !.at = @ + 1, !.findings = @ \o Check(item), !.closed = closed,
                              !.listed = listed, !.verified = verified]}
  <2> DEFINE closed == IF kind \in {"checkpoints", "runs", "restores", "runs/tmp"} /\ store[item] # {}
                       THEN doc.closed \cup {kind} ELSE doc.closed
             listed == IF kind = "checkpoints"
                       THEN {c \in Checkpoints : ~Headerless(c) /\ ~NotThere(<<"checkpoint", c>>)} ELSE doc.listed
             verified == IF kind = "checkpoint" /\ item[2] \in doc.listed /\ store[item] \cap Unopened = {}
                         THEN Verified(Readable(item[2]), doc.strict, doc.verified) ELSE doc.verified
  <2>1. closed \in SUBSET Walks
    <3>1. doc.closed \in SUBSET Walks
      BY <1>1 DEF DocType
    <3>2. CASE kind \in Walks /\ store[item] # {}
      <4>1. doc.closed \cup {kind} \in SUBSET Walks
        BY <3>1, <3>2
      <4>2. closed = doc.closed \cup {kind}
        BY <3>2, Zenon DEF Walks
      <4> QED
        BY <4>1, <4>2
    <3>3. CASE ~(kind \in Walks /\ store[item] # {})
      <4>1. closed = doc.closed
        BY <3>3, Zenon DEF Walks
      <4> QED
        BY <3>1, <4>1
    <3> QED
      BY <3>2, <3>3
  <2>2. listed \in SUBSET Checkpoints
    BY <1>1 DEF DocType
  <2>3. verified \in SUBSET Blobs
    <3>1. CASE kind = "checkpoint" /\ item[2] \in doc.listed
      <4>1. Refs[item[2]] \in Seq(Blobs)
        BY <1>1, <3>1, DiagnosisAssumption DEF DocType
      <4>2. SubSeq(Refs[item[2]], 1, Len(Refs[item[2]]) - 1) \in Seq(Blobs)
        BY <4>1, SubSeqProperties
      <4>3. Readable(item[2]) \in Seq(Blobs)
        BY <4>1, <4>2, EitherIs DEF Readable
      <4>4. ToSet(Readable(item[2])) \subseteq Blobs
        BY <4>3 DEF ToSet
      <4>5. doc.verified \subseteq Blobs
        BY <1>1 DEF DocType
      <4> HIDE DEF item
      <4> QED
        BY <4>4, <4>5 DEF Verified
    <3>2. CASE ~(kind = "checkpoint" /\ item[2] \in doc.listed)
      <4>1. doc.verified \in SUBSET Blobs
        BY <1>1 DEF DocType
      <4>2. verified = doc.verified
        BY <3>2
      <4> QED
        BY <4>1, <4>2
    <3> QED
      BY <3>1, <3>2
  <2>4. doc' \in {[doc EXCEPT !.at = @ + 1],
                  [doc EXCEPT !.at = @ + 1, !.findings = @ \o Check(item), !.closed = closed,
                              !.listed = listed, !.verified = verified]}
    BY DEF Inspect
  <2> QED
    BY <2>1, <2>2, <2>3, <2>4
<1> DEFINE found == doc.findings \o Check(item)
<1>5. found \in Seq(Findings)
  BY <1>3
<1>6. doc' \in {[doc EXCEPT !.at = doc.at + 1],
                [doc EXCEPT !.at = doc.at + 1, !.findings = found, !.closed = closed,
                            !.listed = listed, !.verified = verified]}
  BY <1>4
<1> HIDE DEF item, found
<1>7. CASE doc' = [doc EXCEPT !.at = doc.at + 1]
  BY <1>1, <1>7 DEF DocType
<1>8. CASE doc' = [doc EXCEPT !.at = doc.at + 1, !.findings = found, !.closed = closed,
                              !.listed = listed, !.verified = verified]
  <2>1. doc' = [at |-> doc.at + 1, phase |-> doc.phase, strict |-> doc.strict, repairs |-> doc.repairs,
                listed |-> listed, closed |-> closed, verified |-> verified, findings |-> found,
                last |-> doc.last, withdrawn |-> doc.withdrawn]
    BY <1>1, <1>8 DEF DocType
  <2>2. /\ doc.at + 1 \in Nat \ {0} /\ doc.phase \in Phases /\ doc.strict \in BOOLEAN
        /\ doc.repairs \in BOOLEAN /\ doc.last \in Nat /\ doc.withdrawn \in SUBSET Nat
    BY <1>1 DEF DocType
  <2>3. doc' \in DocType
    BY <1>5, <2>1, <2>2, DocOf, Zenon
  <2> QED
    BY <1>1, <2>1, <2>3
<1> QED
  BY <1>1, <1>6, <1>7, <1>8

LEMMA RemnantIsAFinding ==
    ASSUME NEW item, item \in Remains, item \in Abouts
    PROVE  remnantFinding(item)[1] \in Findings
<1>1. Finding(item, "warning", TRUE) \in Findings /\ Finding(item, "warning", FALSE) \in Findings
  BY FindingIsOne
<1>2. remnantFinding(item) = Warning(item) \/ remnantFinding(item) = Repairable(item)
  BY Zenon DEF remnantFinding
<1>3. Warning(item)[1] = Finding(item, "warning", FALSE) /\ Repairable(item)[1] = Finding(item, "warning", TRUE)
  BY DEF Warning, Repairable
<1> QED
  BY <1>1, <1>2, <1>3

(* What a repair writes down: the list of findings never gets shorter. *)
Noted == doc' \in DocType /\ doc'.phase \in {"repairing", "interrupted"}
         /\ doc'.last = doc.last /\ Len(doc.findings) <= Len(doc'.findings)

Note(findings, withdrawn) ==
    [at |-> doc.at + 1, phase |-> doc.phase, strict |-> doc.strict, repairs |-> doc.repairs,
     listed |-> doc.listed, closed |-> doc.closed, verified |-> doc.verified,
     findings |-> findings, last |-> doc.last, withdrawn |-> withdrawn]

LEMMA NoteIsTyped ==
    ASSUME doc \in DocType, doc.phase = "repairing", NEW findings \in Seq(Findings),
           Len(doc.findings) <= Len(findings), NEW withdrawn \in SUBSET Nat, doc' = Note(findings, withdrawn)
    PROVE  Noted
<1>1. /\ doc.at + 1 \in Nat \ {0} /\ doc.phase \in Phases /\ doc.strict \in BOOLEAN
      /\ doc.repairs \in BOOLEAN /\ doc.last \in Nat /\ doc.listed \in SUBSET Checkpoints
      /\ doc.closed \in SUBSET Walks /\ doc.verified \in SUBSET Blobs
  BY DEF DocType
<1>2. doc' \in DocType
  BY <1>1, DocOf, Zenon DEF Note
<1>3. doc'.phase = doc.phase /\ doc'.last = doc.last /\ doc'.findings = findings
  BY DEF Note
<1> QED
  BY <1>2, <1>3 DEF Noted

LEMMA RepairIsNoted ==
    ASSUME DiagnosisInv, Repair
    PROVE  Noted
<1> DEFINE i == doc.at  f == doc.findings[i]  item == f.about
<1>1. doc \in DocType /\ doc.phase = "repairing" /\ i \in 1..Len(doc.findings)
  BY DEF Repair, DiagnosisInv, DiagnosisTypes, RepairIsAlone, DocType
<1>2. doc.findings \in Seq(Findings) /\ doc.withdrawn \in SUBSET Nat /\ i \in Nat
  BY <1>1 DEF DocType
<1>3. f \in Findings /\ item \in Abouts /\ (f.repairable => item \in Remains)
  BY <1>1, <1>2 DEF Findings
<1>4. ASSUME doc' = [doc EXCEPT !.at = @ + 1] PROVE Noted
  <2>1. doc' = Note(doc.findings, doc.withdrawn)
    BY <1>1, <1>4 DEF DocType, Note
  <2> QED
    BY <1>1, <1>2, <2>1, NoteIsTyped
<1>5. ASSUME doc' = Repaired(i) PROVE Noted
  <2> DEFINE cured == [f EXCEPT !.repaired = TRUE]  findings == [doc.findings EXCEPT ![i] = cured]
  <2>1. cured \in Findings
    BY <1>3 DEF Findings
  <2>2. findings \in Seq(Findings) /\ Len(findings) = Len(doc.findings)
    <3> HIDE DEF cured
    <3> QED
      BY <1>1, <1>2, <2>1, ExceptSeq
  <2>3. doc' = [doc EXCEPT !.at = doc.at + 1, !.findings = findings]
    BY <1>1, <1>5 DEF Repaired
  <2> HIDE DEF findings
  <2>4. doc' = Note(findings, doc.withdrawn)
    BY <1>1, <2>3 DEF DocType, Note
  <2> QED
    BY <1>1, <1>2, <2>2, <2>4, NoteIsTyped
<1>6. ASSUME doc' = RepairFailed(i) PROVE Noted
  <2> DEFINE failed == Finding(item, "error", FALSE)  findings == Append(doc.findings, failed)
  <2>1. failed \in Findings
    BY <1>3, FindingIsOne
  <2>2. findings \in Seq(Findings) /\ Len(findings) = Len(doc.findings) + 1
    <3> HIDE DEF failed
    <3> QED
      BY <1>2, <2>1
  <2>3. doc' = [doc EXCEPT !.at = doc.at + 1, !.findings = findings]
    BY <1>6 DEF RepairFailed
  <2>4. Len(doc.findings) <= Len(findings)
    BY <1>2, <2>2
  <2> HIDE DEF findings
  <2>5. doc' = Note(findings, doc.withdrawn)
    BY <1>1, <2>3 DEF DocType, Note
  <2> QED
    BY <1>1, <1>2, <2>2, <2>4, <2>5, NoteIsTyped
<1>7. ASSUME doc' = [doc EXCEPT !.at = @ + 1, !.withdrawn = @ \cup {i}] PROVE Noted
  <2>1. doc.withdrawn \cup {i} \in SUBSET Nat
    BY <1>2
  <2>2. doc' = Note(doc.findings, doc.withdrawn \cup {i})
    BY <1>1, <1>7 DEF DocType, Note
  <2> QED
    BY <1>1, <1>2, <2>1, <2>2, NoteIsTyped
<1>8. ASSUME item \in Remains, doc' = [doc EXCEPT !.at = @ + 1, !.findings[i] = remnantFinding(item)[1]] PROVE Noted
  <2> DEFINE again == remnantFinding(item)[1]  findings == [doc.findings EXCEPT ![i] = again]
  <2>1. again \in Findings
    BY <1>3, <1>8, RemnantIsAFinding
  <2>2. findings \in Seq(Findings) /\ Len(findings) = Len(doc.findings)
    <3> HIDE DEF again
    <3> QED
      BY <1>1, <1>2, <2>1, ExceptSeq
  <2>3. doc' = [doc EXCEPT !.at = doc.at + 1, !.findings = findings]
    BY <1>8
  <2> HIDE DEF findings
  <2>4. doc' = Note(findings, doc.withdrawn)
    BY <1>1, <2>3 DEF DocType, Note
  <2> QED
    BY <1>1, <1>2, <2>2, <2>4, NoteIsTyped
<1>9. ASSUME doc' = [doc EXCEPT !.phase = "interrupted"] PROVE Noted
  <2>1. doc' \in DocType
    BY <1>1, <1>9, PhasesAre DEF DocType
  <2>2. doc'.phase = "interrupted" /\ doc'.last = doc.last /\ doc'.findings = doc.findings
    BY <1>1, <1>9 DEF DocType
  <2>3. Len(doc.findings) <= Len(doc.findings)
    BY <1>2
  <2> QED
    BY <2>1, <2>2, <2>3 DEF Noted
<1>10. \/ doc' = [doc EXCEPT !.at = @ + 1]
       \/ doc' = Repaired(i)
       \/ doc' = RepairFailed(i)
       \/ doc' = [doc EXCEPT !.at = @ + 1, !.withdrawn = @ \cup {i}]
       \/ item \in Remains /\ doc' = [doc EXCEPT !.at = @ + 1, !.findings[i] = remnantFinding(item)[1]]
       \/ doc' = [doc EXCEPT !.phase = "interrupted"]
  <2>1. CASE ~f.repairable
    BY <2>1 DEF Repair
  <2>2. CASE f.repairable /\ item[1] = "checkpoint"
    <3>1. removeRemnant(i, item)
      BY <2>2 DEF Repair
    <3>2. item \in Remains
      BY <1>3, <2>2
    <3> HIDE DEF i, f, item
    <3> QED
      BY <3>1, <3>2 DEF removeRemnant
  <2>3. CASE f.repairable /\ item[1] # "checkpoint"
    <3>1. execute(i, item)
      BY <2>3 DEF Repair
    <3> HIDE DEF i, f, item
    <3> QED
      BY <3>1 DEF execute
  <2> QED
    BY <2>1, <2>2, <2>3
<1> QED
  BY <1>4, <1>5, <1>6, <1>7, <1>8, <1>9, <1>10

(* What a repair does to the store: nothing, or one remnant it may act on. *)
LEMMA RepairTouches ==
    ASSUME DiagnosisInv, Repair
    PROVE  \/ store' = store
           \/ \E item \in Remains :
                /\ item[1] = "checkpoint" => Headerless(item[2])
                /\ store' = [store EXCEPT ![item] = Gone] \/ store' = [store EXCEPT ![item] = {}]
<1> DEFINE f == doc.findings[doc.at]  item == f.about
<1>1. f \in Findings
  BY DEF Repair, DiagnosisInv, DiagnosisTypes, RepairIsAlone, DocType
<1>2. CASE ~f.repairable
  BY <1>2 DEF Repair
<1>3. CASE f.repairable /\ item[1] = "checkpoint"
  <2>1. item \in Remains /\ removeRemnant(doc.at, item)
    BY <1>1, <1>3 DEF Repair, Findings
  <2> HIDE DEF f, item
  <2>2. store' = store \/ (Headerless(item[2]) /\ store' = [store EXCEPT ![item] = Gone])
    BY <2>1 DEF removeRemnant
  <2> QED
    BY <2>1, <2>2
<1>4. CASE f.repairable /\ item[1] # "checkpoint"
  <2>1. item \in Remains /\ execute(doc.at, item)
    BY <1>1, <1>4 DEF Repair, Findings
  <2>2. item[1] # "checkpoint"
    BY <1>4
  <2> HIDE DEF f, item
  <2>3. store' = store \/ store' = [store EXCEPT ![item] = Cured(item)]
    BY <2>1 DEF execute
  <2> QED
    BY <2>1, <2>2, <2>3 DEF Cured
<1> QED
  BY <1>2, <1>3, <1>4

LEMMA RemainsAreItems == Remains \subseteq Items
  BY DEF Remains, Items, Item

(* A repair acts alone, and on nothing but remains. *)
LEMMA RepairTakesRemains ==
    ASSUME DiagnosisInv, Repair, NEW i \in Items, store'[i] # store[i]
    PROVE  /\ i \notin writer
           /\ i[1] = "checkpoint" => Headerless(i[2])
           /\ i[1] = "lock" => i[2] \notin Exclusive /\ "held" \notin store[i]
           /\ i[1] \in {"checkpoint", "temp", "lock", "index", "guard"}
<1>1. PICK item \in Remains :
        /\ item[1] = "checkpoint" => Headerless(item[2])
        /\ store' = [store EXCEPT ![item] = Gone] \/ store' = [store EXCEPT ![item] = {}]
  BY RepairTouches
<1>2. i = item
  BY <1>1 DEF DiagnosisInv, DiagnosisTypes
<1>3. writer = {}
  BY DEF Repair, DiagnosisInv, RepairIsAlone
<1>4. i \in Remains
  BY <1>2
<1>5. i[1] \in {"checkpoint", "temp", "lock", "index", "guard"}
  BY <1>4 DEF Remains, Item, One
<1>6. i[1] = "lock" => i \in Item("lock", Locks \ Exclusive)
  BY <1>4 DEF Remains, Item, One
<1>7. i[1] = "lock" => i[2] \notin Exclusive /\ "held" \notin store[i]
  BY <1>3, <1>6 DEF Item, DiagnosisInv, HeldByTheWriter
<1> QED
  BY <1>1, <1>2, <1>3, <1>5, <1>7

LEMMA DoctorKeeps ==
    ASSUME DiagnosisInv, DoctorNext
    PROVE  DiagnosisInv'
<1>1. CASE Inspect
  BY <1>1, InspectIsTyped DEF DiagnosisInv, DiagnosisTypes, HeldByTheWriter, RepairIsAlone
<1>2. CASE Diagnosed
  <2>1. doc \in DocType
    BY <1>2 DEF Diagnosed, DiagnosisInv, DiagnosisTypes
  <2>2. PICK phase \in {"interrupted", "waiting", "reported"} : doc' = [doc EXCEPT !.phase = phase]
    BY <1>2 DEF Diagnosed
  <2>3. doc' \in DocType /\ doc'.phase # "repairing"
    BY <2>1, <2>2, PhasesAre DEF DocType
  <2> QED
    BY <1>2, <2>3 DEF Diagnosed, DiagnosisInv, DiagnosisTypes, HeldByTheWriter, RepairIsAlone
<1>3. CASE AcquireExclusive
  <2>1. doc \in DocType
    BY <1>3 DEF AcquireExclusive, DiagnosisInv, DiagnosisTypes
  <2>2. PICK phase \in Phases : \/ phase # "repairing" /\ doc' = [doc EXCEPT !.phase = phase]
                                \/ /\ writer = {}
                                   /\ doc' = [doc EXCEPT !.phase = "repairing", !.at = 1, !.last = Len(doc.findings)]
    <3>1. "timed out" \in Phases /\ "timed out" # "repairing"
      BY Zenon DEF Phases
    <3> QED
      BY <1>3, <3>1, Zenon DEF AcquireExclusive
  <2>3. /\ doc' \in DocType
        /\ doc'.phase = "repairing" => writer = {} /\ doc'.last <= Len(doc'.findings)
    <3>1. CASE phase # "repairing" /\ doc' = [doc EXCEPT !.phase = phase]
      BY <2>1, <3>1 DEF DocType
    <3>2. CASE writer = {} /\ doc' = [doc EXCEPT !.phase = "repairing", !.at = 1, !.last = Len(doc.findings)]
      <4>1. Len(doc.findings) \in Nat /\ doc.findings \in Seq(Findings)
        BY <2>1 DEF DocType
      <4>2. doc' = [at |-> 1, phase |-> "repairing", strict |-> doc.strict, repairs |-> doc.repairs,
                    listed |-> doc.listed, closed |-> doc.closed, verified |-> doc.verified,
                    findings |-> doc.findings, last |-> Len(doc.findings), withdrawn |-> doc.withdrawn]
        BY <2>1, <3>2 DEF DocType
      <4>3. /\ 1 \in Nat \ {0} /\ doc.strict \in BOOLEAN /\ doc.repairs \in BOOLEAN
            /\ doc.listed \in SUBSET Checkpoints /\ doc.closed \in SUBSET Walks
            /\ doc.verified \in SUBSET Blobs /\ doc.withdrawn \in SUBSET Nat
        BY <2>1 DEF DocType
      <4>4. doc' \in DocType
        BY <4>1, <4>2, <4>3, PhasesAre, DocOf, Zenon
      <4> QED
        BY <3>2, <4>1, <4>2, <4>4
    <3> QED
      BY <2>2, <3>1, <3>2
  <2> QED
    BY <1>3, <2>3 DEF AcquireExclusive, DiagnosisInv, DiagnosisTypes, HeldByTheWriter, RepairIsAlone
<1>4. CASE Repair
  <2>1. Noted /\ writer' = writer /\ writer = {} /\ doc.last <= Len(doc.findings) /\ doc \in DocType
    BY <1>4, RepairIsNoted DEF Repair, DiagnosisInv, DiagnosisTypes, RepairIsAlone
  <2>2. doc' \in DocType /\ (doc'.phase = "repairing" => doc'.last <= Len(doc'.findings))
    BY <2>1 DEF Noted, DocType
  <2>3. /\ store' = [i \in Items |-> store'[i]]
        /\ \A i \in Items : store'[i] = store[i] \/ store'[i] = Gone \/ store'[i] = {}
    <3>1. store = [i \in Items |-> store[i]]
      BY DEF DiagnosisInv, DiagnosisTypes
    <3>2. CASE store' = store
      BY <3>1, <3>2
    <3>3. ASSUME NEW item \in Remains,
                 store' = [store EXCEPT ![item] = Gone] \/ store' = [store EXCEPT ![item] = {}]
          PROVE  <2>3
      BY <3>1, <3>3
    <3> QED
      BY <1>4, <3>2, <3>3, RepairTouches
  <2>4. \A i \in Items : IsFiniteSet(store'[i])
    <3>1. IsFiniteSet({}) /\ IsFiniteSet(Gone)
      BY FS_EmptySet, FS_Singleton DEF Gone
    <3> QED
      BY <2>3, <3>1 DEF DiagnosisInv, DiagnosisTypes
  <2>5. HeldByTheWriter'
    <3> SUFFICES ASSUME NEW l \in Locks PROVE "held" \in store'[<<"lock", l>>] => <<"lock", l>> \in writer'
      BY DEF HeldByTheWriter
    <3>1. <<"lock", l>> \in Items
      BY DEF Items, Item
    <3> QED
      BY <2>1, <2>3, <3>1 DEF DiagnosisInv, HeldByTheWriter, Gone
  <2> QED
    BY <2>1, <2>2, <2>3, <2>4, <2>5 DEF DiagnosisInv, DiagnosisTypes, RepairIsAlone
<1>5. CASE Report
  <2>1. doc \in DocType
    BY <1>5 DEF Report, DiagnosisInv, DiagnosisTypes
  <2>2. PICK findings : doc' = [doc EXCEPT !.phase = "reported", !.findings = findings]
    BY <1>5 DEF Report
  <2>3. doc'.phase = "reported"
    BY <2>1, <2>2 DEF DocType
  <2> QED
    BY <1>5, <2>3 DEF Report, DiagnosisInv, DiagnosisTypes, HeldByTheWriter, RepairIsAlone
<1> QED
  BY <1>1, <1>2, <1>3, <1>4, <1>5 DEF DoctorNext


LEMMA SmallSets == \A x : IsFiniteSet({}) /\ IsFiniteSet({x})
  BY FS_EmptySet, FS_Singleton

LEMMA OthersKeep ==
    ASSUME DiagnosisInv, OthersNext
    PROVE  DiagnosisInv'
<1>1. UNCHANGED doc
  BY DEF OthersNext, WriterBegins, WriterCommits, WriterDies, Age, Forget, Rescan, InitAgain, Change
<1>2. \A i \in Items : IsFiniteSet(store[i])
  BY DEF DiagnosisInv, DiagnosisTypes
<1>3. \A l \in Locks : <<"lock", l>> \in Items
  BY DEF Items, Item
<1>4. \A kind, n : <<kind, n>>[1] = kind /\ <<kind, n>>[2] = n
  OBVIOUS
<1> DEFINE Kept == /\ store' = [i \in Items |-> store'[i]] /\ \A i \in Items : IsFiniteSet(store'[i])
                   /\ HeldByTheWriter'
                   /\ doc.phase = "repairing" => writer' = {}
<1>5. CASE WriterBegins
  <2>1. PICK c \in Checkpoints, t \in Temps, l \in Locks \ Exclusive :
          /\ writer' = {<<"checkpoint", c>>, <<"temp", t>>, <<"lock", l>>}
          /\ store' = [i \in Items |-> IF i \in writer' THEN Begun(i) ELSE store[i]]
    BY <1>5 DEF WriterBegins, Change
  <2>2. \A i : IsFiniteSet(Begun(i))
    <3> SUFFICES ASSUME NEW i PROVE IsFiniteSet(Begun(i))
      OBVIOUS
    <3>1. Begun(i) = {"no header"} \/ Begun(i) = {"fresh"} \/ Begun(i) = {"held"}
      BY Zenon DEF Begun
    <3> QED
      BY <3>1, SmallSets, Zenon
  <2>3. HeldByTheWriter'
    <3> SUFFICES ASSUME NEW k \in Locks, <<"lock", k>> \notin writer' PROVE "held" \notin store'[<<"lock", k>>]
      BY DEF HeldByTheWriter
    <3>1. store'[<<"lock", k>>] = store[<<"lock", k>>]
      BY <1>3, <2>1
    <3> QED
      BY <1>5, <3>1 DEF WriterBegins, DiagnosisInv, HeldByTheWriter
  <2>4. Kept
    BY <1>2, <1>5, <2>1, <2>2, <2>3 DEF WriterBegins, Excluded
  <2> QED
    BY <1>1, <2>4 DEF DiagnosisInv, DiagnosisTypes, RepairIsAlone
<1>6. CASE WriterCommits
  <2>1. writer' = {} /\ store' = [i \in Items |-> IF i \in writer THEN {} ELSE store[i]]
    BY <1>6 DEF WriterCommits, Change
  <2>2. Kept
    BY <1>2, <1>3, <2>1, SmallSets DEF DiagnosisInv, HeldByTheWriter
  <2> QED
    BY <1>1, <2>2 DEF DiagnosisInv, DiagnosisTypes, RepairIsAlone
<1>7. CASE WriterDies
  <2>1. /\ writer' = {}
        /\ store' = [i \in Items |-> IF i \in writer THEN (IF i[1] = "lock" THEN {"stale"} ELSE store[i])
                                     ELSE store[i]]
    BY <1>7 DEF WriterDies, Change
  <2>2. Kept
    BY <1>2, <1>3, <1>4, <2>1, SmallSets DEF DiagnosisInv, HeldByTheWriter
  <2> QED
    BY <1>1, <2>2 DEF DiagnosisInv, DiagnosisTypes, RepairIsAlone
<1>8. ASSUME NEW item, item[1] # "lock", NEW what, IsFiniteSet(what), writer' = writer,
             store' = [i \in Items |-> IF i \in {item} THEN what ELSE store[i]]
      PROVE  DiagnosisInv'
  <2>1. Kept
    BY <1>2, <1>3, <1>4, <1>8 DEF DiagnosisInv, HeldByTheWriter, RepairIsAlone
  <2> QED
    BY <1>1, <2>1 DEF DiagnosisInv, DiagnosisTypes, RepairIsAlone
<1>9. CASE \E t \in Temps : Age(t)
  <2>1. PICK t \in Temps : /\ writer' = writer
                           /\ store' = [i \in Items |-> IF i \in {<<"temp", t>>} THEN {"old"} ELSE store[i]]
    BY <1>9 DEF Age, Change
  <2> QED
    BY <1>4, <1>8, <2>1, SmallSets
<1>10. CASE \E c \in Checkpoints : Forget(c)
  <2>1. PICK c \in Checkpoints : /\ writer' = writer
                                 /\ store' = [i \in Items |-> IF i \in {<<"checkpoint", c>>} THEN Gone ELSE store[i]]
    BY <1>10 DEF Forget, Change
  <2> QED
    BY <1>4, <1>8, <2>1, SmallSets DEF Gone
<1>11. CASE Rescan
  <2>1. writer' = writer /\ store' = [i \in Items |-> IF i \in {<<"index", "one">>} THEN {} ELSE store[i]]
    BY <1>11 DEF Rescan, Change, One
  <2> QED
    BY <1>4, <1>8, <2>1, SmallSets
<1>12. CASE InitAgain
  <2>1. writer' = writer /\ store' = [i \in Items |-> IF i \in {<<"guard", "one">>} THEN {} ELSE store[i]]
    BY <1>12 DEF InitAgain, Change, One
  <2> QED
    BY <1>4, <1>8, <2>1, SmallSets
<1> QED
  BY <1>5, <1>6, <1>7, <1>9, <1>10, <1>11, <1>12 DEF OthersNext

(* A repair takes no committed checkpoint, nothing of a writer still at     *)
(* work and no lock of gc or restore (repair, removeRemnant).               *)
THEOREM RepairsTakeRemains == DiagnosisSpec => RepairTakesOnlyRemains
<1>1. DoctorInit => DiagnosisInv
  BY DiagnosisBegins
<1>2. DiagnosisInv /\ [DoctorNext \/ OthersNext]_doctorVars => DiagnosisInv'
  <2> SUFFICES ASSUME DiagnosisInv, [DoctorNext \/ OthersNext]_doctorVars PROVE DiagnosisInv'
    OBVIOUS
  <2>1. CASE DoctorNext
    BY <2>1, DoctorKeeps
  <2>2. CASE OthersNext
    BY <2>2, OthersKeep
  <2>3. CASE UNCHANGED doctorVars
    BY <2>3 DEF doctorVars, DiagnosisInv, DiagnosisTypes, HeldByTheWriter, RepairIsAlone
  <2> QED
    BY <2>1, <2>2, <2>3
<1>3. DiagnosisInv => [\A i \in Items :
         Repair /\ store'[i] # store[i] =>
            /\ i \notin writer
            /\ i[1] = "checkpoint" => Headerless(i[2])
            /\ i[1] = "lock" => i[2] \notin Exclusive /\ "held" \notin store[i]
            /\ i[1] \in {"checkpoint", "temp", "lock", "index", "guard"}]_doctorVars
  BY RepairTakesRemains
<1> QED
  BY <1>1, <1>2, <1>3, PTL DEF DiagnosisSpec, RepairTakesOnlyRemains

(* The report, for any store, any faults and any others beside doctor.      *)
(* Of anything a finding may be about: is it wrong now, where does doctor   *)
(* meet it, has doctor been there.                                          *)
Amiss(d) ==
    CASE d[1] = "reference" /\ d[2][1] = "checkpoint" ->
           Reachable(d[2][2]) /\ d[3] \in ToSet(Readable(d[2][2])) /\ Broken(d[3], doc.strict)
      [] d[1] = "reference" /\ d[2][1] # "checkpoint" ->
           store[d[2]] \subseteq {"torn", "bad scope"} /\ d[3] \in ToSet(Drained(d[2][2])) /\ Broken(d[3], FALSE)
      [] d[1] = "files" -> \E n \in ToSet(RootFiles) : {"secret", d[2]} \subseteq store[<<"file", n>>]
      [] OTHER -> ~Harmless(d)
PlaceOf(d) ==
    IF d[1] = "files" THEN One("files")
    ELSE IF d[1] = "checkpoint" /\ Headerless(d[2]) THEN <<"remnant", d[2]>>
    ELSE Holder(d)
Looked(x) == doc.phase = "checking" => \E k \in 1..Len(Inspection) : k < doc.at /\ Inspection[k] = x

Standing == DOMAIN doc.findings \ doc.withdrawn
About(i) == doc.findings[i].about
Due(i) == /\ i \in DOMAIN doc.findings /\ doc.findings[i].repairable
          /\ doc.phase = "repairing" => doc.at <= i

(* What others touch is theirs to touch, and the rest is as doctor found it. *)
Changeable == Item("checkpoint", Checkpoints) \cup Item("temp", Temps) \cup Item("lock", Locks)
              \cup {One("index"), One("guard")}
OthersFit == /\ writer \subseteq changed /\ changed \subseteq Changeable
             /\ \A i \in Items \ changed : FaultsFit(i, store[i])
(* Nothing settled is left out, nothing made up. *)
Complete == \A d \in Abouts : Amiss(d) /\ Settled(d) /\ ~Hidden(d) /\ Looked(PlaceOf(d)) =>
                \E i \in Standing : About(i) = d
Right == \A i \in Standing : Settled(About(i)) => (Amiss(About(i)) <=> ~doc.findings[i].repaired)
ClosedIsTold == \A k \in doc.closed : \E i \in Standing : ~doc.findings[i].repairable /\ ~doc.findings[i].repaired
VerifiedIsWhole == \A b \in doc.verified : ~Broken(b, doc.strict)
ListedIsThere ==
    doc.phase = "checking" /\ Looked(One("checkpoints")) =>
        \A c \in Checkpoints : <<"checkpoint", c>> \notin changed =>
            (c \in doc.listed <=> ~Headerless(c) /\ ~NotThere(<<"checkpoint", c>>))
(* One finding at most is about what a repair may act on, and while it is   *)
(* due it holds.                                                            *)
FoundByLooking ==
    doc.phase = "checking" => \A i \in DOMAIN doc.findings :
        Settled(About(i)) /\ About(i) \in Remains => Looked(PlaceOf(About(i)))
DueAlone ==
    \A i, j \in DOMAIN doc.findings : Due(i) /\ i # j /\ Settled(About(i)) => About(i) # About(j)
DueStands ==
    \A i \in DOMAIN doc.findings : Due(i) =>
        /\ ~doc.findings[i].repaired /\ i \notin doc.withdrawn
        /\ About(i)[1] = "checkpoint" /\ Settled(About(i)) => Headerless(About(i)[2])
WithdrawnIsChanged == doc.withdrawn \subseteq {i \in DOMAIN doc.findings : ~Settled(About(i))}
Faithful == Complete /\ Right /\ ClosedIsTold
Unrepaired == VerifiedIsWhole /\ ListedIsThere /\ FoundByLooking /\ DueAlone /\ DueStands /\ WithdrawnIsChanged
ReportInv ==
    /\ OthersFit
    /\ doc.phase \in {"checking", "waiting", "repairing", "reported"} => Faithful
    /\ doc.phase \in {"checking", "waiting", "repairing"} => Unrepaired

(* An order of inspection: everything once, a store's listing before the    *)
(* checkpoints it lists.                                                    *)
Listing(s, S) ==
    /\ s \in Seq(S)
    /\ \A x \in S : \E k \in 1..Len(s) : s[k] = x
    /\ \A j, k \in 1..Len(s) : s[j] = s[k] => j = k
    /\ \A j, k \in 1..Len(s) : s[j] = One("checkpoints") /\ s[k][1] = "checkpoint" => j < k

LEMMA ListIsLong == ASSUME NEW T, NEW n \in Nat, NEW s \in [1..n -> T] PROVE Len(s) = n
<1>1. s \in Seq(T)
  BY ListIsTyped
<1>2. DOMAIN s = 1..n /\ DOMAIN s = 1..Len(s) /\ Len(s) \in Nat
  BY <1>1, LenProperties
<1>3. ASSUME NEW m \in Nat, 1..m = 1..n PROVE m = n
  <2>1. \A k \in Nat \ {0} : k \in 1..k /\ (k \in 1..m <=> k \in 1..n)
    BY <1>3
  <2> QED
    BY <2>1
<1> QED
  BY <1>2, <1>3

LEMMA ListingTwo ==
    ASSUME NEW S, NEW T, NEW s, NEW t, Listing(s, S), Listing(t, T), S \cap T = {},
           One("checkpoints") \notin T \/ \A x \in S : x[1] # "checkpoint"
    PROVE  Listing(s \o t, S \cup T)
<1> DEFINE U == S \cup T  u == s \o t  m == Len(s)  n == Len(t)
<1>1. s \in Seq(U) /\ t \in Seq(U) /\ m \in Nat /\ n \in Nat /\ s \in Seq(S) /\ t \in Seq(T)
  BY DEF Listing
<1>2. /\ u \in Seq(U) /\ Len(u) = m + n
      /\ \A i \in 1..(m + n) : u[i] = IF i <= m THEN s[i] ELSE t[i - m]
  BY <1>1, ConcatProperties
<1> HIDE DEF u
<1>3. \A i \in 1..m : u[i] = s[i] /\ s[i] \in S
  BY <1>1, <1>2
<1>4. \A i \in (m + 1)..(m + n) : u[i] = t[i - m] /\ i - m \in 1..n /\ t[i - m] \in T
  BY <1>1, <1>2
<1>5. ASSUME NEW x \in U PROVE \E k \in 1..Len(u) : u[k] = x
  <2>1. CASE x \in S
    <3>1. PICK k \in 1..m : s[k] = x
      BY <2>1 DEF Listing
    <3>2. k \in 1..Len(u) /\ u[k] = x
      BY <1>1, <1>2, <1>3, <3>1
    <3> QED
      BY <3>2
  <2>2. CASE x \in T
    <3>1. PICK k \in 1..n : t[k] = x
      BY <2>2 DEF Listing
    <3>2. k + m \in (m + 1)..(m + n) /\ k + m \in 1..Len(u) /\ (k + m) - m = k
      BY <1>1, <1>2, <3>1
    <3>3. u[k + m] = x
      BY <1>4, <3>1, <3>2
    <3> QED
      BY <3>2, <3>3
  <2> QED
    BY <2>1, <2>2
<1>6. ASSUME NEW j \in 1..Len(u), NEW k \in 1..Len(u), u[j] = u[k] PROVE j = k
  <2>1. (j \in 1..m \/ j \in (m + 1)..(m + n)) /\ (k \in 1..m \/ k \in (m + 1)..(m + n))
    BY <1>1, <1>2
  <2>2. CASE j \in 1..m /\ k \in 1..m
    BY <1>3, <1>6, <2>2 DEF Listing
  <2>3. CASE j \in (m + 1)..(m + n) /\ k \in (m + 1)..(m + n)
    <3>1. t[j - m] = t[k - m] /\ j - m \in 1..n /\ k - m \in 1..n
      BY <1>4, <1>6, <2>3
    <3>2. j - m = k - m
      BY <3>1 DEF Listing
    <3> QED
      BY <1>1, <2>3, <3>2
  <2>4. CASE j \in 1..m /\ k \in (m + 1)..(m + n)
    BY <1>3, <1>4, <1>6, <2>4
  <2>5. CASE k \in 1..m /\ j \in (m + 1)..(m + n)
    BY <1>3, <1>4, <1>6, <2>5
  <2> QED
    BY <2>1, <2>2, <2>3, <2>4, <2>5
<1>7. ASSUME NEW j \in 1..Len(u), NEW k \in 1..Len(u), u[j] = One("checkpoints"), u[k][1] = "checkpoint" PROVE j < k
  <2>1. (j \in 1..m \/ j \in (m + 1)..(m + n)) /\ (k \in 1..m \/ k \in (m + 1)..(m + n))
    BY <1>1, <1>2
  <2>2. CASE j \in 1..m /\ k \in 1..m
    BY <1>3, <1>7, <2>2 DEF Listing
  <2>3. CASE j \in (m + 1)..(m + n) /\ k \in (m + 1)..(m + n)
    <3>1. t[j - m] = One("checkpoints") /\ t[k - m][1] = "checkpoint" /\ j - m \in 1..n /\ k - m \in 1..n
      BY <1>4, <1>7, <2>3
    <3>2. j - m < k - m
      BY <3>1 DEF Listing
    <3> QED
      BY <1>1, <2>3, <3>2
  <2>4. CASE j \in 1..m /\ k \in (m + 1)..(m + n)
    BY <1>1, <2>4
  <2>5. CASE k \in 1..m /\ j \in (m + 1)..(m + n)
    <3>1. One("checkpoints") \in T /\ u[k] \in S
      BY <1>3, <1>4, <1>7, <2>5
    <3> QED
      BY <1>7, <3>1
  <2> QED
    BY <2>1, <2>2, <2>3, <2>4, <2>5
<1> QED
  BY <1>2, <1>5, <1>6, <1>7 DEF Listing, u

OfKinds(s, S, P) == Listing(s, S) /\ \A x \in S : x[1] \in P

LEMMA ListingNext ==
    ASSUME NEW S, NEW T, NEW P, NEW Q, NEW s, NEW t, OfKinds(s, S, P), OfKinds(t, T, Q),
           P \cap Q = {}, "checkpoints" \notin Q \/ "checkpoint" \notin P
    PROVE  OfKinds(s \o t, S \cup T, P \cup Q)
<1>1. S \cap T = {}
  BY DEF OfKinds
<1>2. One("checkpoints")[1] = "checkpoints"
  BY DEF One
<1>3. One("checkpoints") \notin T \/ \A x \in S : x[1] # "checkpoint"
  BY <1>2 DEF OfKinds
<1>4. Listing(s \o t, S \cup T)
  BY <1>1, <1>3, ListingTwo DEF OfKinds
<1> QED
  BY <1>4 DEF OfKinds

LEMMA ListingOne == ASSUME NEW x, x[1] # "checkpoint" PROVE Listing(<<x>>, {x})
  BY DEF Listing

LEMMA OrderIsWhole ==
    ASSUME NEW S, IsFiniteSet(S)
    PROVE  /\ Cardinality(S) \in Nat /\ SetToSeq(S) \in [1..Cardinality(S) -> S] /\ IsInjective(SetToSeq(S))
           /\ \A y \in S : \E k \in 1..Cardinality(S) : SetToSeq(S)[k] = y
<1> DEFINE n == Cardinality(S)  f == SetToSeq(S)
<1>1. n \in Nat /\ ExistsBijection(1..n, S)
  BY FS_CardinalityType
<1>2. PICK g \in [1..n -> S] : IsInjective(g)
  BY <1>1 DEF ExistsBijection, Bijection, Injection, IsInjective
<1>3. f \in [1..n -> S] /\ IsInjective(f)
  BY <1>2 DEF SetToSeq
<1>4. f \in Injection(1..n, S)
  BY <1>3 DEF Injection, IsInjective
<1>5. IsFiniteSet(1..n) /\ Cardinality(1..n) = n
  BY <1>1, FS_Interval
<1>6. f \in Surjection(1..n, S)
  BY <1>1, <1>4, <1>5, FS_Injection
<1> QED
  BY <1>1, <1>3, <1>6 DEF Surjection

LEMMA ListingEach ==
    ASSUME NEW kind, NEW names, IsFiniteSet(names), kind # "checkpoints"
    PROVE  Listing(Each(kind, names), Item(kind, names))
<1> DEFINE n == Cardinality(names)  f == SetToSeq(names)  s == Each(kind, names)
<1>1. n \in Nat
  BY OrderIsWhole
<1>3. f \in [1..n -> names] /\ IsInjective(f)
  BY OrderIsWhole
<1>4. \A y \in names : \E k \in 1..n : f[k] = y
  BY OrderIsWhole
<1>5. s = [k \in 1..n |-> <<kind, f[k]>>]
  BY DEF Each
<1>6. s \in [1..n -> Item(kind, names)]
  BY <1>3, <1>5 DEF Item
<1>7. s \in Seq(Item(kind, names)) /\ Len(s) = n
  BY <1>1, <1>6, ListIsTyped, ListIsLong
<1>8. \A k \in 1..n : s[k] = <<kind, f[k]>> /\ f[k] \in names
  BY <1>3, <1>5
<1> HIDE DEF s, f
<1>9. ASSUME NEW x \in Item(kind, names) PROVE \E k \in 1..n : s[k] = x
  <2>1. PICK y \in names : x = <<kind, y>>
    BY DEF Item
  <2>2. PICK k \in 1..n : f[k] = y
    BY <1>4
  <2> QED
    BY <1>8, <2>1, <2>2
<1>10. ASSUME NEW j \in 1..n, NEW k \in 1..n, s[j] = s[k] PROVE j = k
  <2>1. f[j] = f[k]
    BY <1>8, <1>10
  <2> QED
    BY <1>3, <2>1 DEF IsInjective
<1>11. \A j \in 1..n : s[j] # One("checkpoints")
  BY <1>8 DEF One
<1>12. Listing(s, Item(kind, names))
  BY <1>7, <1>9, <1>10, <1>11 DEF Listing
<1> QED
  BY <1>12 DEF s

LEMMA ListingPair ==
    ASSUME NEW x, NEW y, x # y, x[1] # "checkpoint", y[1] # "checkpoint"
    PROVE  Listing(<<x, y>>, {x, y})
  BY DEF Listing

LEMMA ListingTriple ==
    ASSUME NEW x, NEW y, NEW z, x # y, x # z, y # z, x[1] # "checkpoint", y[1] # "checkpoint", z[1] # "checkpoint"
    PROVE  Listing(<<x, y, z>>, {x, y, z})
  BY DEF Listing

(* Doctor looks at everything once, and lists the checkpoints before it     *)
(* opens the first.                                                         *)
Seen == {x \in Inspected : x[1] \notin {"blob", "file"}}
LEMMA InspectionLists == Listing(Inspection, Seen)
<1> DEFINE A == Item("dir", Dirs)  B == {One("checkpoints")}  C == Item("checkpoint", Checkpoints)
           D == Item("remnant", Checkpoints)  E == {One("runs")}  F == Item("run", Runs)
           G == {One("pointers"), One("restores")}  H == Item("recovery", Records)
           I == {One("index"), One("runs/tmp")}  J == Item("temp", Temps)  K == Item("lock", Locks)
           L == {One("guard"), One("advice"), One("files")}
<1>1. /\ Listing(Each("dir", Dirs), A) /\ Listing(Each("checkpoint", Checkpoints), C)
      /\ Listing(Each("remnant", Checkpoints), D) /\ Listing(Each("run", Runs), F)
      /\ Listing(Each("recovery", Records), H) /\ Listing(Each("temp", Temps), J)
      /\ Listing(Each("lock", Locks), K)
  BY DiagnosisAssumption, ListingEach
<1>2. /\ Listing(<<One("checkpoints")>>, B) /\ Listing(<<One("runs")>>, E)
      /\ Listing(<<One("pointers"), One("restores")>>, G) /\ Listing(<<One("index"), One("runs/tmp")>>, I)
      /\ Listing(<<One("guard"), One("advice"), One("files")>>, L)
  BY ListingOne, ListingPair, ListingTriple DEF One
<1>3. /\ \A x \in A : x[1] \in {"dir"}
      /\ \A x \in B : x[1] \in {"checkpoints"}
      /\ \A x \in C : x[1] \in {"checkpoint"}
   
      /\ \A x \in D : x[1] \in {"remnant"}
      /\ \A x \in E : x[1] \in {"runs"}
      /\ \A x \in F : x[1] \in {"run"}
   
      /\ \A x \in G : x[1] \in {"pointers", "restores"}
      /\ \A x \in H : x[1] \in {"recovery"}
   
      /\ \A x \in I : x[1] \in {"index", "runs/tmp"}
      /\ \A x \in J : x[1] \in {"temp"}
   
      /\ \A x \in K : x[1] \in {"lock"}
      /\ \A x \in L : x[1] \in {"guard", "advice", "files"}
  BY DEF Item, One
<1>4. One("checkpoints")[1] = "checkpoints"
  BY DEF One
<1>5. Seen = A \cup B \cup C \cup D \cup E \cup F \cup G \cup H \cup I \cup J \cup K \cup L
  BY DEF Seen, Inspected, Items, Item, One
<1> DEFINE s1 == Each("dir", Dirs) \o <<One("checkpoints")>>
           s2 == s1 \o Each("checkpoint", Checkpoints)
           s3 == s2 \o Each("remnant", Checkpoints)
           s4 == s3 \o <<One("runs")>>
           s5 == s4 \o Each("run", Runs)
           s6 == s5 \o <<One("pointers"), One("restores")>>
           s7 == s6 \o Each("recovery", Records)
           s8 == s7 \o <<One("index"), One("runs/tmp")>>
           s9 == s8 \o Each("temp", Temps)
           s10 == s9 \o Each("lock", Locks)
           s11 == s10 \o <<One("guard"), One("advice"), One("files")>>
<1>6. Inspection = s11
  BY DEF Inspection
<1> HIDE DEF A, B, C, D, E, F, G, H, I, J, K, L
<1>7. /\ OfKinds(Each("dir", Dirs), A, {"dir"})
      /\ OfKinds(<<One("checkpoints")>>, B, {"checkpoints"})
      /\ OfKinds(Each("checkpoint", Checkpoints), C, {"checkpoint"})
      /\ OfKinds(Each("remnant", Checkpoints), D, {"remnant"})
      /\ OfKinds(<<One("runs")>>, E, {"runs"})
      /\ OfKinds(Each("run", Runs), F, {"run"})
      /\ OfKinds(<<One("pointers"), One("restores")>>, G, {"pointers", "restores"})
      /\ OfKinds(Each("recovery", Records), H, {"recovery"})
      /\ OfKinds(<<One("index"), One("runs/tmp")>>, I, {"index", "runs/tmp"})
      /\ OfKinds(Each("temp", Temps), J, {"temp"})
      /\ OfKinds(Each("lock", Locks), K, {"lock"})
      /\ OfKinds(<<One("guard"), One("advice"), One("files")>>, L, {"guard", "advice", "files"})
  BY <1>1, <1>2, <1>3, Zenon DEF OfKinds
<1> DEFINE p1 == {"dir", "checkpoints"}
           p2 == {"dir", "checkpoints", "checkpoint"}
           p3 == {"dir", "checkpoints", "checkpoint", "remnant"}
           p4 == {"dir", "checkpoints", "checkpoint", "remnant", "runs"}
           p5 == {"dir", "checkpoints", "checkpoint", "remnant", "runs", "run"}
           p6 == {"dir", "checkpoints", "checkpoint", "remnant", "runs", "run", "pointers", "restores"}
           p7 == {"dir", "checkpoints", "checkpoint", "remnant", "runs", "run", "pointers", "restores", "recovery"}
           p8 == {"dir", "checkpoints", "checkpoint", "remnant", "runs", "run", "pointers", "restores", "recovery", "index", "runs/tmp"}
           p9 == {"dir", "checkpoints", "checkpoint", "remnant", "runs", "run", "pointers", "restores", "recovery", "index", "runs/tmp", "temp"}
           p10 == {"dir", "checkpoints", "checkpoint", "remnant", "runs", "run", "pointers", "restores", "recovery", "index", "runs/tmp", "temp", "lock"}
           p11 == {"dir", "checkpoints", "checkpoint", "remnant", "runs", "run", "pointers", "restores", "recovery", "index", "runs/tmp", "temp", "lock", "guard", "advice", "files"}
<1>8. OfKinds(s1, A \cup B, p1)
  <2>1. {"dir"} \cap {"checkpoints"} = {} /\ {"dir"} \cup {"checkpoints"} = p1 /\ ("checkpoints" \notin {"checkpoints"} \/ "checkpoint" \notin {"dir"})
    OBVIOUS
  <2> HIDE DEF p1
  <2>2. OfKinds(Each("dir", Dirs) \o <<One("checkpoints")>>, (A) \cup B, {"dir"} \cup {"checkpoints"})
    BY <1>7, <2>1, ListingNext
  <2> QED
    BY <2>1, <2>2
<1>9. OfKinds(s2, A \cup B \cup C, p2)
  <2>1. p1 \cap {"checkpoint"} = {} /\ p1 \cup {"checkpoint"} = p2 /\ ("checkpoints" \notin {"checkpoint"} \/ "checkpoint" \notin p1)
    OBVIOUS
  <2> HIDE DEF p2, p1, s1
  <2>2. OfKinds(s1 \o Each("checkpoint", Checkpoints), (A \cup B) \cup C, p1 \cup {"checkpoint"})
    BY <1>7, <1>8, <2>1, ListingNext
  <2> QED
    BY <2>1, <2>2
<1>10. OfKinds(s3, A \cup B \cup C \cup D, p3)
  <2>1. p2 \cap {"remnant"} = {} /\ p2 \cup {"remnant"} = p3 /\ ("checkpoints" \notin {"remnant"} \/ "checkpoint" \notin p2)
    OBVIOUS
  <2> HIDE DEF p3, p2, s2
  <2>2. OfKinds(s2 \o Each("remnant", Checkpoints), (A \cup B \cup C) \cup D, p2 \cup {"remnant"})
    BY <1>7, <1>9, <2>1, ListingNext
  <2> QED
    BY <2>1, <2>2
<1>11. OfKinds(s4, A \cup B \cup C \cup D \cup E, p4)
  <2>1. p3 \cap {"runs"} = {} /\ p3 \cup {"runs"} = p4 /\ ("checkpoints" \notin {"runs"} \/ "checkpoint" \notin p3)
    OBVIOUS
  <2> HIDE DEF p4, p3, s3
  <2>2. OfKinds(s3 \o <<One("runs")>>, (A \cup B \cup C \cup D) \cup E, p3 \cup {"runs"})
    BY <1>7, <1>10, <2>1, ListingNext
  <2> QED
    BY <2>1, <2>2
<1>12. OfKinds(s5, A \cup B \cup C \cup D \cup E \cup F, p5)
  <2>1. p4 \cap {"run"} = {} /\ p4 \cup {"run"} = p5 /\ ("checkpoints" \notin {"run"} \/ "checkpoint" \notin p4)
    OBVIOUS
  <2> HIDE DEF p5, p4, s4
  <2>2. OfKinds(s4 \o Each("run", Runs), (A \cup B \cup C \cup D \cup E) \cup F, p4 \cup {"run"})
    BY <1>7, <1>11, <2>1, ListingNext
  <2> QED
    BY <2>1, <2>2
<1>13. OfKinds(s6, A \cup B \cup C \cup D \cup E \cup F \cup G, p6)
  <2>1. p5 \cap {"pointers", "restores"} = {} /\ p5 \cup {"pointers", "restores"} = p6 /\ ("checkpoints" \notin {"pointers", "restores"} \/ "checkpoint" \notin p5)
    OBVIOUS
  <2> HIDE DEF p6, p5, s5
  <2>2. OfKinds(s5 \o <<One("pointers"), One("restores")>>, (A \cup B \cup C \cup D \cup E \cup F) \cup G, p5 \cup {"pointers", "restores"})
    BY <1>7, <1>12, <2>1, ListingNext
  <2> QED
    BY <2>1, <2>2
<1>14. OfKinds(s7, A \cup B \cup C \cup D \cup E \cup F \cup G \cup H, p7)
  <2>1. p6 \cap {"recovery"} = {} /\ p6 \cup {"recovery"} = p7 /\ ("checkpoints" \notin {"recovery"} \/ "checkpoint" \notin p6)
    OBVIOUS
  <2> HIDE DEF p7, p6, s6
  <2>2. OfKinds(s6 \o Each("recovery", Records), (A \cup B \cup C \cup D \cup E \cup F \cup G) \cup H, p6 \cup {"recovery"})
    BY <1>7, <1>13, <2>1, ListingNext
  <2> QED
    BY <2>1, <2>2
<1>15. OfKinds(s8, A \cup B \cup C \cup D \cup E \cup F \cup G \cup H \cup I, p8)
  <2>1. p7 \cap {"index", "runs/tmp"} = {} /\ p7 \cup {"index", "runs/tmp"} = p8 /\ ("checkpoints" \notin {"index", "runs/tmp"} \/ "checkpoint" \notin p7)
    OBVIOUS
  <2> HIDE DEF p8, p7, s7
  <2>2. OfKinds(s7 \o <<One("index"), One("runs/tmp")>>, (A \cup B \cup C \cup D \cup E \cup F \cup G \cup H) \cup I, p7 \cup {"index", "runs/tmp"})
    BY <1>7, <1>14, <2>1, ListingNext
  <2> QED
    BY <2>1, <2>2
<1>16. OfKinds(s9, A \cup B \cup C \cup D \cup E \cup F \cup G \cup H \cup I \cup J, p9)
  <2>1. p8 \cap {"temp"} = {} /\ p8 \cup {"temp"} = p9 /\ ("checkpoints" \notin {"temp"} \/ "checkpoint" \notin p8)
    OBVIOUS
  <2> HIDE DEF p9, p8, s8
  <2>2. OfKinds(s8 \o Each("temp", Temps), (A \cup B \cup C \cup D \cup E \cup F \cup G \cup H \cup I) \cup J, p8 \cup {"temp"})
    BY <1>7, <1>15, <2>1, ListingNext
  <2> QED
    BY <2>1, <2>2
<1>17. OfKinds(s10, A \cup B \cup C \cup D \cup E \cup F \cup G \cup H \cup I \cup J \cup K, p10)
  <2>1. p9 \cap {"lock"} = {} /\ p9 \cup {"lock"} = p10 /\ ("checkpoints" \notin {"lock"} \/ "checkpoint" \notin p9)
    OBVIOUS
  <2> HIDE DEF p10, p9, s9
  <2>2. OfKinds(s9 \o Each("lock", Locks), (A \cup B \cup C \cup D \cup E \cup F \cup G \cup H \cup I \cup J) \cup K, p9 \cup {"lock"})
    BY <1>7, <1>16, <2>1, ListingNext
  <2> QED
    BY <2>1, <2>2
<1>18. OfKinds(s11, A \cup B \cup C \cup D \cup E \cup F \cup G \cup H \cup I \cup J \cup K \cup L, p11)
  <2>1. p10 \cap {"guard", "advice", "files"} = {} /\ p10 \cup {"guard", "advice", "files"} = p11 /\ ("checkpoints" \notin {"guard", "advice", "files"} \/ "checkpoint" \notin p10)
    OBVIOUS
  <2> HIDE DEF p11, p10, s10
  <2>2. OfKinds(s10 \o <<One("guard"), One("advice"), One("files")>>, (A \cup B \cup C \cup D \cup E \cup F \cup G \cup H \cup I \cup J \cup K) \cup L, p10 \cup {"guard", "advice", "files"})
    BY <1>7, <1>17, <2>1, ListingNext
  <2> QED
    BY <2>1, <2>2
<1> QED
  BY <1>5, <1>6, <1>18 DEF OfKinds

LEMMA KindsOfItems ==
    ASSUME NEW item \in Items
    PROVE  /\ item[1] \notin {"reference", "files", "remnant"}
           /\ item = <<item[1], item[2]>>
           /\ item[1] = "checkpoint" => item[2] \in Checkpoints
           /\ item[1] = "recovery" => item[2] \in Records
           /\ item[1] = "lock" => item[2] \in Locks
  BY DEF Items, Item, One

LEMMA ReadableIsOfBlobs == ASSUME NEW c \in Checkpoints PROVE Readable(c) \in Seq(Blobs)
<1>1. Refs[c] \in Seq(Blobs)
  BY DiagnosisAssumption
<1>2. SubSeq(Refs[c], 1, Len(Refs[c]) - 1) \in Seq(Blobs)
  BY <1>1, SubSeqProperties
<1> QED
  BY <1>1, <1>2, EitherIs DEF Readable

LEMMA ToSetOf == ASSUME NEW S, NEW s \in Seq(S) PROVE ToSet(s) \subseteq S
  BY DEF ToSet

LEMMA LostReferenceIs ==
    ASSUME NEW d
    PROVE  d \in LostReferences <=>
             \/ \E c \in Checkpoints : \E b \in ToSet(Readable(c)) :
                  d = Reference(<<"checkpoint", c>>, b) /\ Reachable(c) /\ Broken(b, doc.strict)
             \/ \E u \in Records : \E b \in ToSet(Drained(u)) :
                  d = Reference(<<"recovery", u>>, b) /\ store[<<"recovery", u>>] \subseteq {"torn", "bad scope"} /\ Broken(b, FALSE)
<1> DEFINE OfC(c) == {Reference(<<"checkpoint", c>>, b) : b \in {x \in ToSet(Readable(c)) : Broken(x, doc.strict)}}
           OfU(u) == {Reference(<<"recovery", u>>, b) : b \in {x \in ToSet(Drained(u)) : Broken(x, FALSE)}}
           C == {x \in Checkpoints : Reachable(x)}
           U == {x \in Records : store[<<"recovery", x>>] \subseteq {"torn", "bad scope"}}
<1>1. d \in LostReferences <=> (\E c \in C : d \in OfC(c)) \/ (\E u \in U : d \in OfU(u))
  <2> DEFINE CS == UNION {OfC(c) : c \in C}  US == UNION {OfU(u) : u \in U}
  <2>1. LostReferences = CS \cup US
    BY DEF LostReferences
  <2> HIDE DEF OfC, OfU, C, U
  <2>2. d \in CS <=> \E c \in C : d \in OfC(c)
    BY Zenon
  <2>3. d \in US <=> \E u \in U : d \in OfU(u)
    BY Zenon
  <2> HIDE DEF CS, US
  <2> QED
    BY <2>1, <2>2, <2>3, Zenon
<1>2. ASSUME NEW c PROVE d \in OfC(c) <=> \E b \in ToSet(Readable(c)) :
                              d = Reference(<<"checkpoint", c>>, b) /\ Broken(b, doc.strict)
  OBVIOUS
<1>3. ASSUME NEW u PROVE d \in OfU(u) <=> \E b \in ToSet(Drained(u)) :
                              d = Reference(<<"recovery", u>>, b) /\ Broken(b, FALSE)
  OBVIOUS
<1>4. (\E c \in C : d \in OfC(c)) <=>
         \E c \in Checkpoints : \E b \in ToSet(Readable(c)) :
            d = Reference(<<"checkpoint", c>>, b) /\ Reachable(c) /\ Broken(b, doc.strict)
  <2> HIDE DEF OfC
  <2> QED
    BY <1>2, Zenon
<1>5. (\E u \in U : d \in OfU(u)) <=>
         \E u \in Records : \E b \in ToSet(Drained(u)) :
            d = Reference(<<"recovery", u>>, b) /\ store[<<"recovery", u>>] \subseteq {"torn", "bad scope"} /\ Broken(b, FALSE)
  <2> HIDE DEF OfU
  <2> QED
    BY <1>3, Zenon
<1> HIDE DEF C, U, OfC, OfU
<1> QED
  BY <1>1, <1>4, <1>5

LEMMA ReferenceIsAbout ==
    ASSUME NEW b \in Blobs
    PROVE  /\ \A c \in Checkpoints : Reference(<<"checkpoint", c>>, b) \in Abouts
           /\ \A u \in Records : Reference(<<"recovery", u>>, b) \in Abouts
<1>1. /\ \A c \in Checkpoints : <<"checkpoint", c>> \in Holders
      /\ \A u \in Records : <<"recovery", u>> \in Holders
  BY DEF Holders, Item
<1> QED
  BY <1>1 DEF Abouts

LEMMA AmissReference ==
    ASSUME NEW c, NEW b
    PROVE  /\ Amiss(Reference(<<"checkpoint", c>>, b)) <=>
                Reachable(c) /\ b \in ToSet(Readable(c)) /\ Broken(b, doc.strict)
           /\ Amiss(Reference(<<"recovery", c>>, b)) <=>
                store[<<"recovery", c>>] \subseteq {"torn", "bad scope"} /\ b \in ToSet(Drained(c)) /\ Broken(b, FALSE)
           /\ Amiss(<<"files", b>>) <=> \E n \in ToSet(RootFiles) : {"secret", b} \subseteq store[<<"file", n>>]
  BY DEF Amiss, Reference

LEMMA AmissItem == ASSUME NEW item \in Items PROVE Amiss(item) <=> ~Harmless(item)
  BY KindsOfItems DEF Amiss

(* What the report is held against is what is amiss. *)
LEMMA DefectsAreAmiss == Defects = {d \in Abouts : Amiss(d)}
<1>1. \A i \in Items : i \in Abouts
  BY DEF Abouts
<1>2. ASSUME NEW d \in Defects PROVE d \in Abouts /\ Amiss(d)
  <2>1. CASE d \in Items /\ ~Harmless(d)
    BY <1>1, <2>1, AmissItem
  <2>2. CASE d \in LostReferences
    <3>1. CASE \E c \in Checkpoints : \E b \in ToSet(Readable(c)) :
                 d = Reference(<<"checkpoint", c>>, b) /\ Reachable(c) /\ Broken(b, doc.strict)
      <4>1. PICK c \in Checkpoints : \E b \in ToSet(Readable(c)) :
                 d = Reference(<<"checkpoint", c>>, b) /\ Reachable(c) /\ Broken(b, doc.strict)
        BY <3>1
      <4>5. PICK b \in ToSet(Readable(c)) :
                 d = Reference(<<"checkpoint", c>>, b) /\ Reachable(c) /\ Broken(b, doc.strict)
        BY <4>1
      <4>2. b \in Blobs
        BY <4>5, ReadableIsOfBlobs DEF ToSet
      <4>3. d \in Abouts
        BY <4>2, <4>5, ReferenceIsAbout
      <4> QED
        BY <4>3, <4>5, AmissReference
    <3>2. CASE \E u \in Records : \E b \in ToSet(Drained(u)) :
                 d = Reference(<<"recovery", u>>, b) /\ store[<<"recovery", u>>] \subseteq {"torn", "bad scope"} /\ Broken(b, FALSE)
      <4>1. PICK u \in Records : \E b \in ToSet(Drained(u)) :
                 d = Reference(<<"recovery", u>>, b) /\ store[<<"recovery", u>>] \subseteq {"torn", "bad scope"} /\ Broken(b, FALSE)
        BY <3>2
      <4>5. PICK b \in ToSet(Drained(u)) :
                 d = Reference(<<"recovery", u>>, b) /\ store[<<"recovery", u>>] \subseteq {"torn", "bad scope"} /\ Broken(b, FALSE)
        BY <4>1
      <4>2. b \in Blobs
        <5>1. Drained(u) \in Seq(Blobs)
          BY DrainedIsOfBlobs
        <5> QED
          BY <4>5, <5>1, ToSetOf
      <4>3. d \in Abouts
        BY <4>2, <4>5, ReferenceIsAbout
      <4> QED
        BY <4>3, <4>5, AmissReference
    <3> QED
      BY <2>2, <3>1, <3>2, LostReferenceIs
  <2>3. CASE d \in Exposed
    <3>1. PICK f \in {"captured", "opaque"} : d = <<"files", f>> /\ \E n \in ToSet(RootFiles) : {"secret", f} \subseteq store[<<"file", n>>]
      BY <2>3 DEF Exposed
    <3>2. <<"files", f>> \in Item("files", {"captured", "opaque"})
      BY DEF Item
    <3>3. d \in Abouts
      BY <3>1, <3>2 DEF Abouts
    <3>4. Amiss(<<"files", f>>)
      BY <3>1, AmissReference, Zenon
    <3> QED
      BY <3>1, <3>3, <3>4
  <2> QED
    BY <2>1, <2>2, <2>3 DEF Defects
<1>3. ASSUME NEW d \in Abouts, Amiss(d) PROVE d \in Defects
  <2>1. CASE d \in Items
    BY <1>3, <2>1, AmissItem DEF Defects
  <2>2. CASE d \in Item("files", {"captured", "opaque"})
    <3>1. PICK f \in {"captured", "opaque"} : d = <<"files", f>>
      BY <2>2 DEF Item
    <3> QED
      BY <1>3, <3>1, AmissReference DEF Defects, Exposed
  <2>3. ASSUME NEW h \in Holders, NEW b \in Blobs, d = Reference(h, b) PROVE d \in LostReferences
    <3>1. CASE h \in Item("checkpoint", Checkpoints)
      <4>1. PICK c \in Checkpoints : h = <<"checkpoint", c>>
        BY <3>1 DEF Item
      <4> QED
        BY <1>3, <2>3, <4>1, AmissReference, LostReferenceIs
    <3>2. CASE h \in Item("recovery", Records)
      <4>1. PICK u \in Records : h = <<"recovery", u>>
        BY <3>2 DEF Item
      <4> QED
        BY <1>3, <2>3, <4>1, AmissReference, LostReferenceIs
    <3> QED
      BY <2>3, <3>1, <3>2 DEF Holders
  <2> QED
    BY <2>1, <2>2, <2>3 DEF Abouts, Defects
<1> QED
  BY <1>2, <1>3

(* What is amiss with a thing hangs on what it is, on whom it belongs to    *)
(* and on the blobs and files, which only a crash or a user damages.        *)
StaysAs(d) ==
    /\ Holder(d) \in Items => store'[Holder(d)] = store[Holder(d)]
    /\ \A b \in Blobs : store'[<<"blob", b>>] = store[<<"blob", b>>]
    /\ \A n \in ToSet(RootFiles) : store'[<<"file", n>>] = store[<<"file", n>>]
    /\ doc'.strict = doc.strict

LEMMA StillAmiss ==
    ASSUME NEW d \in Abouts, StaysAs(d)
    PROVE  (Amiss(d)' <=> Amiss(d)) /\ PlaceOf(d)' = PlaceOf(d)
<1>1. CASE d \in Items
  <2>1. Holder(d) = d /\ d[1] # "files"
    BY <1>1, KindsOfItems DEF Holder
  <2>2. store'[d] = store[d] /\ doc'.strict = doc.strict
    BY <1>1, <2>1 DEF StaysAs
  <2>3. Harmless(d)' <=> Harmless(d)
    BY <2>2 DEF Harmless, NotThere, Visible
  <2>4. Amiss(d)' <=> ~Harmless(d)'
    BY <1>1, KindsOfItems DEF Amiss
  <2>5. d[1] = "checkpoint" => (Headerless(d[2])' <=> Headerless(d[2]))
    BY <1>1, <2>2, KindsOfItems DEF Headerless
  <2> QED
    BY <1>1, <2>1, <2>3, <2>4, <2>5, AmissItem DEF PlaceOf
<1>2. CASE d \in Item("files", {"captured", "opaque"})
  <2>1. PICK f \in {"captured", "opaque"} : d = <<"files", f>>
    BY <1>2 DEF Item
  <2>2. PlaceOf(d)' = PlaceOf(d)
    BY <2>1 DEF PlaceOf
  <2>3. Amiss(d)' <=> \E n \in ToSet(RootFiles) : {"secret", f} \subseteq store'[<<"file", n>>]
    BY <2>1 DEF Amiss
  <2>4. Amiss(d) <=> \E n \in ToSet(RootFiles) : {"secret", f} \subseteq store[<<"file", n>>]
    BY <2>1, AmissReference
  <2> QED
    BY <2>2, <2>3, <2>4, Zenon DEF StaysAs
<1>3. ASSUME NEW h \in Holders, NEW b \in Blobs, d = Reference(h, b) PROVE (Amiss(d)' <=> Amiss(d)) /\ PlaceOf(d)' = PlaceOf(d)
  <2>1. Holder(d) = h /\ d[1] = "reference" /\ h \in Items
    BY <1>3 DEF Holder, Reference, Holders, Items
  <2>2. store'[h] = store[h] /\ doc'.strict = doc.strict /\ store'[<<"blob", b>>] = store[<<"blob", b>>]
    BY <2>1 DEF StaysAs
  <2>3. PlaceOf(d)' = PlaceOf(d)
    BY <2>1 DEF PlaceOf
  <2>4. \A strict : Broken(b, strict)' <=> Broken(b, strict)
    BY <2>2 DEF Broken
  <2>5. CASE h \in Item("checkpoint", Checkpoints)
    <3>1. PICK c \in Checkpoints : h = <<"checkpoint", c>>
      BY <2>5 DEF Item
    <3>2. (Reachable(c)' <=> Reachable(c)) /\ Readable(c)' = Readable(c)
      BY <2>2, <3>1 DEF Reachable, Readable
    <3>3. Amiss(d)' <=> Reachable(c)' /\ b \in ToSet(Readable(c)') /\ Broken(b, doc.strict)'
      BY <1>3, <3>1 DEF Amiss, Reference
    <3> QED
      BY <1>3, <2>2, <2>3, <2>4, <3>1, <3>2, <3>3, AmissReference
  <2>6. CASE h \in Item("recovery", Records)
    <3>1. PICK u \in Records : h = <<"recovery", u>>
      BY <2>6 DEF Item
    <3>2. Amiss(d)' <=> store'[<<"recovery", u>>] \subseteq {"torn", "bad scope"} /\ b \in ToSet(Drained(u)') /\ Broken(b, FALSE)'
      BY <1>3, <3>1 DEF Amiss, Reference
    <3>3. Drained(u)' = Drained(u)
      BY <2>2, <3>1 DEF Drained
    <3> QED
      BY <1>3, <2>2, <2>3, <2>4, <3>1, <3>2, <3>3, AmissReference
  <2> QED
    BY <2>5, <2>6 DEF Holders
<1> QED
  BY <1>1, <1>2, <1>3 DEF Abouts

(* What one check's findings tell: nothing that is not so, everything that  *)
(* is met here; and what a repair may act on is told alone.                 *)
Tells(item, fs) ==
    /\ \A f \in ToSet(fs) : ~f.repaired /\ (Settled(f.about) => Amiss(f.about))
    /\ \A d \in Abouts : Amiss(d) /\ Settled(d) /\ PlaceOf(d) = item => \E f \in ToSet(fs) : f.about = d
    /\ \A f \in ToSet(fs) : f.repairable => Len(fs) = 1 /\ (f.about[1] = "checkpoint" => Headerless(f.about[2]))
    /\ \A f \in ToSet(fs) : Settled(f.about) /\ f.about \in Remains => PlaceOf(f.about) = item

LEMMA FindingIs ==
    ASSUME NEW x, NEW severity
    PROVE  /\ \A r \in BOOLEAN : Finding(x, severity, r).about = x /\ Finding(x, severity, r).repaired = FALSE
           /\ Finding(x, severity, FALSE).repairable = FALSE
  BY DEF Finding

LEMMA ToSetIs ==
    /\ ToSet(Passed) = {} /\ Len(Passed) = 0
    /\ \A x : ToSet(Error(x)) = {Finding(x, "error", FALSE)} /\ Len(Error(x)) = 1
    /\ \A x : ToSet(Warning(x)) = {Finding(x, "warning", FALSE)} /\ Len(Warning(x)) = 1
    /\ \A x : ToSet(Repairable(x)) = {Finding(x, "warning", TRUE)} /\ Len(Repairable(x)) = 1
    /\ \A f : ToSet(<<f>>) = {f} /\ Len(<<f>>) = 1
<1>1. \A f : ToSet(<<f>>) = {f} /\ Len(<<f>>) = 1
  BY DEF ToSet
<1>2. ToSet(Passed) = {} /\ Len(Passed) = 0
  BY DEF ToSet, Passed
<1> QED
  BY <1>1, <1>2 DEF Error, Warning, Repairable

LEMMA ToSetConcat ==
    ASSUME NEW S, NEW s \in Seq(S), NEW t \in Seq(S)
    PROVE  ToSet(s \o t) = ToSet(s) \cup ToSet(t)
<1>1. /\ s \o t \in Seq(S) /\ Len(s) \in Nat /\ Len(t) \in Nat /\ Len(s \o t) = Len(s) + Len(t)
      /\ \A i \in 1..(Len(s) + Len(t)) : (s \o t)[i] = IF i <= Len(s) THEN s[i] ELSE t[i - Len(s)]
  BY ConcatProperties
<1>2. DOMAIN s = 1..Len(s) /\ DOMAIN t = 1..Len(t) /\ DOMAIN (s \o t) = 1..(Len(s) + Len(t))
  BY <1>1
<1> DEFINE u == s \o t
<1> HIDE DEF u
<1>3. ASSUME NEW e PROVE e \in ToSet(u) <=> \E i \in DOMAIN u : u[i] = e
  BY DEF ToSet
<1>4. ASSUME NEW i \in DOMAIN u PROVE u[i] \in ToSet(s) \cup ToSet(t)
  <2>1. CASE i <= Len(s)
    BY <1>1, <1>2, <2>1 DEF ToSet, u
  <2>2. CASE ~(i <= Len(s))
    <3>1. i - Len(s) \in DOMAIN t /\ u[i] = t[i - Len(s)]
      BY <1>1, <1>2, <2>2 DEF u
    <3> QED
      BY <3>1 DEF ToSet
  <2> QED
    BY <2>1, <2>2
<1>5. ASSUME NEW i \in DOMAIN s PROVE s[i] \in ToSet(u)
  <2>1. i \in DOMAIN u /\ u[i] = s[i]
    BY <1>1, <1>2 DEF u
  <2> QED
    BY <2>1 DEF ToSet
<1>6. ASSUME NEW i \in DOMAIN t PROVE t[i] \in ToSet(u)
  <2>1. i + Len(s) \in DOMAIN u /\ u[i + Len(s)] = t[i]
    BY <1>1, <1>2 DEF u
  <2> QED
    BY <2>1 DEF ToSet
<1>7. ToSet(u) = ToSet(s) \cup ToSet(t)
  <2>1. \A e : e \in ToSet(s) <=> \E i \in DOMAIN s : s[i] = e
    BY DEF ToSet
  <2>2. \A e : e \in ToSet(t) <=> \E i \in DOMAIN t : t[i] = e
    BY DEF ToSet
  <2> QED
    BY <1>3, <1>4, <1>5, <1>6, <2>1, <2>2
<1> QED
  BY <1>7 DEF u

LEMMA CountedIs ==
    ASSUME NEW faults, IsFiniteSet(faults), NEW f
    PROVE  ToSet([i \in 1..Cardinality(faults) |-> f]) = {e \in {f} : faults # {}}
<1>1. Cardinality(faults) \in Nat /\ (Cardinality(faults) = 0 <=> faults = {})
  BY FS_CardinalityType, FS_EmptySet
<1>2. 1..Cardinality(faults) # {} <=> faults # {}
  BY <1>1
<1> QED
  BY <1>2 DEF ToSet

(* What the doctor says of a reference whose blob is lost. *)
LostFinding(item, b) == Finding(Reference(item, b), "error", FALSE)

(* One such finding for each lost place, and nothing else. *)
LEMMA LostIs ==
    ASSUME NEW item, NEW refs \in Seq(Blobs), NEW places, places \subseteq DOMAIN refs
    PROVE  ToSet(LostAt(item, refs, places)) = {LostFinding(item, refs[p]) : p \in places}
<1>1. IsFiniteSet(places)
  <2>1. IsFiniteSet(1..Len(refs)) /\ DOMAIN refs = 1..Len(refs)
    BY FS_Interval
  <2> QED
    BY <2>1, FS_Subset
<1> DEFINE n == Cardinality(places)  o == SetToSeq(places)  s == LostAt(item, refs, places)
<1>2. o \in [1..n -> places] /\ \A p \in places : \E k \in 1..n : o[k] = p
  BY <1>1, OrderIsWhole
<1>3. DOMAIN s = 1..n /\ \A k \in 1..n : s[k] = LostFinding(item, refs[o[k]])
  BY DEF LostAt, LostFinding
<1> HIDE DEF s, o, n
<1>4. \A e : e \in ToSet(s) <=> \E k \in 1..n : s[k] = e
  BY <1>3 DEF ToSet
<1>5. ToSet(s) = {LostFinding(item, refs[p]) : p \in places}
  <2> DEFINE G(p) == LostFinding(item, refs[p])
  <2>1. \A k \in 1..n : s[k] = G(o[k]) /\ o[k] \in places
    BY <1>2, <1>3
  <2> HIDE DEF G
  <2>2. \A e : e \in ToSet(s) <=> \E p \in places : e = G(p)
    BY <1>2, <1>4, <2>1
  <2>3. ToSet(s) = {G(p) : p \in places}
    BY <2>2
  <2> QED
    BY <2>3 DEF G
<1> QED
  BY <1>5 DEF s

(* A check of one thing, all of whose findings are about it. *)
LEMMA PlainTells ==
    ASSUME NEW item, NEW x \in Abouts, NEW fs,
           \A f \in ToSet(fs) : f.about = x /\ f.repaired = FALSE,
           \A f \in ToSet(fs) : f.repairable => Len(fs) = 1 /\ (x[1] = "checkpoint" => Headerless(x[2])),
           ToSet(fs) # {} /\ Settled(x) => Amiss(x) /\ PlaceOf(x) = item,
           Amiss(x) /\ Settled(x) /\ PlaceOf(x) = item => ToSet(fs) # {},
           \A d \in Abouts : Amiss(d) /\ PlaceOf(d) = item => d = x
    PROVE  Tells(item, fs)
  BY DEF Tells

LEMMA PlaceIs ==
    ASSUME NEW item \in Items, NEW d \in Abouts, PlaceOf(d) = item, item \notin Holders
    PROVE  d = item
<1>1. d \in Items => Holder(d) = d
  BY KindsOfItems DEF Holder
<1>2. item # One("files") /\ item[1] # "remnant"
  BY KindsOfItems DEF One
<1>3. ASSUME NEW h \in Holders, NEW b \in Blobs, d = Reference(h, b) PROVE FALSE
  BY <1>3 DEF Reference, PlaceOf, Holder
<1>4. ASSUME NEW f, d = <<"files", f>> PROVE FALSE
  BY <1>2, <1>4 DEF PlaceOf
<1>5. d \in Items => d = item
  BY <1>1, <1>2 DEF PlaceOf
<1> QED
  BY <1>3, <1>4, <1>5 DEF Abouts, Item

LEMMA PlaceOfItem ==
    ASSUME NEW item \in Items, ~(item[1] = "checkpoint" /\ Headerless(item[2]))
    PROVE  PlaceOf(item) = item /\ Holder(item) = item
  BY KindsOfItems DEF PlaceOf, Holder

Plainly(f, x) == f.about = x /\ f.repaired = FALSE
Lasting(f) == f.repairable = FALSE

LEMMA ShortLists ==
    ASSUME NEW x
    PROVE  /\ \A fs \in {Error(x), Warning(x), Repairable(x), <<Finding(x, "error", TRUE)>>} :
                ToSet(fs) # {} /\ Len(fs) = 1 /\ \A f \in ToSet(fs) : Plainly(f, x)
           /\ \A fs \in {Error(x), Warning(x)} : \A f \in ToSet(fs) : Lasting(f)
           /\ ToSet(Passed) = {}
<1>1. /\ Plainly(Finding(x, "error", FALSE), x) /\ Plainly(Finding(x, "warning", FALSE), x)
      /\ Plainly(Finding(x, "warning", TRUE), x) /\ Plainly(Finding(x, "error", TRUE), x)
      /\ Lasting(Finding(x, "error", FALSE)) /\ Lasting(Finding(x, "warning", FALSE))
  BY DEF Finding, Plainly, Lasting
<1>2. /\ ToSet(Error(x)) = {Finding(x, "error", FALSE)} /\ Len(Error(x)) = 1
      /\ ToSet(Warning(x)) = {Finding(x, "warning", FALSE)} /\ Len(Warning(x)) = 1
      /\ ToSet(Repairable(x)) = {Finding(x, "warning", TRUE)} /\ Len(Repairable(x)) = 1
      /\ ToSet(<<Finding(x, "error", TRUE)>>) = {Finding(x, "error", TRUE)} /\ Len(<<Finding(x, "error", TRUE)>>) = 1
      /\ ToSet(Passed) = {}
  BY ToSetIs
<1> QED
  BY <1>1, <1>2

AsMany(x, severity, faults) == [i \in 1..Cardinality(faults) |-> Finding(x, severity, FALSE)]

LEMMA CountedList ==
    ASSUME NEW x, NEW severity, NEW faults, IsFiniteSet(faults)
    PROVE  /\ ToSet(AsMany(x, severity, faults)) # {} <=> faults # {}
           /\ \A f \in ToSet(AsMany(x, severity, faults)) : Plainly(f, x) /\ Lasting(f)
<1> DEFINE one == Finding(x, severity, FALSE)
<1>1. Plainly(one, x) /\ Lasting(one)
  BY DEF Finding, Plainly, Lasting
<1>2. ToSet(AsMany(x, severity, faults)) = {e \in {one} : faults # {}}
  BY CountedIs DEF AsMany
<1> HIDE DEF one
<1> QED
  BY <1>1, <1>2

LEMMA SingleTells ==
    ASSUME NEW item \in Items \ Holders, NEW fs,
           \A f \in ToSet(fs) : Plainly(f, item),
           \A f \in ToSet(fs) : Lasting(f) \/ Len(fs) = 1,
           item \notin changed => (ToSet(fs) # {} <=> Amiss(item))
    PROVE  Tells(item, fs)
<1>1. item[1] # "checkpoint"
  BY DEF Items, Item, One, Holders
<1>2. PlaceOf(item) = item /\ Holder(item) = item /\ item \in Abouts
  BY <1>1, PlaceOfItem DEF Abouts
<1>3. \A d \in Abouts : PlaceOf(d) = item => d = item
  BY PlaceIs
<1>4. \A f \in ToSet(fs) : f.about = item /\ f.repaired = FALSE
  BY DEF Plainly
<1>5. \A f \in ToSet(fs) : f.repairable => Len(fs) = 1
  BY DEF Lasting
<1> QED
  BY <1>1, <1>2, <1>3, <1>4, <1>5, PlainTells DEF Settled

LEMMA AmissIs ==
    ASSUME OthersFit, NEW item \in Items, item \notin changed, item[1] \notin {"blob", "file", "lock"}
    PROVE  /\ Amiss(item) <=> Visible(item) # {} /\ ~NotThere(item)
           /\ item[1] # "index" => Visible(item) = store[item]
<1>1. Amiss(item) <=> ~Harmless(item)
  BY AmissItem
<1> QED
  BY <1>1 DEF Harmless, Visible

LEMMA ThereUnless ==
    ASSUME OthersFit, NEW item \in Items, item \notin changed, item[1] \notin {"checkpoint", "run"}
    PROVE  ~NotThere(item)
<1>1. FaultsFit(item, store[item])
  BY DEF OthersFit
<1> QED
  BY <1>1 DEF FaultsFit, NotThere

LEMMA LayoutTells ==
    ASSUME OthersFit, NEW item \in Items,
           item[1] \in {"dir", "checkpoints", "runs", "restores", "runs/tmp"}
    PROVE  Tells(item, checkLayout(item))
<1>1. item \notin Holders
  BY DEF Holders, Item
<1>2. item \notin changed => (Amiss(item) <=> store[item] # {})
  BY AmissIs, ThereUnless
<1>3. /\ ToSet(checkLayout(item)) # {} <=> store[item] # {}
      /\ \A f \in ToSet(checkLayout(item)) : Plainly(f, item) /\ Lasting(f)
  BY ShortLists DEF checkLayout
<1> QED
  BY <1>1, <1>2, <1>3, SingleTells

LEMMA PointersTell ==
    ASSUME DiagnosisTypes, OthersFit, NEW item \in Items, item[1] = "pointers"
    PROVE  Tells(item, checkRunPointers(item))
<1>1. item \notin Holders
  BY DEF Holders, Item
<1>2. item \notin changed => (Amiss(item) <=> store[item] # {})
  BY AmissIs, ThereUnless
<1>3. /\ ToSet(checkRunPointers(item)) # {} <=> store[item] # {}
      /\ \A f \in ToSet(checkRunPointers(item)) : Plainly(f, item) /\ Lasting(f)
  <2>1. IsFiniteSet(store[item])
    BY DEF DiagnosisTypes
  <2>2. checkRunPointers(item) = AsMany(item, "error", store[item])
    BY DEF checkRunPointers, AsMany
  <2> QED
    BY <2>1, <2>2, CountedList
<1> QED
  BY <1>1, <1>2, <1>3, SingleTells

LEMMA RunTells ==
    ASSUME DiagnosisTypes, OthersFit, NEW item \in Items, item[1] = "run"
    PROVE  Tells(item, checkRun(item))
<1> DEFINE f == store[item]  counted == AsMany(item, "error", f)
<1>1. item \notin Holders
  BY DEF Holders, Item
<1>2. item \notin changed => (Amiss(item) <=> f # {} /\ "absent" \notin f)
  BY AmissIs DEF NotThere
<1>3. /\ ToSet(counted) # {} <=> f # {}
      /\ \A g \in ToSet(counted) : Plainly(g, item) /\ Lasting(g)
  <2>1. IsFiniteSet(f)
    BY DEF DiagnosisTypes
  <2> HIDE DEF f
  <2> QED
    BY <2>1, CountedList
<1>4. checkRun(item) = IF "absent" \in f THEN Passed ELSE IF "other format" \in f THEN Warning(item)
                       ELSE IF "bad entry" \in f THEN Error(item) ELSE counted
  BY DEF checkRun, verifyRunPayloads, AsMany
<1> HIDE DEF counted
<1>5. /\ ToSet(checkRun(item)) # {} <=> f # {} /\ "absent" \notin f
      /\ \A g \in ToSet(checkRun(item)) : Plainly(g, item) /\ Lasting(g)
  BY <1>3, <1>4, ShortLists
<1> QED
  BY <1>1, <1>2, <1>5, SingleTells

LEMMA IndexTells ==
    ASSUME OthersFit, NEW item \in Items, item[1] = "index"
    PROVE  Tells(item, checkIndex(item))
<1>1. item \notin Holders
  BY DEF Holders, Item
<1>2. item \notin changed => (Amiss(item) <=> Visible(item) # {})
  BY AmissIs, ThereUnless
<1>3. \/ Visible(item) = {} /\ checkIndex(item) = Passed
      \/ Visible(item) # {} /\ checkIndex(item) \in {Error(item), Warning(item), <<Finding(item, "error", TRUE)>>}
  BY DEF checkIndex
<1>4. /\ \A f \in ToSet(checkIndex(item)) : Plainly(f, item)
      /\ ToSet(checkIndex(item)) # {} => Len(checkIndex(item)) = 1
      /\ ToSet(checkIndex(item)) # {} <=> Visible(item) # {}
  BY <1>3, ShortLists
<1> QED
  BY <1>1, <1>2, <1>4, SingleTells

LEMMA TempTells ==
    ASSUME OthersFit, NEW item \in Items, item[1] = "temp"
    PROVE  Tells(item, checkTemp(item))
<1>1. item \notin Holders
  BY DEF Holders, Item
<1>2. item \notin changed => (Amiss(item) <=> store[item] # {})
  BY AmissIs, ThereUnless
<1>3. \/ store[item] = {} /\ checkTemp(item) = Passed
      \/ store[item] # {} /\ checkTemp(item) \in {Repairable(item), Warning(item)}
  BY DEF checkTemp
<1>4. /\ \A f \in ToSet(checkTemp(item)) : Plainly(f, item)
      /\ ToSet(checkTemp(item)) # {} => Len(checkTemp(item)) = 1
      /\ ToSet(checkTemp(item)) # {} <=> store[item] # {}
  BY <1>3, ShortLists
<1> QED
  BY <1>1, <1>2, <1>4, SingleTells

LEMMA GuardTells ==
    ASSUME OthersFit, NEW item \in Items, item[1] = "guard"
    PROVE  Tells(item, checkStateGitignore(item))
<1>1. item \notin Holders
  BY DEF Holders, Item
<1>2. item \notin changed => (Amiss(item) <=> store[item] # {})
  BY AmissIs, ThereUnless
<1>3. \/ store[item] = {} /\ checkStateGitignore(item) = Passed
      \/ store[item] # {} /\ checkStateGitignore(item) \in {Repairable(item), Warning(item)}
  BY DEF checkStateGitignore
<1>4. /\ \A f \in ToSet(checkStateGitignore(item)) : Plainly(f, item)
      /\ ToSet(checkStateGitignore(item)) # {} => Len(checkStateGitignore(item)) = 1
      /\ ToSet(checkStateGitignore(item)) # {} <=> store[item] # {}
  BY <1>3, ShortLists
<1> QED
  BY <1>1, <1>2, <1>4, SingleTells

LEMMA LockTells ==
    ASSUME OthersFit, NEW item \in Items, item[1] = "lock"
    PROVE  Tells(item, checkLock(item))
<1>1. item \notin Holders
  BY DEF Holders, Item
<1>2. ASSUME item \notin changed
      PROVE  store[item] \in {{}, {"stale"}, {"unknown"}}
  <2>1. FaultsFit(item, store[item])
    BY <1>2 DEF OthersFit
  <2> QED
    BY <2>1, Zenon DEF FaultsFit
<1> DEFINE inTheWay == IF item[2] \in Exclusive THEN "unknown" \in store[item] /\ ReportsUnknown
                       ELSE "unknown" \in store[item] \/ "stale" \in store[item]
<1>3. item \notin changed => (Amiss(item) <=> inTheWay)
  BY <1>2, AmissItem DEF Harmless, NotThere, Visible
<1>4. \/ checkLock(item) = Passed /\ ~inTheWay
      \/ inTheWay /\ checkLock(item) \in {Repairable(item), Warning(item)}
  BY DEF checkLock
<1> HIDE DEF inTheWay
<1>5. /\ \A f \in ToSet(checkLock(item)) : Plainly(f, item)
      /\ ToSet(checkLock(item)) # {} => Len(checkLock(item)) = 1
      /\ ToSet(checkLock(item)) # {} <=> inTheWay
  BY <1>4, ShortLists
<1>6. item \notin changed => (ToSet(checkLock(item)) # {} <=> Amiss(item))
  BY <1>3, <1>5
<1> QED
  BY <1>1, <1>5, <1>6, SingleTells

LEMMA AdviceTells ==
    ASSUME DiagnosisTypes, OthersFit, NEW item \in Items, item[1] = "advice"
    PROVE  Tells(item, Advice(item))
<1>1. item \notin Holders
  BY DEF Holders, Item
<1>2. item \notin changed => (Amiss(item) <=> store[item] # {})
  BY AmissIs, ThereUnless
<1>3. /\ ToSet(Advice(item)) # {} <=> store[item] # {}
      /\ \A f \in ToSet(Advice(item)) : Plainly(f, item) /\ Lasting(f)
  <2>1. IsFiniteSet(store[item])
    BY DEF DiagnosisTypes
  <2>2. Advice(item) = AsMany(item, "warning", store[item])
    BY DEF Advice, AsMany
  <2> QED
    BY <2>1, <2>2, CountedList
<1> QED
  BY <1>1, <1>2, <1>3, SingleTells

LEMMA PlaceIsHeld ==
    ASSUME NEW item \in Holders, NEW d \in Abouts, PlaceOf(d) = item
    PROVE  \/ d = item /\ ~(item[1] = "checkpoint" /\ Headerless(item[2]))
           \/ \E b \in Blobs : d = Reference(item, b)
<1>1. item \in Items /\ item[1] # "remnant" /\ item # One("files")
  BY DEF Holders, Items, Item, One
<1>2. CASE d \in Items
  BY <1>1, <1>2, KindsOfItems DEF PlaceOf, Holder
<1>3. ASSUME NEW h \in Holders, NEW b \in Blobs, d = Reference(h, b) PROVE h = item
  BY <1>3 DEF Reference, PlaceOf, Holder
<1>4. ASSUME NEW f, d = <<"files", f>> PROVE FALSE
  BY <1>1, <1>4 DEF PlaceOf
<1> QED
  BY <1>2, <1>3, <1>4 DEF Abouts, Item

LEMMA RemnantTells ==
    ASSUME OthersFit, NEW c \in Checkpoints
    PROVE  Tells(<<"remnant", c>>, checkHeaderless(c))
<1> DEFINE item == <<"remnant", c>>  x == <<"checkpoint", c>>  fs == checkHeaderless(c)
<1>1. x \in Items /\ x \in Abouts /\ x[1] = "checkpoint" /\ x[2] = c /\ Holder(x) = x
  BY DEF Items, Item, Abouts, Holder
<1>2. \/ ~Headerless(c) /\ fs = Passed
      \/ Headerless(c) /\ fs \in {Warning(x), Repairable(x)}
  BY DEF checkHeaderless, remnantFinding
<1>3. /\ \A f \in ToSet(fs) : Plainly(f, x) /\ Len(fs) = 1
      /\ ToSet(fs) # {} <=> Headerless(c)
  BY <1>2, ShortLists
<1>4. Headerless(c) => PlaceOf(x) = item
  BY DEF PlaceOf
<1>5. PlaceOf(x) = item => Headerless(c)
  BY <1>1 DEF PlaceOf
<1>6. Headerless(c) /\ x \notin changed => Amiss(x)
  <2> SUFFICES ASSUME Headerless(c), x \notin changed PROVE Amiss(x)
    OBVIOUS
  <2>1. FaultsFit(x, store[x]) /\ "no header" \in store[x]
    BY <1>1 DEF OthersFit, Headerless
  <2>2. "absent" \notin store[x]
    BY <1>1, <2>1 DEF FaultsFit
  <2> QED
    BY <1>1, <2>1, <2>2, AmissIs DEF NotThere
<1>7. ASSUME NEW d \in Abouts, PlaceOf(d) = item PROVE d = x
  <2>1. item # One("files")
    BY DEF One
  <2>2. CASE d \in Items
    BY <1>7, <2>1, <2>2, KindsOfItems DEF PlaceOf, Holder
  <2>3. ASSUME NEW h \in Holders, NEW b \in Blobs, d = Reference(h, b) PROVE FALSE
    <3>1. h[1] # "remnant"
      BY DEF Holders, Item
    <3> QED
      BY <1>7, <2>3, <3>1 DEF Reference, PlaceOf, Holder
  <2>4. ASSUME NEW f, d = <<"files", f>> PROVE FALSE
    BY <1>7, <2>1, <2>4 DEF PlaceOf
  <2> QED
    BY <2>2, <2>3, <2>4 DEF Abouts, Item
<1>8. /\ \A f \in ToSet(fs) : f.about = x /\ f.repaired = FALSE
      /\ \A f \in ToSet(fs) : f.repairable => Len(fs) = 1 /\ (x[1] = "checkpoint" => Headerless(x[2]))
  BY <1>1, <1>3 DEF Plainly
<1>9. /\ ToSet(fs) # {} /\ Settled(x) => Amiss(x) /\ PlaceOf(x) = item
      /\ Amiss(x) /\ Settled(x) /\ PlaceOf(x) = item => ToSet(fs) # {}
  BY <1>1, <1>3, <1>4, <1>5, <1>6 DEF Settled
<1> HIDE DEF item, x, fs
<1>10. Tells(item, fs)
  BY <1>1, <1>7, <1>8, <1>9, PlainTells
<1> QED
  BY <1>10 DEF item, fs

(* The findings about a holder: one for each blob it lost, and its own.     *)
LEMMA HolderTells ==
    ASSUME NEW item \in Holders, NEW refs \in Seq(Blobs), NEW places, places \subseteq DOMAIN refs,
           NEW tail, tail \in Seq(Findings), \A f \in ToSet(tail) : Plainly(f, item) /\ Lasting(f),
           item \notin changed => /\ ~(item[1] = "checkpoint" /\ Headerless(item[2]))
                                  /\ ToSet(tail) # {} <=> Amiss(item)
                                  /\ \A b \in Blobs : Amiss(Reference(item, b)) <=> \E p \in places : refs[p] = b
    PROVE  Tells(item, LostAt(item, refs, places) \o tail)
<1>0. /\ LostAt(item, refs, places) \in Seq(Findings)
      /\ ToSet(LostAt(item, refs, places)) = {LostFinding(item, refs[p]) : p \in places}
  <2>1. item \in Holders /\ refs \in Seq(Blobs) /\ places \subseteq DOMAIN refs
    OBVIOUS
  <2>2. LostAt(item, refs, places) \in Seq(Findings)
    BY <2>1, LostIsTyped
  <2>3. ToSet(LostAt(item, refs, places)) = {LostFinding(item, refs[p]) : p \in places}
    BY <2>1, LostIs
  <2> QED
    BY <2>2, <2>3
<1> DEFINE lost == LostAt(item, refs, places)  fs == lost \o tail
<1>1. item \in Items /\ item \in Abouts /\ item[1] # "reference"
  BY DEF Holders, Items, Item, Abouts
<1>2. /\ ToSet(fs) = ToSet(lost) \cup ToSet(tail)
      /\ ToSet(lost) = {Finding(Reference(item, refs[p]), "error", FALSE) : p \in places}
  <2> DEFINE told == {LostFinding(item, refs[p]) : p \in places}
  <2>1. lost \in Seq(Findings)
    BY <1>0
  <2>2. ToSet(lost) = told
    BY <1>0
  <2> HIDE DEF lost, told
  <2>3. ToSet(fs) = ToSet(lost) \cup ToSet(tail)
    BY <2>1, ToSetConcat
  <2>4. ToSet(fs) = ToSet(lost) \cup ToSet(tail) /\ ToSet(lost) = told
    BY <2>2, <2>3
  <2> QED
    BY <2>4, Zenon DEF told, LostFinding
<1>3. /\ Holder(item) = item
      /\ \A b : Holder(Reference(item, b)) = item /\ Reference(item, b) \notin Remains
  BY <1>1 DEF Holder, Reference, Remains, Item, One
<1>4. item \notin changed => PlaceOf(item) = item
  BY <1>1, PlaceOfItem
<1>5. ASSUME NEW f \in ToSet(lost)
      PROVE  \E p \in places : Plainly(f, Reference(item, refs[p])) /\ Lasting(f)
  <2>1. PICK p \in places : f = Finding(Reference(item, refs[p]), "error", FALSE)
    BY <1>2
  <2> QED
    BY <2>1 DEF Finding, Plainly, Lasting
<1>6. \A p \in places : refs[p] \in Blobs /\ \E f \in ToSet(lost) : f.about = Reference(item, refs[p])
  <2> TAKE p \in places
  <2>1. Finding(Reference(item, refs[p]), "error", FALSE) \in ToSet(lost)
    BY <1>2
  <2>2. Finding(Reference(item, refs[p]), "error", FALSE).about = Reference(item, refs[p])
    BY DEF Finding
  <2>3. refs[p] \in Blobs
    BY LenProperties
  <2> QED
    BY <2>1, <2>2, <2>3
<1> HIDE DEF lost, fs
<1>7. ASSUME NEW f \in ToSet(fs)
      PROVE  /\ ~f.repaired /\ ~f.repairable /\ (Settled(f.about) => Amiss(f.about))
             /\ Settled(f.about) /\ f.about \in Remains => PlaceOf(f.about) = item
  <2>1. CASE f \in ToSet(lost)
    <3>1. PICK p \in places : Plainly(f, Reference(item, refs[p])) /\ Lasting(f)
      BY <1>5, <2>1
    <3>2. Settled(f.about) => Amiss(f.about)
      BY <1>3, <1>6, <3>1 DEF Settled, Plainly
    <3> QED
      BY <1>3, <3>1, <3>2 DEF Plainly, Lasting
  <2>2. CASE f \in ToSet(tail)
    <3>1. Plainly(f, item) /\ Lasting(f)
      BY <2>2
    <3>2. Settled(f.about) => Amiss(f.about)
      BY <1>3, <2>2, <3>1 DEF Settled, Plainly
    <3> QED
      BY <1>3, <1>4, <3>1, <3>2 DEF Plainly, Lasting, Settled
  <2> QED
    BY <1>2, <2>1, <2>2
<1>8. ASSUME NEW d \in Abouts, Amiss(d), Settled(d), PlaceOf(d) = item PROVE \E f \in ToSet(fs) : f.about = d
  <2>1. CASE d = item
    <3>1. PICK f \in ToSet(tail) : TRUE
      BY <1>3, <1>8, <2>1 DEF Settled
    <3> QED
      BY <1>2, <2>1, <3>1 DEF Plainly
  <2>2. ASSUME NEW b \in Blobs, d = Reference(item, b) PROVE \E f \in ToSet(fs) : f.about = d
    <3>1. PICK p \in places : refs[p] = b
      BY <1>3, <1>8, <2>2 DEF Settled
    <3> QED
      BY <1>2, <1>6, <2>2, <3>1
  <2> QED
    BY <1>8, <2>1, <2>2, PlaceIsHeld
<1>9. Tells(item, fs)
  BY <1>7, <1>8 DEF Tells
<1> QED
  BY <1>9 DEF fs, lost

LEMMA HeldTells ==
    ASSUME NEW item \in Holders, NEW fs, \A f \in ToSet(fs) : Plainly(f, item) /\ Lasting(f), ToSet(fs) # {},
           item \notin changed => Amiss(item) /\ PlaceOf(item) = item,
           \A d \in Abouts : Amiss(d) /\ PlaceOf(d) = item => d = item
    PROVE  Tells(item, fs)
<1>1. item \in Abouts /\ Holder(item) = item
  BY DEF Holders, Items, Item, Abouts, Holder
<1>2. \A f \in ToSet(fs) : f.about = item /\ f.repaired = FALSE
  BY DEF Plainly
<1>3. \A f \in ToSet(fs) : ~f.repairable
  BY DEF Lasting
<1>4. Settled(item) => Amiss(item) /\ PlaceOf(item) = item
  BY <1>1 DEF Settled
<1> QED
  BY <1>1, <1>2, <1>3, <1>4, PlainTells

LEMMA RestoreTells ==
    ASSUME OthersFit, NEW u \in Records
    PROVE  Tells(<<"recovery", u>>, checkRestore(u))
<1> DEFINE item == <<"recovery", u>>  refs == Drained(u)
           lost == {i \in DOMAIN Drained(u) : Broken(Drained(u)[i], FALSE)}
           tail == IF store[item] # {} THEN Error(item) ELSE Passed
<1>1. /\ item \in Holders /\ item \in Items /\ item \in Abouts /\ item[1] = "recovery" /\ item[2] = u
      /\ item \notin changed
  <2>1. item \notin Changeable
    BY DEF Changeable, Item, One
  <2> QED
    BY <2>1 DEF Holders, Items, Item, Abouts, OthersFit
<1>2. store[item] \subseteq {"other format", "bad record", "torn", "bad scope"}
  <2>1. FaultsFit(item, store[item])
    BY <1>1 DEF OthersFit
  <2> QED
    BY <1>1, <2>1 DEF FaultsFit
<1>3. Amiss(item) <=> store[item] # {}
  BY <1>1, AmissIs, ThereUnless
<1>4. refs \in Seq(Blobs) /\ lost \subseteq DOMAIN refs
  BY DrainedIsOfBlobs
<1>5. \A b \in Blobs : Amiss(Reference(item, b)) <=>
         store[item] \subseteq {"torn", "bad scope"} /\ b \in ToSet(refs) /\ Broken(b, FALSE)
  BY AmissReference
<1>6. \A b : b \in ToSet(refs) /\ Broken(b, FALSE) <=> \E p \in lost : refs[p] = b
  BY DEF ToSet
<1>7. checkRestore(u) = IF "other format" \in store[item] THEN Warning(item)
                        ELSE IF "bad record" \in store[item] THEN Error(item) ELSE LostAt(item, refs, lost) \o tail
  BY DEF checkRestore
<1>8. /\ tail \in Seq(Findings) /\ \A f \in ToSet(tail) : Plainly(f, item) /\ Lasting(f)
      /\ ToSet(tail) # {} <=> store[item] # {}
  <2>1. Passed \in Seq(Findings) /\ Error(item) \in Seq(Findings)
    BY <1>1, OneFinding
  <2> QED
    BY <2>1, ShortLists
<1>9. CASE store[item] \subseteq {"torn", "bad scope"}
  <2>1. checkRestore(u) = LostAt(item, refs, lost) \o tail
    BY <1>7, <1>9
  <2> HIDE DEF item, refs, lost, tail
  <2>2. Tells(item, LostAt(item, refs, lost) \o tail)
    BY <1>1, <1>3, <1>4, <1>5, <1>6, <1>8, <1>9, HolderTells
  <2> QED
    BY <2>1, <2>2 DEF item
<1>10. CASE ~(store[item] \subseteq {"torn", "bad scope"})
  <2>1. checkRestore(u) \in {Warning(item), Error(item)}
    BY <1>2, <1>7, <1>10
  <2>2. \A f \in ToSet(checkRestore(u)) : Plainly(f, item) /\ Lasting(f)
    BY <2>1, ShortLists
  <2>3. ToSet(checkRestore(u)) # {}
    BY <2>1, ShortLists
  <2>4. Holder(item) = item /\ PlaceOf(item) = item /\ Amiss(item)
    BY <1>1, <1>3, <1>10, PlaceOfItem
  <2>5. \A d \in Abouts : Amiss(d) /\ PlaceOf(d) = item => d = item
    BY <1>1, <1>5, <1>10, PlaceIsHeld
  <2> HIDE DEF item
  <2>7. Tells(item, checkRestore(u))
    BY <1>1, <2>2, <2>3, <2>4, <2>5, HeldTells
  <2> QED
    BY <2>7 DEF item
<1> QED
  BY <1>9, <1>10

LEMMA CheckpointTells ==
    ASSUME DiagnosisTypes, OthersFit, VerifiedIsWhole, NEW c \in Checkpoints,
           <<"checkpoint", c>> \notin changed => (c \in doc.listed <=> ~Headerless(c) /\ ~NotThere(<<"checkpoint", c>>))
    PROVE  Tells(<<"checkpoint", c>>, checkOneCheckpoint(c))
<1> DEFINE item == <<"checkpoint", c>>  refs == Readable(c)  f == store[item]
           places == {i \in DOMAIN refs : refs[i] \notin doc.verified /\ Broken(refs[i], doc.strict)}
           tail == IF f \cap {"torn", "bad frontier"} # {} THEN Error(item) ELSE Passed
<1>1. /\ item \in Holders /\ item \in Items /\ item \in Abouts /\ item[1] = "checkpoint" /\ item[2] = c
      /\ Holder(item) = item
  BY DEF Holders, Items, Item, Abouts, Holder
<1>2. ASSUME item \notin changed
      PROVE  /\ f \subseteq CheckpointFaults
             /\ f \cap {"odd", "opaque"} # {} => "no header" \in f
             /\ c \in doc.listed <=> "no header" \notin f /\ "absent" \notin f
             /\ Amiss(item) <=> f # {} /\ "absent" \notin f
  <2>1. FaultsFit(item, f)
    BY <1>1, <1>2 DEF OthersFit
  <2>2. f \subseteq CheckpointFaults /\ (f \cap {"odd", "opaque"} # {} => "no header" \in f)
    BY <1>1, <2>1 DEF FaultsFit
  <2>3. Amiss(item) <=> f # {} /\ "absent" \notin f
    BY <1>1, <1>2, AmissIs DEF NotThere
  <2> QED
    BY <1>2, <2>2, <2>3 DEF Headerless, NotThere
<1>3. \A b \in Blobs : Amiss(Reference(item, b)) <=> f \cap Unopened = {} /\ b \in ToSet(refs) /\ Broken(b, doc.strict)
  BY AmissReference DEF Reachable
<1>4. refs \in Seq(Blobs) /\ places \subseteq DOMAIN refs
  BY ReadableIsOfBlobs
<1>5. \A b : b \in ToSet(refs) /\ Broken(b, doc.strict) <=> \E p \in places : refs[p] = b
  BY DEF ToSet, VerifiedIsWhole
<1>6. checkOneCheckpoint(c) = IF c \notin doc.listed THEN Passed
                              ELSE IF f \cap Unopened # {} THEN Error(item) ELSE LostAt(item, refs, places) \o tail
  BY DEF checkOneCheckpoint, verify
<1>7. /\ tail \in Seq(Findings) /\ \A g \in ToSet(tail) : Plainly(g, item) /\ Lasting(g)
      /\ ToSet(tail) # {} <=> f \cap {"torn", "bad frontier"} # {}
  <2>1. Passed \in Seq(Findings) /\ Error(item) \in Seq(Findings)
    BY <1>1, OneFinding
  <2> QED
    BY <2>1, ShortLists
<1>8. item \notin changed /\ c \in doc.listed => PlaceOf(item) = item
  BY <1>1, <1>2 DEF PlaceOf, Headerless
<1>9. CASE c \in doc.listed /\ f \cap Unopened = {}
  <2>1. checkOneCheckpoint(c) = LostAt(item, refs, places) \o tail
    BY <1>6, <1>9
  <2>2. item \notin changed => (f # {} /\ "absent" \notin f <=> f \cap {"torn", "bad frontier"} # {})
    BY <1>2, <1>9 DEF CheckpointFaults, Unopened
  <2>3. item \notin changed => ~Headerless(c)
    BY <1>9
  <2> HIDE DEF item, refs, places, tail, f
  <2>4. Tells(item, LostAt(item, refs, places) \o tail)
    BY <1>1, <1>2, <1>3, <1>4, <1>5, <1>7, <1>9, <2>2, <2>3, HolderTells
  <2> QED
    BY <2>1, <2>4 DEF item
<1>10. CASE c \in doc.listed /\ f \cap Unopened # {}
  <2>1. checkOneCheckpoint(c) = Error(item)
    BY <1>6, <1>10
  <2>2. (\A g \in ToSet(Error(item)) : Plainly(g, item) /\ Lasting(g)) /\ ToSet(Error(item)) # {}
    BY ShortLists
  <2>4. \A d \in Abouts : Amiss(d) /\ PlaceOf(d) = item => d = item
    BY <1>1, <1>3, <1>10, PlaceIsHeld
  <2>5. item \notin changed => Amiss(item) /\ PlaceOf(item) = item
    BY <1>2, <1>8, <1>10
  <2> HIDE DEF item, f
  <2>6. Tells(item, Error(item))
    BY <1>1, <2>2, <2>4, <2>5, HeldTells
  <2> QED
    BY <2>1, <2>6 DEF item
<1>11. CASE c \notin doc.listed
  <2>1. checkOneCheckpoint(c) = Passed /\ ToSet(Passed) = {}
    BY <1>6, <1>11, ShortLists
  <2>2. ASSUME NEW d \in Abouts, Amiss(d), Settled(d), PlaceOf(d) = item PROVE FALSE
    <3>1. CASE d = item /\ ~Headerless(c)
      BY <1>1, <1>2, <1>11, <2>2, <3>1 DEF Settled, Headerless
    <3>2. ASSUME NEW b \in Blobs, d = Reference(item, b) PROVE FALSE
      <4>1. Holder(d) = item
        BY <3>2 DEF Holder, Reference
      <4> QED
        BY <1>2, <1>3, <1>11, <2>2, <3>2, <4>1 DEF Settled, Unopened
    <3> QED
      BY <1>1, <2>2, <3>1, <3>2, PlaceIsHeld
  <2> HIDE DEF item
  <2>3. Tells(item, Passed)
    BY <2>1, <2>2 DEF Tells
  <2> QED
    BY <2>1, <2>3 DEF item
<1> QED
  BY <1>9, <1>10, <1>11

LEMMA FilesTells == Tells(One("files"), secretCaptureCandidates)
<1> DEFINE Of(fault) == IF \E n \in ToSet(RootFiles) : {"secret", fault} \subseteq store[<<"file", n>>]
                        THEN Warning(<<"files", fault>>) ELSE Passed
           fs == secretCaptureCandidates
<1>1. fs = Of("captured") \o Of("opaque")
  BY DEF secretCaptureCandidates
<1>2. \A fault \in {"captured", "opaque"} :
        /\ <<"files", fault>> \in Abouts /\ Of(fault) \in Seq(Findings)
        /\ ToSet(Of(fault)) # {} <=> Amiss(<<"files", fault>>)
        /\ \A f \in ToSet(Of(fault)) : Plainly(f, <<"files", fault>>) /\ Lasting(f)
  <2> TAKE fault \in {"captured", "opaque"}
  <2>1. <<"files", fault>> \in Abouts
    BY DEF Abouts, Item
  <2>2. Passed \in Seq(Findings) /\ Warning(<<"files", fault>>) \in Seq(Findings)
    BY <2>1, OneFinding
  <2>3. Amiss(<<"files", fault>>) <=> \E n \in ToSet(RootFiles) : {"secret", fault} \subseteq store[<<"file", n>>]
    BY AmissReference
  <2>4. CASE Amiss(<<"files", fault>>)
    <3>1. Of(fault) = Warning(<<"files", fault>>)
      BY <2>3, <2>4, Zenon
    <3> HIDE DEF Of
    <3> QED
      BY <2>1, <2>2, <2>4, <3>1, ShortLists
  <2>5. CASE ~Amiss(<<"files", fault>>)
    <3>1. Of(fault) = Passed
      BY <2>3, <2>5, Zenon
    <3> HIDE DEF Of
    <3> QED
      BY <2>1, <2>2, <2>5, <3>1, ShortLists
  <2> QED
    BY <2>4, <2>5
<1> HIDE DEF Of, fs
<1>3. ToSet(fs) = ToSet(Of("captured")) \cup ToSet(Of("opaque"))
  BY <1>1, <1>2, ToSetConcat
<1>4. ASSUME NEW f \in ToSet(fs)
      PROVE  /\ ~f.repaired /\ ~f.repairable /\ Amiss(f.about) /\ f.about \notin Remains
  <2>1. PICK fault \in {"captured", "opaque"} : f \in ToSet(Of(fault))
    BY <1>3
  <2>2. Plainly(f, <<"files", fault>>) /\ Lasting(f) /\ Amiss(<<"files", fault>>)
    BY <1>2, <2>1
  <2>3. <<"files", fault>> \notin Remains
    BY DEF Remains, Item, One
  <2> QED
    BY <2>2, <2>3 DEF Plainly, Lasting
<1>5. ASSUME NEW d \in Abouts, Amiss(d), PlaceOf(d) = One("files") PROVE \E f \in ToSet(fs) : f.about = d
  <2>1. CASE d \in Items
    BY <1>5, <2>1, KindsOfItems DEF PlaceOf, Holder, One
  <2>2. CASE d \in Item("files", {"captured", "opaque"})
    <3>1. PICK fault \in {"captured", "opaque"} : d = <<"files", fault>>
      BY <2>2 DEF Item
    <3>2. PICK f \in ToSet(Of(fault)) : TRUE
      BY <1>2, <1>5, <3>1
    <3>3. Plainly(f, d) /\ f \in ToSet(fs)
      BY <1>2, <1>3, <3>1, <3>2
    <3> QED
      BY <3>3 DEF Plainly
  <2>3. ASSUME NEW h \in Holders, NEW b \in Blobs, d = Reference(h, b) PROVE FALSE
    <3>1. h # One("files")
      BY DEF Holders, Item, One
    <3> QED
      BY <1>5, <2>3, <3>1 DEF Reference, PlaceOf, Holder
  <2> QED
    BY <2>1, <2>2, <2>3 DEF Abouts
<1>6. Tells(One("files"), fs)
  BY <1>4, <1>5 DEF Tells
<1> QED
  BY <1>6 DEF fs

(* Every check tells what it should.                                        *)
LEMMA CheckTells ==
    ASSUME DiagnosisTypes, OthersFit, VerifiedIsWhole, NEW item \in Seen,
           item[1] = "checkpoint" /\ item \notin changed =>
               (item[2] \in doc.listed <=> ~Headerless(item[2]) /\ ~NotThere(item))
    PROVE  Tells(item, Check(item))
<1>1. CASE item \in Item("remnant", Checkpoints)
  <2>1. PICK c \in Checkpoints : item = <<"remnant", c>>
    BY <1>1 DEF Item
  <2>2. Check(item) = checkHeaderless(c)
    BY <2>1 DEF Check
  <2> QED
    BY <2>1, <2>2, RemnantTells
<1>2. CASE item = One("files")
  <2>1. Check(item) = secretCaptureCandidates
    BY <1>2 DEF Check, One
  <2> QED
    BY <1>2, <2>1, FilesTells
<1>3. CASE item \in Items
  <2>1. item[1] \in {"dir", "checkpoint", "run", "recovery", "temp", "lock", "checkpoints", "runs", "restores",
                     "pointers", "index", "runs/tmp", "guard", "advice"}
    BY <1>3 DEF Seen, Items, Item, One
  <2>11. CASE item[1] = "pointers"
    BY <1>3, <2>11, PointersTell DEF Check
  <2>2. CASE item[1] \in {"dir", "checkpoints", "runs", "restores", "runs/tmp"}
    <3>1. Check(item) = checkLayout(item)
      BY <2>2 DEF Check
    <3> QED
      BY <1>3, <2>2, <3>1, LayoutTells
  <2>3. CASE item[1] = "checkpoint"
    <3>1. PICK c \in Checkpoints : item = <<"checkpoint", c>>
      BY <1>3, <2>3, KindsOfItems
    <3>2. Check(item) = checkOneCheckpoint(c)
      BY <3>1 DEF Check
    <3> QED
      BY <3>1, <3>2, CheckpointTells
  <2>4. CASE item[1] = "recovery"
    <3>1. PICK u \in Records : item = <<"recovery", u>>
      BY <1>3, <2>4, KindsOfItems
    <3>2. Check(item) = checkRestore(u)
      BY <3>1 DEF Check
    <3> QED
      BY <3>1, <3>2, RestoreTells
  <2>5. CASE item[1] = "run"
    BY <1>3, <2>5, RunTells DEF Check
  <2>6. CASE item[1] = "temp"
    BY <1>3, <2>6, TempTells DEF Check
  <2>7. CASE item[1] = "lock"
    BY <1>3, <2>7, LockTells DEF Check
  <2>8. CASE item[1] = "index"
    BY <1>3, <2>8, IndexTells DEF Check
  <2>9. CASE item[1] = "guard"
    BY <1>3, <2>9, GuardTells DEF Check
  <2>10. CASE item[1] = "advice"
    BY <1>3, <2>10, AdviceTells DEF Check
  <2> QED
    BY <2>1, <2>2, <2>3, <2>4, <2>5, <2>6, <2>7, <2>8, <2>9, <2>10, <2>11
<1> QED
  BY <1>1, <1>2, <1>3 DEF Seen, Inspected

LEMMA GrownList ==
    ASSUME NEW S, NEW s \in Seq(S), NEW t \in Seq(S)
    PROVE  /\ DOMAIN s \subseteq DOMAIN (s \o t)
           /\ \A i \in DOMAIN s : (s \o t)[i] = s[i]
           /\ \A i \in DOMAIN (s \o t) \ DOMAIN s : (s \o t)[i] \in ToSet(t)
           /\ \A f \in ToSet(t) : \E i \in DOMAIN (s \o t) \ DOMAIN s : (s \o t)[i] = f
           /\ Len(t) = 1 => \A i, j \in DOMAIN (s \o t) \ DOMAIN s : i = j
<1> DEFINE u == s \o t
<1>1. /\ u \in Seq(S) /\ Len(s) \in Nat /\ Len(t) \in Nat
      /\ DOMAIN s = 1..Len(s) /\ DOMAIN t = 1..Len(t) /\ DOMAIN u = 1..(Len(s) + Len(t))
      /\ \A i \in 1..(Len(s) + Len(t)) : u[i] = IF i <= Len(s) THEN s[i] ELSE t[i - Len(s)]
  BY ConcatProperties
<1> HIDE DEF u
<1>2. DOMAIN s \subseteq DOMAIN u /\ \A i \in DOMAIN s : u[i] = s[i]
  BY <1>1
<1>3. ASSUME NEW i \in DOMAIN u \ DOMAIN s PROVE u[i] \in ToSet(t)
  <2>1. i - Len(s) \in DOMAIN t /\ u[i] = t[i - Len(s)]
    BY <1>1
  <2> QED
    BY <2>1 DEF ToSet
<1>4. ASSUME NEW f \in ToSet(t) PROVE \E i \in DOMAIN u \ DOMAIN s : u[i] = f
  <2>1. PICK k \in DOMAIN t : t[k] = f
    BY DEF ToSet
  <2>2. k + Len(s) \in DOMAIN u \ DOMAIN s /\ u[k + Len(s)] = f
    BY <1>1, <2>1
  <2> QED
    BY <2>2
<1>5. Len(t) = 1 => \A i, j \in DOMAIN u \ DOMAIN s : i = j
  BY <1>1
<1> QED
  BY <1>2, <1>3, <1>4, <1>5 DEF u

(* What one inspection writes down. *)
LEMMA InspectDoes ==
    ASSUME DiagnosisInv, Inspect, NEW item, item = Inspection[doc.at]
    PROVE  /\ store' = store /\ changed' = changed /\ writer' = writer
           /\ doc.phase = "checking" /\ doc'.phase = "checking" /\ doc'.at = doc.at + 1
           /\ doc'.strict = doc.strict /\ doc'.withdrawn = doc.withdrawn
           /\ item \in Seen /\ doc.at \in 1..Len(Inspection)
           /\ \/ /\ Skipped(item[1], doc) /\ doc'.findings = doc.findings /\ doc'.closed = doc.closed
                 /\ doc'.listed = doc.listed /\ doc'.verified = doc.verified
              \/ /\ ~Skipped(item[1], doc) /\ doc'.findings = doc.findings \o Check(item)
                 /\ doc'.closed = IF item[1] \in Walks /\ store[item] # {} THEN doc.closed \cup {item[1]} ELSE doc.closed
                 /\ doc'.listed = IF item[1] = "checkpoints"
                                  THEN {c \in Checkpoints : ~Headerless(c) /\ ~NotThere(<<"checkpoint", c>>)}
                                  ELSE doc.listed
                 /\ doc'.verified = IF item[1] = "checkpoint" /\ item[2] \in doc.listed /\ store[item] \cap Unopened = {}
                                    THEN Verified(Readable(item[2]), doc.strict, doc.verified) ELSE doc.verified
<1>1. doc \in DocType /\ doc.phase = "checking" /\ UNCHANGED <<store, writer, changed>>
  BY DEF Inspect, DiagnosisInv, DiagnosisTypes
<1>2. doc.at \in 1..Len(Inspection) /\ item \in Seen
  <2>1. doc.at \in Nat \ {0} /\ doc.at <= Len(Inspection)
    BY <1>1 DEF Inspect, DocType
  <2>2. Inspection \in Seq(Seen)
    BY InspectionLists DEF Listing
  <2> QED
    BY <2>1, <2>2
<1> DEFINE closed == IF item[1] \in Walks /\ store[item] # {} THEN doc.closed \cup {item[1]} ELSE doc.closed
           listed == IF item[1] = "checkpoints"
                     THEN {c \in Checkpoints : ~Headerless(c) /\ ~NotThere(<<"checkpoint", c>>)} ELSE doc.listed
           verified == IF item[1] = "checkpoint" /\ item[2] \in doc.listed /\ store[item] \cap Unopened = {}
                       THEN Verified(Readable(item[2]), doc.strict, doc.verified) ELSE doc.verified
           found == doc.findings \o Check(item)
<1>3. IF Skipped(item[1], doc) THEN doc' = [doc EXCEPT !.at = doc.at + 1]
      ELSE doc' = [doc EXCEPT !.at = doc.at + 1, !.findings = found, !.closed = closed,
                              !.listed = listed, !.verified = verified]
  BY DEF Inspect, Walks
<1> HIDE DEF closed, listed, verified, found
<1>4. CASE Skipped(item[1], doc)
  <2>1. /\ doc'.findings = doc.findings /\ doc'.closed = doc.closed /\ doc'.listed = doc.listed
        /\ doc'.verified = doc.verified /\ doc'.phase = doc.phase /\ doc'.at = doc.at + 1
        /\ doc'.strict = doc.strict /\ doc'.withdrawn = doc.withdrawn
    BY <1>1, <1>3, <1>4 DEF DocType
  <2> QED
    BY <1>1, <1>2, <1>4, <2>1
<1>5. CASE ~Skipped(item[1], doc)
  <2>1. /\ doc'.findings = found /\ doc'.closed = closed /\ doc'.listed = listed
        /\ doc'.verified = verified /\ doc'.phase = doc.phase /\ doc'.at = doc.at + 1
        /\ doc'.strict = doc.strict /\ doc'.withdrawn = doc.withdrawn
    BY <1>1, <1>3, <1>5 DEF DocType
  <2> QED
    BY <1>1, <1>2, <1>5, <2>1 DEF closed, listed, verified, found
<1> QED
  BY <1>4, <1>5

LEMMA HiddenPlace ==
    ASSUME NEW d, NEW item, PlaceOf(d) = item, Skipped(item[1], doc)
    PROVE  Hidden(d)
<1>1. CASE d[1] = "files"
  BY <1>1 DEF PlaceOf, One, Skipped
<1>2. CASE d[1] = "checkpoint" /\ item = <<"remnant", d[2]>>
  BY <1>2 DEF Skipped, Hidden, Holder
<1>3. CASE item = Holder(d)
  BY <1>3 DEF Hidden
<1> QED
  BY <1>1, <1>2, <1>3 DEF PlaceOf

LEMMA PlacesAreSeen ==
    ASSUME NEW d \in Abouts, Amiss(d)
    PROVE  PlaceOf(d) \in Seen
<1>1. CASE d \in Items
  <2>1. d[1] \notin {"blob", "file"}
    BY <1>1, AmissItem DEF Harmless
  <2>2. d \in Seen
    BY <1>1, <2>1 DEF Seen, Inspected
  <2>3. d[1] = "checkpoint" => <<"remnant", d[2]>> \in Seen
    BY <1>1, KindsOfItems DEF Seen, Inspected, Item
  <2> QED
    BY <1>1, <2>2, <2>3, KindsOfItems DEF PlaceOf, Holder
<1>2. CASE d \in Item("files", {"captured", "opaque"})
  <2>1. One("files") \in Seen
    BY DEF Seen, Inspected, One
  <2> QED
    BY <1>2, <2>1 DEF PlaceOf, Item
<1>3. ASSUME NEW h \in Holders, NEW b \in Blobs, d = Reference(h, b) PROVE PlaceOf(d) \in Seen
  <2>1. h \in Seen
    BY DEF Holders, Item, Seen, Inspected, Items
  <2> QED
    BY <1>3, <2>1 DEF Reference, PlaceOf, Holder
<1> QED
  BY <1>1, <1>2, <1>3 DEF Abouts

(* Nothing but doctor's own bookkeeping moved. *)
LEMMA NothingMoved ==
    ASSUME store' = store, changed' = changed, doc'.strict = doc.strict
    PROVE  \A d \in Abouts : /\ Amiss(d)' <=> Amiss(d)
                             /\ PlaceOf(d)' = PlaceOf(d)
                             /\ Settled(d)' <=> Settled(d)
<1>1. \A d : StaysAs(d)
  BY DEF StaysAs
<1> QED
  BY <1>1, StillAmiss DEF Settled

LEMMA LookedNext ==
    ASSUME doc.phase = "checking", doc'.phase = "checking", doc'.at = doc.at + 1, doc.at \in 1..Len(Inspection)
    PROVE  \A x : (Looked(x)' <=> Looked(x) \/ x = Inspection[doc.at])
<1>1. Len(Inspection) \in Nat
  BY InspectionLists DEF Listing
<1>2. \A k \in 1..Len(Inspection) : k < doc.at + 1 <=> k < doc.at \/ k = doc.at
  BY <1>1
<1>3. \A x : Looked(x)' <=> \E k \in 1..Len(Inspection) : k < doc.at + 1 /\ Inspection[k] = x
  <2>1. \A x : Looked(x)' <=> (doc'.phase = "checking" => \E k \in 1..Len(Inspection) : k < doc'.at /\ Inspection[k] = x)
    BY DEF Looked
  <2> QED
    BY <2>1
<1>4. \A x : Looked(x) <=> \E k \in 1..Len(Inspection) : k < doc.at /\ Inspection[k] = x
  BY DEF Looked
<1> QED
  BY <1>2, <1>3, <1>4

LEMMA NotLookedYet ==
    ASSUME doc.phase = "checking", doc.at \in 1..Len(Inspection)
    PROVE  ~Looked(Inspection[doc.at])
<1>1. Len(Inspection) \in Nat /\ \A j, k \in 1..Len(Inspection) : Inspection[j] = Inspection[k] => j = k
  BY InspectionLists DEF Listing
<1>2. ASSUME NEW k \in 1..Len(Inspection), k < doc.at, Inspection[k] = Inspection[doc.at] PROVE FALSE
  BY <1>1, <1>2
<1> QED
  BY <1>2 DEF Looked

LEMMA AboutsAreTyped ==
    ASSUME doc \in DocType
    PROVE  /\ doc.findings \in Seq(Findings)
           /\ \A i \in DOMAIN doc.findings : doc.findings[i] \in Findings /\ About(i) \in Abouts
           /\ \A i \in DOMAIN doc.findings : doc.findings[i].repairable => About(i) \in Remains
  BY DEF DocType, Findings, About

(* Doctor looks at one more thing. *)
LEMMA InspectKeeps ==
    ASSUME DiagnosisInv, ReportInv, Inspect
    PROVE  ReportInv'
<1> DEFINE item == Inspection[doc.at]  old == doc.findings  new == doc'.findings  fs == Check(item)
           fresh == DOMAIN new \ DOMAIN old
<1>1. /\ store' = store /\ changed' = changed /\ writer' = writer
      /\ doc.phase = "checking" /\ doc'.phase = "checking" /\ doc'.at = doc.at + 1
      /\ doc'.strict = doc.strict /\ doc'.withdrawn = doc.withdrawn
      /\ item \in Seen /\ doc.at \in 1..Len(Inspection)
  BY InspectDoes
<1>2. \/ /\ Skipped(item[1], doc) /\ new = old /\ doc'.closed = doc.closed
         /\ doc'.listed = doc.listed /\ doc'.verified = doc.verified
      \/ /\ ~Skipped(item[1], doc) /\ new = old \o fs
         /\ doc'.closed = IF item[1] \in Walks /\ store[item] # {} THEN doc.closed \cup {item[1]} ELSE doc.closed
         /\ doc'.listed = IF item[1] = "checkpoints"
                          THEN {c \in Checkpoints : ~Headerless(c) /\ ~NotThere(<<"checkpoint", c>>)}
                          ELSE doc.listed
         /\ doc'.verified = IF item[1] = "checkpoint" /\ item[2] \in doc.listed /\ store[item] \cap Unopened = {}
                            THEN Verified(Readable(item[2]), doc.strict, doc.verified) ELSE doc.verified
  BY InspectDoes
<1>3. /\ DiagnosisTypes /\ OthersFit /\ doc \in DocType
      /\ Complete /\ Right /\ ClosedIsTold /\ VerifiedIsWhole /\ ListedIsThere /\ FoundByLooking
      /\ DueAlone /\ DueStands /\ WithdrawnIsChanged
  BY <1>1 DEF ReportInv, Faithful, Unrepaired, DiagnosisInv, DiagnosisTypes
<1>4. old \in Seq(Findings) /\ \A i \in DOMAIN old : About(i) \in Abouts /\ (old[i].repairable => About(i) \in Remains)
  BY <1>3, AboutsAreTyped
<1>5. fs \in Seq(Findings)
  BY <1>1, <1>3, CheckIsTyped DEF Seen
<1>6. \A d \in Abouts : (Amiss(d)' <=> Amiss(d)) /\ PlaceOf(d)' = PlaceOf(d) /\ (Settled(d)' <=> Settled(d))
  BY <1>1, NothingMoved
<1>7. \A x : (Looked(x)' <=> Looked(x) \/ x = item)
  BY <1>1, LookedNext
<1>8. ~Looked(item)
  BY <1>1, NotLookedYet
<1>9. item[1] = "checkpoint" => Looked(One("checkpoints")) /\ item \in Items /\ item[2] \in Checkpoints
                                /\ item = <<"checkpoint", item[2]>>
  <2> SUFFICES ASSUME item[1] = "checkpoint"
               PROVE  Looked(One("checkpoints")) /\ item \in Items /\ item[2] \in Checkpoints
                      /\ item = <<"checkpoint", item[2]>>
    OBVIOUS
  <2>1. One("checkpoints") \in Seen
    BY DEF Seen, Inspected, Items, One
  <2>2. PICK j \in 1..Len(Inspection) : Inspection[j] = One("checkpoints")
    BY <2>1, InspectionLists DEF Listing
  <2>3. j < doc.at
    BY <1>1, <2>2, InspectionLists DEF Listing
  <2>4. item \in Items
    BY <1>1 DEF Seen, Inspected, Item, One
  <2> QED
    BY <2>2, <2>3, <2>4, KindsOfItems DEF Looked
<1>10. Tells(item, fs)
  <2>1. item[1] = "checkpoint" /\ item \notin changed =>
               (item[2] \in doc.listed <=> ~Headerless(item[2]) /\ ~NotThere(item))
    BY <1>1, <1>3, <1>9 DEF ListedIsThere
  <2> QED
    BY <1>1, <1>3, <2>1, CheckTells
<1>11. /\ DOMAIN old \subseteq DOMAIN new
       /\ \A i \in DOMAIN old : new[i] = old[i]
       /\ \A i \in fresh : ~Skipped(item[1], doc) /\ new[i] \in ToSet(fs)
       /\ ~Skipped(item[1], doc) => \A f \in ToSet(fs) : \E i \in fresh : new[i] = f
       /\ Len(fs) = 1 => \A i, j \in fresh : i = j
  <2>1. CASE new = old \o fs /\ ~Skipped(item[1], doc)
    <3> HIDE DEF item, old, fs
    <3>1. /\ DOMAIN old \subseteq DOMAIN (old \o fs)
          /\ \A i \in DOMAIN old : (old \o fs)[i] = old[i]
          /\ \A i \in DOMAIN (old \o fs) \ DOMAIN old : (old \o fs)[i] \in ToSet(fs)
          /\ \A f \in ToSet(fs) : \E i \in DOMAIN (old \o fs) \ DOMAIN old : (old \o fs)[i] = f
          /\ Len(fs) = 1 => \A i, j \in DOMAIN (old \o fs) \ DOMAIN old : i = j
      BY <1>4, <1>5, GrownList
    <3> QED
      BY <2>1, <3>1, Zenon
  <2>2. CASE new = old /\ Skipped(item[1], doc)
    BY <2>2
  <2> QED
    BY <1>2, <2>1, <2>2
<1>12. doc.closed \subseteq doc'.closed
  BY <1>2
<1>13. \A f \in ToSet(fs) : f.about \in Abouts /\ (f.repairable => f.about \in Remains)
  BY <1>5 DEF ToSet, Findings
<1>14. doc.withdrawn \subseteq DOMAIN old
  BY <1>3 DEF WithdrawnIsChanged
<1> HIDE DEF item, old, new, fs, fresh
<1>15. Standing \subseteq Standing' /\ fresh \subseteq Standing' /\ Standing' \subseteq Standing \cup fresh
  BY <1>1, <1>11, <1>14 DEF Standing, old, new, fresh
<1>16. /\ \A i \in DOMAIN old : About(i)' = About(i)
       /\ \A i : About(i)' = new[i].about
  BY <1>11 DEF About, old, new
<1>17. OthersFit'
  BY <1>1, <1>3 DEF OthersFit
<1>18. Complete'
  <2> SUFFICES ASSUME NEW d \in Abouts, Amiss(d)', Settled(d)', ~Hidden(d)', Looked(PlaceOf(d))'
               PROVE  \E i \in Standing' : About(i)' = d
    BY DEF Complete
  <2>1. Amiss(d) /\ Settled(d) /\ PlaceOf(d)' = PlaceOf(d)
    BY <1>6
  <2>2. ~Hidden(d)
    BY <1>12 DEF Hidden, Skipped
  <2>3. CASE Looked(PlaceOf(d))
    <3>1. PICK i \in Standing : About(i) = d
      BY <1>3, <2>1, <2>2, <2>3 DEF Complete
    <3>2. About(i)' = About(i)
      BY <1>16 DEF Standing, old
    <3> QED
      BY <1>15, <3>1, <3>2
  <2>4. CASE PlaceOf(d) = item
    <3>1. ~Skipped(item[1], doc)
      BY <2>2, <2>4, HiddenPlace
    <3>2. PICK f \in ToSet(fs) : f.about = d
      BY <1>10, <2>1, <2>4 DEF Tells
    <3>3. PICK i \in fresh : new[i] = f
      BY <1>11, <3>1, <3>2
    <3> QED
      BY <1>15, <1>16, <3>2, <3>3
  <2> QED
    BY <1>7, <2>1, <2>3, <2>4
<1>19. Right'
  <2> SUFFICES ASSUME NEW i \in Standing', Settled(About(i))'
               PROVE  Amiss(About(i))' <=> ~new[i].repaired
    BY DEF Right, new
  <2>1. CASE i \in Standing
    <3>1. i \in DOMAIN old
      BY <2>1 DEF Standing, old
    <3>2. Settled(About(i)) /\ (Amiss(About(i))' <=> Amiss(About(i)))
      BY <1>4, <1>6, <1>16, <3>1
    <3> QED
      BY <1>3, <1>11, <2>1, <3>1, <3>2 DEF Right, old
  <2>2. CASE i \in fresh
    <3>1. new[i] \in ToSet(fs) /\ About(i)' = new[i].about
      BY <1>11, <1>16, <2>2
    <3>2. Settled(new[i].about) /\ (Amiss(About(i))' <=> Amiss(new[i].about))
      BY <1>6, <1>13, <3>1
    <3> QED
      BY <1>10, <3>1, <3>2 DEF Tells
  <2> QED
    BY <1>15, <2>1, <2>2
<1>20. ClosedIsTold'
  <2> SUFFICES ASSUME NEW k \in doc'.closed
               PROVE  \E i \in Standing' : ~new[i].repairable /\ ~new[i].repaired
    BY DEF ClosedIsTold, new
  <2>1. CASE k \in doc.closed
    <3>1. PICK i \in Standing : ~old[i].repairable /\ ~old[i].repaired
      BY <1>3, <2>1 DEF ClosedIsTold, old
    <3>2. new[i] = old[i]
      BY <1>11 DEF Standing, old
    <3> QED
      BY <1>15, <3>1, <3>2
  <2>2. CASE k \notin doc.closed
    <3>1. ~Skipped(item[1], doc) /\ item[1] \in Walks /\ store[item] # {}
      BY <1>2, <2>2
    <3>2. fs = Error(item)
      BY <3>1 DEF fs, Check, checkLayout, Walks
    <3>3. PICK f \in ToSet(fs) : Lasting(f)
      BY <3>2, ShortLists
    <3>4. ~f.repairable /\ ~f.repaired
      BY <1>10, <3>3 DEF Lasting, Tells
    <3>5. PICK i \in fresh : new[i] = f
      BY <1>11, <3>1, <3>3
    <3> QED
      BY <1>15, <3>4, <3>5
  <2> QED
    BY <2>1, <2>2
<1>21. VerifiedIsWhole'
  <2>1. ASSUME NEW b \in doc'.verified PROVE ~Broken(b, doc.strict)
    BY <1>2, <1>3 DEF VerifiedIsWhole, Verified
  <2> QED
    BY <1>1, <2>1 DEF VerifiedIsWhole, Broken
<1>22. ListedIsThere'
  <2> SUFFICES ASSUME Looked(One("checkpoints"))', NEW c \in Checkpoints, <<"checkpoint", c>> \notin changed
               PROVE  c \in doc'.listed <=> ~Headerless(c) /\ ~NotThere(<<"checkpoint", c>>)
    BY <1>1 DEF ListedIsThere, Headerless, NotThere
  <2>1. CASE item = One("checkpoints")
    <3>1. item[1] = "checkpoints" /\ ~Skipped(item[1], doc)
      BY <2>1 DEF One, Skipped
    <3> QED
      BY <1>2, <3>1
  <2>2. CASE item # One("checkpoints")
    <3>1. item[1] # "checkpoints"
      BY <1>1, <2>2 DEF Seen, Inspected, Items, Item, One
    <3>2. doc'.listed = doc.listed
      BY <1>2, <3>1
    <3> QED
      BY <1>1, <1>3, <1>7, <2>2, <3>2 DEF ListedIsThere
  <2> QED
    BY <2>1, <2>2
<1>23. FoundByLooking'
  <2> SUFFICES ASSUME NEW i \in DOMAIN new, Settled(About(i))', About(i)' \in Remains
               PROVE  Looked(PlaceOf(About(i)))'
    BY DEF FoundByLooking, new
  <2>1. CASE i \in DOMAIN old
    <3>1. About(i)' = About(i) /\ Settled(About(i)) /\ PlaceOf(About(i))' = PlaceOf(About(i))
      BY <1>4, <1>6, <1>16, <2>1
    <3>2. Looked(PlaceOf(About(i)))
      BY <1>1, <1>3, <2>1, <3>1 DEF FoundByLooking, old
    <3> QED
      BY <1>7, <3>1, <3>2
  <2>2. CASE i \in fresh
    <3>1. new[i] \in ToSet(fs) /\ About(i)' = new[i].about
      BY <1>11, <1>16, <2>2
    <3>2. Settled(new[i].about) /\ PlaceOf(About(i))' = PlaceOf(new[i].about)
      BY <1>6, <1>13, <3>1
    <3>3. PlaceOf(new[i].about) = item
      BY <1>10, <3>1, <3>2 DEF Tells
    <3> QED
      BY <1>7, <3>2, <3>3
  <2> QED
    BY <2>1, <2>2 DEF fresh
<1>24. ASSUME NEW i \in DOMAIN new, new[i].repairable, NEW j \in DOMAIN new, i # j, Settled(About(i))', About(i)' = About(j)'
       PROVE  i \in DOMAIN old /\ j \in DOMAIN old
  <2>1. About(i)' \in Remains
    <3>1. CASE i \in DOMAIN old
      BY <1>4, <1>11, <1>16, <1>24, <3>1
    <3>2. CASE i \in fresh
      BY <1>11, <1>13, <1>16, <1>24, <3>2
    <3> QED
      BY <3>1, <3>2 DEF fresh
  <2>2. ASSUME NEW k \in DOMAIN old, About(k)' = About(i)'
        PROVE  Looked(PlaceOf(About(i)'))
    <3>1. About(k)' = About(k) /\ Settled(About(k))
      BY <1>4, <1>6, <1>16, <1>24, <2>2
    <3> QED
      BY <1>1, <1>3, <2>1, <2>2, <3>1 DEF FoundByLooking, old
  <2>3. ASSUME NEW k \in fresh, About(k)' = About(i)'
        PROVE  PlaceOf(About(i)') = item
    <3>1. new[k] \in ToSet(fs) /\ About(k)' = new[k].about
      BY <1>11, <1>16
    <3>2. Settled(new[k].about) /\ new[k].about \in Remains
      BY <1>6, <1>13, <1>24, <2>1, <2>3, <3>1
    <3> QED
      BY <1>10, <2>3, <3>1, <3>2 DEF Tells
  <2>4. ~(i \in fresh /\ j \in fresh)
    <3>1. i \in fresh => Len(fs) = 1
      BY <1>10, <1>11, <1>24 DEF Tells
    <3> QED
      BY <1>11, <1>24, <3>1
  <2> QED
    BY <1>8, <1>24, <2>2, <2>3, <2>4 DEF fresh
<1>25. DueAlone'
  <2> SUFFICES ASSUME NEW i \in DOMAIN new, NEW j \in DOMAIN new, Due(i)', i # j, Settled(About(i))', About(i)' = About(j)'
               PROVE  FALSE
    BY DEF DueAlone, new
  <2>1. new[i].repairable
    BY DEF Due, new
  <2>2. i \in DOMAIN old /\ j \in DOMAIN old
    BY <1>24, <2>1
  <2>3. Due(i) /\ Settled(About(i)) /\ About(i) = About(j)
    BY <1>1, <1>4, <1>6, <1>11, <1>16, <2>1, <2>2 DEF Due, old
  <2> QED
    BY <1>3, <2>2, <2>3 DEF DueAlone, old
<1>26. DueStands'
  <2> SUFFICES ASSUME NEW i \in DOMAIN new, Due(i)'
               PROVE  /\ ~new[i].repaired /\ i \notin doc.withdrawn
                      /\ About(i)'[1] = "checkpoint" /\ Settled(About(i))' => Headerless(About(i)'[2])
    BY <1>1 DEF DueStands, new, Headerless
  <2>1. new[i].repairable
    BY DEF Due, new
  <2>2. CASE i \in DOMAIN old
    <3>1. Due(i) /\ About(i)' = About(i) /\ (Settled(About(i))' => Settled(About(i)))
      BY <1>1, <1>4, <1>6, <1>11, <1>16, <2>1, <2>2 DEF Due, old
    <3> QED
      BY <1>3, <1>11, <2>2, <3>1 DEF DueStands, old
  <2>3. CASE i \in fresh
    <3>1. new[i] \in ToSet(fs) /\ About(i)' = new[i].about
      BY <1>11, <1>16, <2>3
    <3> QED
      BY <1>10, <1>14, <2>1, <2>3, <3>1 DEF Tells, fresh
  <2> QED
    BY <2>2, <2>3 DEF fresh
<1>27. WithdrawnIsChanged'
  <2>1. \A i \in doc.withdrawn : i \in DOMAIN new /\ ~Settled(About(i))'
    BY <1>3, <1>4, <1>6, <1>11, <1>14, <1>16 DEF WithdrawnIsChanged
  <2> QED
    BY <1>1, <2>1 DEF WithdrawnIsChanged, new
<1> QED
  BY <1>1, <1>17, <1>18, <1>19, <1>20, <1>21, <1>22, <1>23, <1>25, <1>26, <1>27 DEF ReportInv, Faithful, Unrepaired

(* What others do reaches nothing but what they are then said to have       *)
(* changed.                                                                 *)
LEMMA OthersLeave ==
    ASSUME OthersFit, OthersNext
    PROVE  /\ doc' = doc /\ doc.phase \in {"checking", "waiting", "repairing"}
           /\ writer' \subseteq changed' /\ changed \subseteq changed' /\ changed' \subseteq Changeable
           /\ \A i \in Items \ changed' : store'[i] = store[i]
<1>1. doc' = doc /\ doc.phase \in {"checking", "waiting", "repairing"}
  BY DEF OthersNext, WriterBegins, WriterCommits, WriterDies, Age, Forget, Rescan, InitAgain, Change, Unfinished
<1>2. ASSUME NEW items, items \subseteq Changeable, changed' = changed \cup items,
             writer' \subseteq items \cup writer, \A i \in Items : i \notin items => store'[i] = store[i]
      PROVE  /\ writer' \subseteq changed' /\ changed \subseteq changed' /\ changed' \subseteq Changeable
             /\ \A i \in Items \ changed' : store'[i] = store[i]
  BY <1>2 DEF OthersFit
<1>3. CASE WriterBegins
  <2>1. PICK c \in Checkpoints, t \in Temps, l \in Locks \ Exclusive :
          /\ writer' = {<<"checkpoint", c>>, <<"temp", t>>, <<"lock", l>>}
          /\ store' = [i \in Items |-> IF i \in writer' THEN Begun(i) ELSE store[i]]
          /\ changed' = changed \cup writer'
    BY <1>3 DEF WriterBegins, Change
  <2>2. writer' \subseteq Changeable
    BY <2>1 DEF Changeable, Item
  <2>3. \A i \in Items : i \notin writer' => store'[i] = store[i]
    BY <2>1
  <2> QED
    BY <1>1, <1>2, <2>1, <2>2, <2>3
<1>4. CASE WriterCommits
  <2>1. /\ writer' = {} /\ changed' = changed \cup writer
        /\ store' = [i \in Items |-> IF i \in writer THEN {} ELSE store[i]]
    BY <1>4 DEF WriterCommits, Change
  <2>2. writer \subseteq Changeable /\ \A i \in Items : i \notin writer => store'[i] = store[i]
    BY <2>1 DEF OthersFit
  <2> QED
    BY <1>1, <1>2, <2>1, <2>2
<1>5. CASE WriterDies
  <2>1. /\ writer' = {} /\ changed' = changed \cup writer
        /\ store' = [i \in Items |-> IF i \in writer THEN (IF i[1] = "lock" THEN {"stale"} ELSE store[i]) ELSE store[i]]
    BY <1>5 DEF WriterDies, Change
  <2>2. writer \subseteq Changeable /\ \A i \in Items : i \notin writer => store'[i] = store[i]
    BY <2>1 DEF OthersFit
  <2> QED
    BY <1>1, <1>2, <2>1, <2>2
<1>6. ASSUME NEW item \in Changeable, NEW what, writer' = writer, changed' = changed \cup {item},
             store' = [i \in Items |-> IF i \in {item} THEN what ELSE store[i]]
      PROVE  /\ writer' \subseteq changed' /\ changed \subseteq changed' /\ changed' \subseteq Changeable
             /\ \A i \in Items \ changed' : store'[i] = store[i]
  <2>1. \A i \in Items : i \notin {item} => store'[i] = store[i]
    BY <1>6
  <2> QED
    BY <1>2, <1>6, <2>1
<1>7. CASE \E t \in Temps : Age(t)
  <2>1. PICK t \in Temps : /\ writer' = writer /\ changed' = changed \cup {<<"temp", t>>}
                           /\ store' = [i \in Items |-> IF i \in {<<"temp", t>>} THEN {"old"} ELSE store[i]]
    BY <1>7 DEF Age, Change
  <2>2. <<"temp", t>> \in Changeable
    BY DEF Changeable, Item
  <2> QED
    BY <1>1, <1>6, <2>1, <2>2
<1>8. CASE \E c \in Checkpoints : Forget(c)
  <2>1. PICK c \in Checkpoints : /\ writer' = writer /\ changed' = changed \cup {<<"checkpoint", c>>}
                                 /\ store' = [i \in Items |-> IF i \in {<<"checkpoint", c>>} THEN Gone ELSE store[i]]
    BY <1>8 DEF Forget, Change
  <2>2. <<"checkpoint", c>> \in Changeable
    BY DEF Changeable, Item
  <2> QED
    BY <1>1, <1>6, <2>1, <2>2
<1>9. CASE Rescan
  <2>1. /\ writer' = writer /\ changed' = changed \cup {One("index")}
        /\ store' = [i \in Items |-> IF i \in {One("index")} THEN {} ELSE store[i]]
    BY <1>9 DEF Rescan, Change
  <2>2. One("index") \in Changeable
    BY DEF Changeable
  <2> QED
    BY <1>1, <1>6, <2>1, <2>2
<1>10. CASE InitAgain
  <2>1. /\ writer' = writer /\ changed' = changed \cup {One("guard")}
        /\ store' = [i \in Items |-> IF i \in {One("guard")} THEN {} ELSE store[i]]
    BY <1>10 DEF InitAgain, Change
  <2>2. One("guard") \in Changeable
    BY DEF Changeable
  <2> QED
    BY <1>1, <1>6, <2>1, <2>2
<1> QED
  BY <1>3, <1>4, <1>5, <1>7, <1>8, <1>9, <1>10 DEF OthersNext

(* What is said of settled things stays so whatever others do. *)
LEMMA OthersKeepReport ==
    ASSUME DiagnosisInv, ReportInv, OthersNext
    PROVE  ReportInv'
<1>1. OthersFit
  BY DEF ReportInv
<1>2. /\ doc' = doc /\ doc.phase \in {"checking", "waiting", "repairing"}
      /\ writer' \subseteq changed' /\ changed \subseteq changed' /\ changed' \subseteq Changeable
      /\ \A i \in Items \ changed' : store'[i] = store[i]
  BY <1>1, OthersLeave
<1>3. /\ doc \in DocType /\ Complete /\ Right /\ ClosedIsTold /\ VerifiedIsWhole /\ ListedIsThere /\ FoundByLooking
      /\ DueAlone /\ DueStands /\ WithdrawnIsChanged
  BY <1>2 DEF ReportInv, Faithful, Unrepaired, DiagnosisInv, DiagnosisTypes
<1>4. \A i \in DOMAIN doc.findings : About(i) \in Abouts
  BY <1>3, AboutsAreTyped
<1>5. /\ \A b \in Blobs : store'[<<"blob", b>>] = store[<<"blob", b>>]
      /\ \A n \in ToSet(RootFiles) : store'[<<"file", n>>] = store[<<"file", n>>]
  <2>1. \A b \in Blobs : <<"blob", b>> \in Items \ Changeable
    BY DEF Items, Changeable, Item, One
  <2>2. \A n \in ToSet(RootFiles) : <<"file", n>> \in Items \ Changeable
    BY DEF Items, Changeable, Item, One
  <2> QED
    BY <1>2, <2>1, <2>2
<1>6. ASSUME NEW d \in Abouts, Settled(d)'
      PROVE  Settled(d) /\ (Amiss(d)' <=> Amiss(d)) /\ PlaceOf(d)' = PlaceOf(d)
  <2>1. Holder(d) \notin changed'
    BY <1>6 DEF Settled
  <2>2. Settled(d)
    BY <1>2, <2>1 DEF Settled
  <2>3. StaysAs(d)
    BY <1>2, <1>5, <2>1 DEF StaysAs
  <2> QED
    BY <2>2, <2>3, StillAmiss
<1>7. Standing' = Standing /\ \A i : About(i)' = About(i)
  BY <1>2 DEF Standing, About
<1>8. \A x : (Hidden(x)' <=> Hidden(x)) /\ (Looked(x)' <=> Looked(x))
  BY <1>2 DEF Hidden, Looked
<1>9. OthersFit'
  BY <1>1, <1>2 DEF OthersFit
<1>10. Complete'
  <2> SUFFICES ASSUME NEW d \in Abouts, Amiss(d)', Settled(d)', ~Hidden(d)', Looked(PlaceOf(d))'
               PROVE  \E i \in Standing' : About(i)' = d
    BY DEF Complete
  <2>1. Amiss(d) /\ Settled(d) /\ PlaceOf(d)' = PlaceOf(d)
    BY <1>6
  <2> QED
    BY <1>3, <1>7, <1>8, <2>1 DEF Complete
<1>11. Right'
  <2> SUFFICES ASSUME NEW i \in Standing, Settled(About(i))'
               PROVE  Amiss(About(i))' <=> ~doc.findings[i].repaired
    BY <1>2, <1>7 DEF Right
  <2>1. Settled(About(i)) /\ (Amiss(About(i))' <=> Amiss(About(i)))
    BY <1>4, <1>6, <1>7 DEF Standing
  <2> QED
    BY <1>3, <2>1 DEF Right
<1>12. ClosedIsTold'
  BY <1>2, <1>3, <1>7 DEF ClosedIsTold
<1>13. VerifiedIsWhole'
  <2>1. doc.verified \subseteq Blobs
    BY <1>3 DEF DocType
  <2> QED
    BY <1>2, <1>3, <1>5, <2>1 DEF VerifiedIsWhole, Broken
<1>14. ListedIsThere'
  <2>1. ASSUME NEW c \in Checkpoints, <<"checkpoint", c>> \notin changed'
        PROVE  store'[<<"checkpoint", c>>] = store[<<"checkpoint", c>>] /\ <<"checkpoint", c>> \notin changed
    <3>1. <<"checkpoint", c>> \in Items
      BY DEF Items, Item
    <3> QED
      BY <1>2, <2>1, <3>1
  <2> QED
    BY <1>2, <1>3, <1>8, <2>1 DEF ListedIsThere, Headerless, NotThere
<1>15. FoundByLooking'
  <2> SUFFICES ASSUME doc.phase = "checking", NEW i \in DOMAIN doc.findings, Settled(About(i))', About(i) \in Remains
               PROVE  Looked(PlaceOf(About(i)))'
    BY <1>2, <1>7 DEF FoundByLooking
  <2>1. Settled(About(i)) /\ PlaceOf(About(i))' = PlaceOf(About(i))
    BY <1>4, <1>6, <1>7
  <2> QED
    BY <1>3, <1>8, <2>1 DEF FoundByLooking
<1>16. \A i : Due(i)' <=> Due(i)
  BY <1>2 DEF Due
<1>17. DueAlone'
  <2> SUFFICES ASSUME NEW i \in DOMAIN doc.findings, NEW j \in DOMAIN doc.findings, Due(i), i # j, Settled(About(i))'
               PROVE  About(i) # About(j)
    BY <1>2, <1>7, <1>16 DEF DueAlone
  <2>1. Settled(About(i))
    BY <1>4, <1>6, <1>7
  <2> QED
    BY <1>3, <2>1 DEF DueAlone
<1>18. DueStands'
  <2> SUFFICES ASSUME NEW i \in DOMAIN doc.findings, Due(i)
               PROVE  /\ ~doc.findings[i].repaired /\ i \notin doc.withdrawn
                      /\ About(i)[1] = "checkpoint" /\ Settled(About(i))' => Headerless(About(i)[2])'
    BY <1>2, <1>7, <1>16 DEF DueStands, Headerless
  <2>1. ASSUME About(i)[1] = "checkpoint", Settled(About(i))' PROVE Headerless(About(i)[2])'
    <3>1. Settled(About(i)) /\ PlaceOf(About(i))' = PlaceOf(About(i))
      BY <1>4, <1>6, <1>7, <2>1
    <3>2. Headerless(About(i)[2])
      BY <1>3, <2>1, <3>1 DEF DueStands
    <3>3. About(i) = <<"checkpoint", About(i)[2]>> /\ About(i) \in Items
      <4>1. About(i) \in Abouts
        BY <1>4
      <4> QED
        BY <2>1, <4>1, KindsOfItems DEF Abouts, Item, Reference
    <3>4. About(i) \notin changed'
      BY <1>7, <2>1, <3>3 DEF Settled, Holder
    <3>5. store'[About(i)] = store[About(i)]
      BY <1>2, <3>3, <3>4
    <3>6. Headerless(About(i)[2])' <=> "no header" \in store'[<<"checkpoint", About(i)'[2]>>]
      BY DEF Headerless
    <3>7. About(i)' = About(i)
      BY <1>7
    <3>8. <<"checkpoint", About(i)'[2]>> = About(i)
      BY <3>3, <3>7
    <3>9. "no header" \in store[About(i)]
      BY <3>2, <3>3 DEF Headerless
    <3> QED
      BY <3>5, <3>6, <3>8, <3>9
  <2> QED
    BY <1>3, <2>1 DEF DueStands
<1>19. WithdrawnIsChanged'
  <2>1. \A i \in doc.withdrawn : i \in DOMAIN doc.findings /\ ~Settled(About(i))'
    BY <1>3, <1>4, <1>6, <1>7 DEF WithdrawnIsChanged
  <2> QED
    BY <1>2, <2>1 DEF WithdrawnIsChanged
<1> QED
  BY <1>9, <1>10, <1>11, <1>12, <1>13, <1>14, <1>15, <1>17, <1>18, <1>19 DEF ReportInv, Faithful, Unrepaired

LEMMA ReportBegins == DoctorInit => ReportInv
<1> SUFFICES ASSUME DoctorInit PROVE ReportInv
  OBVIOUS
<1>1. writer = {} /\ changed = {} /\ \A i \in Items : FaultsFit(i, store[i])
  BY DiagnosisAssumption DEF DoctorInit
<1>2. /\ doc.phase = "checking" /\ doc.at = 1 /\ doc.closed = {} /\ doc.verified = {}
      /\ doc.findings = <<>> /\ doc.withdrawn = {}
  BY DEF DoctorInit
<1>3. \A x : ~Looked(x)
  BY <1>2 DEF Looked
<1>4. DOMAIN doc.findings = {} /\ Standing = {}
  BY <1>2 DEF Standing
<1>5. OthersFit
  BY <1>1 DEF OthersFit
<1>6. Complete /\ Right /\ ClosedIsTold
  BY <1>2, <1>3, <1>4 DEF Complete, Right, ClosedIsTold
<1>7. VerifiedIsWhole /\ ListedIsThere /\ FoundByLooking
  BY <1>2, <1>3, <1>4 DEF VerifiedIsWhole, ListedIsThere, FoundByLooking
<1>8. DueAlone /\ DueStands /\ WithdrawnIsChanged
  BY <1>2, <1>4 DEF DueAlone, DueStands, WithdrawnIsChanged
<1> QED
  BY <1>5, <1>6, <1>7, <1>8 DEF ReportInv, Faithful, Unrepaired

(* Once everything has been looked at, doctor's own turns change nothing    *)
(* that is told.                                                            *)
LEMMA TurnKeeps ==
    ASSUME ReportInv, doc \in DocType, store' = store, changed' = changed, writer' = writer,
           doc.phase \in {"checking", "waiting", "repairing"}, doc'.phase # "checking",
           doc'.findings = doc.findings, doc'.closed = doc.closed, doc'.verified = doc.verified,
           doc'.strict = doc.strict, doc'.withdrawn = doc.withdrawn,
           \A x \in Seen : Looked(x), \A i : Due(i)' => Due(i)
    PROVE  ReportInv'
<1>1. /\ OthersFit /\ Complete /\ Right /\ ClosedIsTold /\ VerifiedIsWhole /\ DueAlone /\ DueStands /\ WithdrawnIsChanged
  BY DEF ReportInv, Faithful, Unrepaired
<1>2. \A i \in DOMAIN doc.findings : About(i) \in Abouts
  BY AboutsAreTyped
<1>3. \A d \in Abouts : (Amiss(d)' <=> Amiss(d)) /\ (Settled(d)' <=> Settled(d))
  BY NothingMoved
<1>4. Standing' = Standing /\ \A i : About(i)' = About(i)
  BY DEF Standing, About
<1>5. OthersFit'
  BY <1>1 DEF OthersFit
<1>6. Complete'
  <2> SUFFICES ASSUME NEW d \in Abouts, Amiss(d)', Settled(d)', ~Hidden(d)'
               PROVE  \E i \in Standing' : About(i)' = d
    BY DEF Complete
  <2>1. Amiss(d) /\ Settled(d) /\ ~Hidden(d)
    BY <1>3 DEF Hidden, Skipped
  <2>2. Looked(PlaceOf(d))
    BY <2>1, PlacesAreSeen
  <2> QED
    BY <1>1, <1>4, <2>1, <2>2 DEF Complete
<1>7. Right'
  <2> SUFFICES ASSUME NEW i \in Standing, Settled(About(i))'
               PROVE  Amiss(About(i))' <=> ~doc.findings[i].repaired
    BY <1>4 DEF Right
  <2>1. Settled(About(i)) /\ (Amiss(About(i))' <=> Amiss(About(i)))
    BY <1>2, <1>3, <1>4 DEF Standing
  <2> QED
    BY <1>1, <2>1 DEF Right
<1>8. ClosedIsTold'
  BY <1>1, <1>4 DEF ClosedIsTold
<1>9. VerifiedIsWhole'
  BY <1>1 DEF VerifiedIsWhole, Broken
<1>10. ListedIsThere' /\ FoundByLooking'
  BY DEF ListedIsThere, FoundByLooking
<1>11. DueAlone'
  <2> SUFFICES ASSUME NEW i \in DOMAIN doc.findings, NEW j \in DOMAIN doc.findings, Due(i), i # j, Settled(About(i))'
               PROVE  About(i) # About(j)
    BY <1>4 DEF DueAlone
  <2>1. Settled(About(i))
    BY <1>2, <1>3, <1>4
  <2> QED
    BY <1>1, <2>1 DEF DueAlone
<1>12. DueStands'
  <2> SUFFICES ASSUME NEW i \in DOMAIN doc.findings, Due(i)
               PROVE  /\ ~doc.findings[i].repaired /\ i \notin doc.withdrawn
                      /\ About(i)[1] = "checkpoint" /\ Settled(About(i))' => Headerless(About(i)[2])
    BY <1>4 DEF DueStands, Headerless
  <2>1. Settled(About(i))' => Settled(About(i))
    BY <1>2, <1>3, <1>4
  <2> QED
    BY <1>1, <2>1 DEF DueStands
<1>13. WithdrawnIsChanged'
  <2>1. \A i \in doc.withdrawn : i \in DOMAIN doc.findings /\ ~Settled(About(i))'
    BY <1>1, <1>2, <1>3, <1>4 DEF WithdrawnIsChanged
  <2> QED
    BY <2>1 DEF WithdrawnIsChanged
<1> QED
  BY <1>5, <1>6, <1>7, <1>8, <1>9, <1>10, <1>11, <1>12, <1>13 DEF ReportInv, Faithful, Unrepaired

LEMMA DiagnosedKeeps ==
    ASSUME DiagnosisInv, ReportInv, Diagnosed
    PROVE  ReportInv'
<1>1. doc \in DocType /\ doc.phase = "checking" /\ doc.at > Len(Inspection) /\ UNCHANGED <<store, writer, changed>>
  BY DEF Diagnosed, DiagnosisInv, DiagnosisTypes
<1>2. PICK phase \in {"interrupted", "waiting", "reported"} : doc' = [doc EXCEPT !.phase = phase]
  BY DEF Diagnosed
<1>3. /\ doc'.phase = phase /\ doc'.findings = doc.findings /\ doc'.closed = doc.closed
      /\ doc'.verified = doc.verified /\ doc'.strict = doc.strict /\ doc'.withdrawn = doc.withdrawn
  BY <1>1, <1>2 DEF DocType
<1>4. \A x \in Seen : Looked(x)
  <2> TAKE x \in Seen
  <2>1. PICK k \in 1..Len(Inspection) : Inspection[k] = x
    BY InspectionLists DEF Listing
  <2>2. Len(Inspection) \in Nat /\ doc.at \in Nat
    BY <1>1, InspectionLists DEF Listing, DocType
  <2>3. k < doc.at
    BY <1>1, <2>1, <2>2
  <2> QED
    BY <2>1, <2>3 DEF Looked
<1>5. \A i : Due(i)' => Due(i)
  BY <1>1, <1>3 DEF Due
<1> QED
  BY <1>1, <1>3, <1>4, <1>5, TurnKeeps

LEMMA AcquireKeeps ==
    ASSUME DiagnosisInv, ReportInv, AcquireExclusive
    PROVE  ReportInv'
<1>1. doc \in DocType /\ doc.phase = "waiting" /\ UNCHANGED <<store, writer, changed>>
  BY DEF AcquireExclusive, DiagnosisInv, DiagnosisTypes
<1>2. \/ doc' = [doc EXCEPT !.phase = "repairing", !.at = 1, !.last = Len(doc.findings)]
      \/ doc' = [doc EXCEPT !.phase = "timed out"]
  BY DEF AcquireExclusive
<1>3. /\ doc'.phase \in {"repairing", "timed out"} /\ doc'.findings = doc.findings /\ doc'.closed = doc.closed
      /\ doc'.verified = doc.verified /\ doc'.strict = doc.strict /\ doc'.withdrawn = doc.withdrawn
  <2>1. CASE doc' = [doc EXCEPT !.phase = "repairing", !.at = 1, !.last = Len(doc.findings)]
    BY <1>1, <2>1 DEF DocType
  <2>2. CASE doc' = [doc EXCEPT !.phase = "timed out"]
    BY <1>1, <2>2 DEF DocType
  <2> QED
    BY <1>2, <2>1, <2>2
<1>4. \A x \in Seen : Looked(x)
  BY <1>1 DEF Looked
<1>5. \A i : Due(i)' => Due(i)
  BY <1>1, <1>3 DEF Due
<1> QED
  BY <1>1, <1>3, <1>4, <1>5, TurnKeeps

LEMMA ReportKeeps ==
    ASSUME DiagnosisInv, ReportInv, Report
    PROVE  ReportInv'
<1>1. doc \in DocType /\ doc.phase = "repairing" /\ UNCHANGED <<store, writer, changed>>
  BY DEF Report, DiagnosisInv, DiagnosisTypes
<1> DEFINE kept == [i \in DOMAIN doc.findings \ doc.withdrawn |-> doc.findings[i]]
<1>2. doc' = [doc EXCEPT !.phase = "reported", !.findings = kept]
  BY DEF Report
<1> HIDE DEF kept
<1>3. /\ doc'.phase = "reported" /\ doc'.findings = kept /\ doc'.closed = doc.closed
      /\ doc'.strict = doc.strict /\ doc'.withdrawn = doc.withdrawn
  BY <1>1, <1>2 DEF DocType
<1>4. OthersFit /\ Complete /\ Right /\ ClosedIsTold
  BY <1>1 DEF ReportInv, Faithful
<1>5. DOMAIN kept = Standing /\ \A i \in Standing : kept[i] = doc.findings[i]
  BY DEF kept, Standing
<1>6. Standing' = Standing /\ \A i \in Standing : doc'.findings[i] = doc.findings[i] /\ About(i)' = About(i)
  BY <1>3, <1>5 DEF Standing, About
<1>7. \A d \in Abouts : (Amiss(d)' <=> Amiss(d)) /\ (Settled(d)' <=> Settled(d))
  BY <1>1, <1>3, NothingMoved
<1>8. \A i \in DOMAIN doc.findings : About(i) \in Abouts
  BY <1>1, AboutsAreTyped
<1>9. OthersFit'
  BY <1>1, <1>4 DEF OthersFit
<1>10. Complete'
  <2> SUFFICES ASSUME NEW d \in Abouts, Amiss(d)', Settled(d)', ~Hidden(d)'
               PROVE  \E i \in Standing' : About(i)' = d
    BY DEF Complete
  <2>1. Amiss(d) /\ Settled(d) /\ ~Hidden(d) /\ Looked(PlaceOf(d))
    BY <1>1, <1>3, <1>7 DEF Hidden, Skipped, Looked
  <2> QED
    BY <1>4, <1>6, <2>1 DEF Complete
<1>11. Right'
  <2> SUFFICES ASSUME NEW i \in Standing, Settled(About(i))'
               PROVE  Amiss(About(i))' <=> ~doc'.findings[i].repaired
    BY <1>6 DEF Right
  <2>1. Settled(About(i)) /\ (Amiss(About(i))' <=> Amiss(About(i)))
    BY <1>6, <1>7, <1>8 DEF Standing
  <2> QED
    BY <1>4, <1>6, <2>1 DEF Right
<1>12. ClosedIsTold'
  BY <1>3, <1>4, <1>6 DEF ClosedIsTold
<1> QED
  BY <1>3, <1>9, <1>10, <1>11, <1>12 DEF ReportInv, Faithful

(* A repair's turn at a finding: what it leaves of the thing, what it       *)
(* writes down.                                                             *)
TurnOf(i, f, item) ==
    \/ ~f.repairable /\ store' = store /\ doc' = Note(doc.findings, doc.withdrawn)
    \/ /\ f.repairable /\ item[1] = "checkpoint" /\ (NotThere(item) \/ ~Headerless(item[2]))
       /\ store' = store /\ doc' = Note(doc.findings, doc.withdrawn \cup {i})
    \/ /\ f.repairable /\ store' = store
       /\ doc' = Note([doc.findings EXCEPT ![i] = Finding(item, "warning", FALSE)], doc.withdrawn)
    \/ /\ f.repairable /\ (item[1] = "checkpoint" => Headerless(item[2]))
       /\ store' = [store EXCEPT ![item] = Cured(item)]
       /\ doc' = Note([doc.findings EXCEPT ![i] = [f EXCEPT !.repaired = TRUE]], doc.withdrawn)
    \/ /\ f.repairable /\ store' = store
       /\ doc' = Note(Append(doc.findings, Finding(item, "error", FALSE)), doc.withdrawn)
    \/ store' = store /\ doc' = [doc EXCEPT !.phase = "interrupted"]

LEMMA RepairTurns ==
    ASSUME DiagnosisInv, Repair, NEW i, i = doc.at, NEW f, f = doc.findings[i], NEW item, item = f.about
    PROVE  TurnOf(i, f, item)
<1>1. doc \in DocType /\ doc.phase = "repairing"
  BY DEF Repair, DiagnosisInv, DiagnosisTypes
<1>2. ASSUME NEW findings, NEW withdrawn,
             doc' = [doc EXCEPT !.at = doc.at + 1, !.findings = findings, !.withdrawn = withdrawn]
      PROVE  doc' = Note(findings, withdrawn)
  BY <1>1, <1>2 DEF DocType, Note
<1>3. ASSUME doc' = [doc EXCEPT !.at = @ + 1] PROVE doc' = Note(doc.findings, doc.withdrawn)
  BY <1>1, <1>3 DEF DocType, Note
<1>4. ASSUME doc' = Repaired(i)
      PROVE  doc' = Note([doc.findings EXCEPT ![i] = [f EXCEPT !.repaired = TRUE]], doc.withdrawn)
  <2> DEFINE findings == [doc.findings EXCEPT ![i] = [f EXCEPT !.repaired = TRUE]]
  <2>1. doc' = [doc EXCEPT !.at = doc.at + 1, !.findings = findings]
    BY <1>4 DEF Repaired
  <2> HIDE DEF findings
  <2>2. doc' = Note(findings, doc.withdrawn)
    BY <1>1, <2>1 DEF DocType, Note
  <2> QED
    BY <2>2 DEF findings
<1>5. ASSUME doc' = RepairFailed(i)
      PROVE  doc' = Note(Append(doc.findings, Finding(item, "error", FALSE)), doc.withdrawn)
  <2> DEFINE findings == Append(doc.findings, Finding(item, "error", FALSE))
  <2>1. doc' = [doc EXCEPT !.at = doc.at + 1, !.findings = findings]
    BY <1>5 DEF RepairFailed
  <2> HIDE DEF findings
  <2>2. doc' = Note(findings, doc.withdrawn)
    BY <1>1, <2>1 DEF DocType, Note
  <2> QED
    BY <2>2 DEF findings
<1>6. ASSUME doc' = [doc EXCEPT !.at = @ + 1, !.withdrawn = @ \cup {i}]
      PROVE  doc' = Note(doc.findings, doc.withdrawn \cup {i})
  BY <1>1, <1>6 DEF DocType, Note
<1>7. ASSUME remnantFinding(item) # Repairable(item),
             doc' = [doc EXCEPT !.at = @ + 1, !.findings[i] = remnantFinding(item)[1]]
      PROVE  doc' = Note([doc.findings EXCEPT ![i] = Finding(item, "warning", FALSE)], doc.withdrawn)
  <2> DEFINE findings == [doc.findings EXCEPT ![i] = Finding(item, "warning", FALSE)]
  <2>1. remnantFinding(item) = Warning(item)
    BY <1>7, Zenon DEF remnantFinding
  <2>2. remnantFinding(item)[1] = Finding(item, "warning", FALSE)
    BY <2>1 DEF Warning
  <2>3. doc' = [doc EXCEPT !.at = doc.at + 1, !.findings = findings]
    BY <1>7, <2>2
  <2> HIDE DEF findings
  <2>4. doc' = Note(findings, doc.withdrawn)
    BY <1>1, <2>3 DEF DocType, Note
  <2> QED
    BY <2>4 DEF findings
<1>8. CASE ~f.repairable
  <2>1. store' = store /\ doc' = [doc EXCEPT !.at = @ + 1]
    BY <1>8 DEF Repair
  <2> QED
    BY <1>3, <1>8, <2>1 DEF TurnOf
<1>9. CASE f.repairable /\ item[1] = "checkpoint"
  <2>1. removeRemnant(i, item)
    BY <1>9 DEF Repair
  <2>2. Cured(item) = Gone
    BY <1>9 DEF Cured
  <2>3. CASE NotThere(item) \/ ~Headerless(item[2])
    <3>1. store' = store /\ doc' = [doc EXCEPT !.at = @ + 1, !.withdrawn = @ \cup {i}]
      BY <2>1, <2>3 DEF removeRemnant
    <3> QED
      BY <1>6, <1>9, <2>3, <3>1 DEF TurnOf
  <2>4. CASE Headerless(item[2]) /\ ~NotThere(item) /\ remnantFinding(item) # Repairable(item)
    <3>1. store' = store /\ doc' = [doc EXCEPT !.at = @ + 1, !.findings[i] = remnantFinding(item)[1]]
      BY <2>1, <2>4 DEF removeRemnant
    <3> QED
      BY <1>7, <1>9, <2>4, <3>1 DEF TurnOf
  <2>5. CASE Headerless(item[2]) /\ ~NotThere(item) /\ remnantFinding(item) = Repairable(item)
    <3>1. \/ store' = [store EXCEPT ![item] = Gone] /\ doc' = Repaired(i)
          \/ store' = store /\ doc' \in {RepairFailed(i), [doc EXCEPT !.phase = "interrupted"]}
      BY <2>1, <2>5 DEF removeRemnant
    <3> QED
      BY <1>4, <1>5, <1>9, <2>2, <2>5, <3>1 DEF TurnOf
  <2> QED
    BY <2>3, <2>4, <2>5
<1>10. CASE f.repairable /\ item[1] # "checkpoint"
  <2>1. execute(i, item)
    BY <1>10 DEF Repair
  <2>2. \/ store' = [store EXCEPT ![item] = Cured(item)] /\ doc' = Repaired(i)
        \/ store' = store /\ doc' = RepairFailed(i)
    BY <2>1 DEF execute
  <2> QED
    BY <1>4, <1>5, <1>10, <2>2 DEF TurnOf
<1> QED
  BY <1>8, <1>9, <1>10

(* A turn that says of its own thing what is so, and leaves the others'     *)
(* things and findings alone, keeps the report true: no other finding is    *)
(* about a thing a repair acts on.                                          *)
LEMMA NotedKeeps ==
    ASSUME DiagnosisInv, ReportInv, doc.phase = "repairing", doc' \in DocType, doc'.phase = "repairing",
           doc'.at = doc.at + 1, doc'.strict = doc.strict, doc'.closed = doc.closed, doc'.verified = doc.verified,
           changed' = changed, OthersFit',
           NEW i \in DOMAIN doc.findings, i = doc.at, doc.findings[i].repairable, NEW item, item = About(i),
           \A b \in Blobs : store'[<<"blob", b>>] = store[<<"blob", b>>],
           \A x \in Items : x # item => store'[x] = store[x],
           \A d \in Abouts : Settled(d) /\ d # item => (Amiss(d)' <=> Amiss(d)),
           DOMAIN doc.findings \subseteq DOMAIN doc'.findings,
           \A j \in DOMAIN doc.findings : j # i => doc'.findings[j] = doc.findings[j],
           \A j \in DOMAIN doc'.findings : j = i \/ j \notin DOMAIN doc.findings =>
              /\ doc'.findings[j].about = item
              /\ j # i => ~doc'.findings[j].repairable
              /\ Settled(item) => (Amiss(item)' <=> ~doc'.findings[j].repaired),
           doc.withdrawn \subseteq doc'.withdrawn, doc'.withdrawn \subseteq doc.withdrawn \cup {i},
           i \in doc'.withdrawn => ~Settled(item)
    PROVE  ReportInv'
<1> DEFINE old == DOMAIN doc.findings  new == DOMAIN doc'.findings
<1>1. /\ doc \in DocType /\ Complete /\ Right /\ ClosedIsTold /\ VerifiedIsWhole
      /\ DueAlone /\ DueStands /\ WithdrawnIsChanged
  BY DEF ReportInv, Faithful, Unrepaired, DiagnosisInv, DiagnosisTypes
<1>2. /\ \A j \in old : About(j) \in Abouts /\ j \in Nat
      /\ \A j \in new : About(j)' \in Abouts /\ j \in Nat
      /\ doc.at \in Nat
  <2>1. \A j \in old : About(j) \in Abouts /\ j \in Nat
    BY <1>1, AboutsAreTyped
  <2>2. doc'.findings \in Seq(Findings) /\ doc.at \in Nat
    BY <1>1 DEF DocType
  <2>3. \A j \in new : doc'.findings[j].about \in Abouts /\ j \in Nat
    BY <2>2 DEF Findings
  <2> QED
    BY <2>1, <2>2, <2>3 DEF About
<1>3. \A j \in old : j # i => About(j)' = About(j)
  BY DEF About
<1>4. \A j \in new : j = i \/ j \notin old => About(j)' = item
  BY DEF About
<1>5. \A d : Settled(d)' <=> Settled(d)
  BY DEF Settled
<1>6. Due(i) /\ i \notin doc.withdrawn
  <2>1. Due(i)
    BY <1>2 DEF Due
  <2> QED
    BY <1>1, <2>1 DEF DueStands
<1>7. ASSUME NEW j, Due(j)' PROVE j \in old /\ j # i /\ Due(j)
  <2>1. j \in new /\ doc'.findings[j].repairable /\ doc.at + 1 <= j
    BY <1>7 DEF Due
  <2>2. j # i /\ j \in old /\ doc.at <= j
    BY <1>2, <2>1
  <2> QED
    BY <2>1, <2>2 DEF Due
<1>8. ASSUME NEW j \in old, j # i, Settled(About(j)) PROVE About(j) # item
  BY <1>1, <1>6, <1>8 DEF DueAlone
<1>9. Complete'
  <2> SUFFICES ASSUME NEW d \in Abouts, Amiss(d)', Settled(d)', ~Hidden(d)'
               PROVE  \E j \in Standing' : About(j)' = d
    BY DEF Complete
  <2>1. Settled(d) /\ ~Hidden(d)
    BY <1>5 DEF Hidden, Skipped
  <2>2. CASE d = item
    <3>1. i \in Standing' /\ About(i)' = d
      BY <1>4, <2>1, <2>2 DEF Standing
    <3> QED
      BY <3>1
  <2>3. CASE d # item
    <3>1. Amiss(d)
      BY <2>1, <2>3
    <3>2. Looked(PlaceOf(d))
      BY DEF Looked
    <3>3. PICK j \in Standing : About(j) = d
      BY <1>1, <2>1, <3>1, <3>2 DEF Complete
    <3>4. j # i /\ j \in old /\ j \notin doc.withdrawn
      BY <2>3, <3>3 DEF Standing
    <3>5. j \in Standing' /\ About(j)' = d
      BY <1>3, <3>3, <3>4 DEF Standing
    <3> QED
      BY <3>5
  <2> QED
    BY <2>2, <2>3
<1>10. Right'
  <2> SUFFICES ASSUME NEW j \in new, j \notin doc'.withdrawn, Settled(About(j))'
               PROVE  Amiss(About(j))' <=> ~doc'.findings[j].repaired
    BY DEF Right, Standing
  <2>1. CASE j = i \/ j \notin old
    BY <1>4, <1>5, <2>1
  <2>2. CASE j # i /\ j \in old
    <3>1. About(j)' = About(j) /\ Settled(About(j)) /\ About(j) \in Abouts /\ j \in Standing
      BY <1>2, <1>3, <1>5, <2>2 DEF Standing
    <3>2. About(j) # item
      BY <1>8, <2>2, <3>1
    <3>3. Amiss(About(j)) <=> ~doc.findings[j].repaired
      BY <1>1, <3>1 DEF Right
    <3>4. \A d \in Abouts : d = About(j) => (Amiss(d)' <=> Amiss(d))
      BY <3>1, <3>2
    <3>5. Amiss(About(j))' <=> Amiss(About(j))
      BY <3>1, <3>4
    <3> QED
      BY <2>2, <3>3, <3>5
  <2> QED
    BY <2>1, <2>2
<1>11. ClosedIsTold'
  <2> SUFFICES ASSUME NEW k \in doc.closed
               PROVE  \E j \in Standing' : ~doc'.findings[j].repairable /\ ~doc'.findings[j].repaired
    BY DEF ClosedIsTold
  <2>1. PICK j \in Standing : ~doc.findings[j].repairable /\ ~doc.findings[j].repaired
    BY <1>1 DEF ClosedIsTold
  <2>2. j # i /\ j \in old /\ j \notin doc.withdrawn
    BY <2>1 DEF Standing
  <2>3. j \in Standing' /\ doc'.findings[j] = doc.findings[j]
    BY <2>2 DEF Standing
  <2> QED
    BY <2>1, <2>3
<1>12. VerifiedIsWhole'
  <2>1. doc.verified \subseteq Blobs
    BY <1>1 DEF DocType
  <2> QED
    BY <1>1, <2>1 DEF VerifiedIsWhole, Broken
<1>13. ListedIsThere' /\ FoundByLooking'
  BY DEF ListedIsThere, FoundByLooking
<1>14. DueAlone'
  <2> SUFFICES ASSUME NEW j \in new, NEW k \in new, Due(j)', j # k, Settled(About(j))'
               PROVE  About(j)' # About(k)'
    BY DEF DueAlone
  <2>1. j \in old /\ j # i /\ Due(j) /\ About(j)' = About(j) /\ Settled(About(j))
    BY <1>3, <1>5, <1>7
  <2>2. CASE k \in old /\ k # i
    BY <1>1, <1>3, <2>1, <2>2 DEF DueAlone
  <2>3. CASE k = i \/ k \notin old
    BY <1>4, <1>8, <2>1, <2>3
  <2> QED
    BY <2>2, <2>3
<1>15. DueStands'
  <2> SUFFICES ASSUME NEW j \in new, Due(j)'
               PROVE  /\ ~doc'.findings[j].repaired /\ j \notin doc'.withdrawn
                      /\ About(j)'[1] = "checkpoint" /\ Settled(About(j))' => Headerless(About(j)[2])'
    BY DEF DueStands
  <2>1. j \in old /\ j # i /\ Due(j) /\ About(j)' = About(j) /\ doc'.findings[j] = doc.findings[j]
    BY <1>3, <1>7
  <2>2. ~doc.findings[j].repaired /\ j \notin doc.withdrawn
    BY <1>1, <2>1 DEF DueStands
  <2>3. ASSUME About(j)[1] = "checkpoint", Settled(About(j)) PROVE Headerless(About(j)[2])'
    <3>1. Headerless(About(j)[2])
      BY <1>1, <2>1, <2>3 DEF DueStands
    <3>2. About(j) = <<"checkpoint", About(j)[2]>> /\ About(j) \in Items
      <4>1. About(j) \in Abouts
        BY <1>2, <2>1
      <4> QED
        BY <2>3, <4>1, KindsOfItems DEF Abouts, Item, Reference
    <3>3. About(j) # item
      BY <1>8, <2>1, <2>3
    <3>4. store'[About(j)] = store[About(j)]
      BY <3>2, <3>3
    <3>5. Headerless(About(j)[2])' <=> "no header" \in store'[<<"checkpoint", About(j)'[2]>>]
      BY DEF Headerless
    <3>6. "no header" \in store[About(j)] /\ <<"checkpoint", About(j)'[2]>> = About(j)
      BY <2>1, <3>1, <3>2 DEF Headerless
    <3> QED
      BY <3>4, <3>5, <3>6
  <2> QED
    BY <1>5, <2>1, <2>2, <2>3
<1>16. WithdrawnIsChanged'
  <2>1. ASSUME NEW j \in doc'.withdrawn PROVE j \in new /\ ~Settled(About(j))'
    <3>1. CASE j = i
      BY <1>4, <1>5, <3>1
    <3>2. CASE j # i
      <4>1. j \in old /\ ~Settled(About(j))
        BY <1>1, <3>2 DEF WithdrawnIsChanged
      <4> QED
        BY <1>3, <1>5, <3>2, <4>1
    <3> QED
      BY <3>1, <3>2
  <2> QED
    BY <2>1 DEF WithdrawnIsChanged
<1> QED
  BY <1>9, <1>10, <1>11, <1>12, <1>13, <1>14, <1>15, <1>16 DEF ReportInv, Faithful, Unrepaired

LEMMA NoteOf ==
    ASSUME NEW findings, NEW withdrawn, doc' = Note(findings, withdrawn)
    PROVE  /\ doc'.at = doc.at + 1 /\ doc'.phase = doc.phase /\ doc'.strict = doc.strict
           /\ doc'.closed = doc.closed /\ doc'.verified = doc.verified
           /\ doc'.findings = findings /\ doc'.withdrawn = withdrawn
  BY DEF Note

(* A repair leaves of a thing what is wrong with nothing. *)
LEMMA CureFits ==
    ASSUME NEW item \in Remains
    PROVE  FaultsFit(item, Cured(item))
<1>1. item[1] \in {"checkpoint", "temp", "lock", "index", "guard"}
  BY DEF Remains, Item, One
<1>2. IsFiniteSet({}) /\ IsFiniteSet(Gone)
  BY FS_EmptySet, FS_Singleton DEF Gone
<1>3. CASE item[1] = "checkpoint"
  <2>1. Cured(item) = {"absent"}
    BY <1>3 DEF Cured, Gone
  <2>2. "absent" \in CheckpointFaults /\ {"absent"} \cap {"odd", "opaque"} = {}
    BY DEF CheckpointFaults
  <2> QED
    BY <1>2, <1>3, <2>1, <2>2 DEF FaultsFit, Gone
<1>4. CASE item[1] # "checkpoint"
  <2>1. Cured(item) = {} /\ item[1] # "recovery"
    BY <1>1, <1>4 DEF Cured
  <2> QED
    BY <1>2, <1>4, <2>1 DEF FaultsFit
<1> QED
  BY <1>3, <1>4

LEMMA CuredIsWell ==
    ASSUME NEW item \in Remains, store'[item] = Cured(item)
    PROVE  ~Amiss(item)'
<1>1. item \in Items
  BY RemainsAreItems
<1>2. store'[item] = {} \/ "absent" \in store'[item]
  BY DEF Cured, Gone
<1>3. Harmless(item)'
  BY <1>2 DEF Harmless, NotThere, Visible
<1>4. Amiss(item)' <=> ~Harmless(item)'
  BY <1>1, KindsOfItems DEF Amiss
<1> QED
  BY <1>3, <1>4

LEMMA OthersStayAmiss ==
    ASSUME DiagnosisInv, NEW item \in Remains, item[1] = "checkpoint" => Headerless(item[2]),
           store' = [store EXCEPT ![item] = Cured(item)], doc'.strict = doc.strict
    PROVE  /\ \A b \in Blobs : store'[<<"blob", b>>] = store[<<"blob", b>>]
           /\ \A x \in Items : x # item => store'[x] = store[x]
           /\ store'[item] = Cured(item)
           /\ \A d \in Abouts : d # item => (Amiss(d)' <=> Amiss(d))
<1>1. item \in Items /\ item[1] \in {"checkpoint", "temp", "lock", "index", "guard"}
  BY RemainsAreItems DEF Remains, Item, One
<1>2. /\ \A x \in Items : x # item => store'[x] = store[x]
      /\ store'[item] = Cured(item)
  BY <1>1 DEF DiagnosisInv, DiagnosisTypes
<1>3. /\ \A b \in Blobs : store'[<<"blob", b>>] = store[<<"blob", b>>]
      /\ \A n \in ToSet(RootFiles) : store'[<<"file", n>>] = store[<<"file", n>>]
  <2>1. \A b \in Blobs : <<"blob", b>> \in Items /\ <<"blob", b>>[1] = "blob"
    BY DEF Items, Item
  <2>2. \A n \in ToSet(RootFiles) : <<"file", n>> \in Items /\ <<"file", n>>[1] = "file"
    BY DEF Items, Item
  <2>3. item[1] # "blob" /\ item[1] # "file"
    BY <1>1
  <2> QED
    BY <1>2, <2>1, <2>2, <2>3
<1>4. ASSUME NEW d \in Abouts, d # item PROVE Amiss(d)' <=> Amiss(d)
  <2>1. CASE Holder(d) # item
    <3>1. StaysAs(d)
      BY <1>2, <1>3, <2>1 DEF StaysAs
    <3> QED
      BY <3>1, StillAmiss
  <2>2. CASE Holder(d) = item
    <3>1. PICK h \in Holders, b \in Blobs : d = Reference(h, b)
      <4>1. d[1] = "reference"
        BY <1>4, <2>2 DEF Holder
      <4>2. d \notin Items
        BY <4>1, KindsOfItems
      <4>3. d \notin Item("files", {"captured", "opaque"})
        BY <4>1 DEF Item
      <4> QED
        BY <4>2, <4>3 DEF Abouts
    <3>2. h = item
      BY <2>2, <3>1 DEF Holder, Reference
    <3>3. PICK c \in Checkpoints : h = <<"checkpoint", c>>
      <4>1. h[1] # "recovery"
        BY <1>1, <3>2
      <4>2. h \notin Item("recovery", Records)
        BY <4>1 DEF Item
      <4> QED
        BY <4>2 DEF Holders, Item
    <3>4. "no header" \in store[<<"checkpoint", c>>]
      <4>1. item[1] = "checkpoint" /\ item[2] = c
        BY <3>2, <3>3
      <4> QED
        BY <4>1 DEF Headerless
    <3>5. ~Reachable(c)
      BY <3>4 DEF Reachable, Unopened
    <3>6. ~Reachable(c)'
      <4>1. store'[<<"checkpoint", c>>] = Gone
        BY <1>2, <3>2, <3>3 DEF Cured
      <4>2. "absent" \in store'[<<"checkpoint", c>>]
        BY <4>1 DEF Gone
      <4>3. "absent" \in Unopened
        BY DEF Unopened
      <4>4. Reachable(c)' <=> store'[<<"checkpoint", c>>] \cap Unopened = {}
        BY DEF Reachable
      <4> QED
        BY <4>2, <4>3, <4>4
    <3>7. ~Amiss(d)
      BY <3>1, <3>3, <3>5, AmissReference
    <3>8. Amiss(d)' <=> Reachable(c)' /\ b \in ToSet(Readable(c)') /\ Broken(b, doc.strict)'
      BY <3>1, <3>3 DEF Amiss, Reference
    <3> QED
      BY <3>6, <3>7, <3>8
  <2> QED
    BY <2>1, <2>2
<1> QED
  BY <1>2, <1>3, <1>4

(* A remnant that is gone, or has its header by now, changed hands. *)
LEMMA WithdrawnIsTouched ==
    ASSUME DiagnosisInv, ReportInv, doc.phase = "repairing", NEW i \in DOMAIN doc.findings, i = doc.at,
           doc.findings[i].repairable, NEW item, item = About(i), item[1] = "checkpoint",
           NotThere(item) \/ ~Headerless(item[2])
    PROVE  ~Settled(item)
<1> SUFFICES ASSUME Settled(item) PROVE FALSE
  OBVIOUS
<1>1. doc \in DocType /\ DueStands /\ OthersFit
  BY DEF ReportInv, Unrepaired, DiagnosisInv, DiagnosisTypes
<1>2. item \in Remains /\ doc.at \in Nat
  BY <1>1, AboutsAreTyped DEF DocType
<1>3. item \in Items /\ item = <<"checkpoint", item[2]>>
  BY <1>2, RemainsAreItems, KindsOfItems
<1>4. Headerless(item[2])
  <2>1. Due(i)
    BY <1>2 DEF Due
  <2> QED
    BY <1>1, <2>1 DEF DueStands
<1>5. "absent" \in store[item] /\ "no header" \in store[item]
  BY <1>3, <1>4 DEF NotThere, Headerless
<1>6. FaultsFit(item, store[item])
  <2>1. item \notin changed
    BY <1>3 DEF Settled, Holder
  <2> QED
    BY <1>1, <1>3, <2>1 DEF OthersFit
<1>7. store[item] = {"absent"}
  BY <1>5, <1>6 DEF FaultsFit
<1> QED
  BY <1>5, <1>7

LEMMA RepairKeeps ==
    ASSUME DiagnosisInv, ReportInv, Repair
    PROVE  ReportInv'
<1> SUFFICES ASSUME NEW i, i = doc.at, NEW f, f = doc.findings[i], NEW item, item = f.about
             PROVE  ReportInv'
  OBVIOUS
<1>1. /\ doc \in DocType /\ doc.phase = "repairing" /\ i \in DOMAIN doc.findings
      /\ writer' = writer /\ changed' = changed /\ doc.findings \in Seq(Findings)
      /\ DOMAIN doc.findings = 1..Len(doc.findings)
  <2>1. doc \in DocType /\ doc.phase = "repairing" /\ i \in 1..Len(doc.findings)
    BY DEF Repair, DiagnosisInv, DiagnosisTypes, RepairIsAlone, DocType
  <2>2. doc.findings \in Seq(Findings)
    BY <2>1 DEF DocType
  <2> QED
    BY <2>1, <2>2 DEF Repair
<1>2. f \in Findings /\ item \in Abouts /\ (f.repairable => item \in Remains) /\ item = About(i)
  BY <1>1, AboutsAreTyped DEF About
<1>3. /\ OthersFit /\ Right /\ DueStands
  BY <1>1 DEF ReportInv, Faithful, Unrepaired
<1>4. TurnOf(i, f, item)
  BY RepairTurns
<1>5. doc' \in DocType
  BY RepairIsNoted DEF Noted
<1>6. ASSUME store' = store PROVE OthersFit'
  BY <1>1, <1>3, <1>6 DEF OthersFit
<1>7. ASSUME f.repairable, Settled(item) PROVE Amiss(item)
  <2>1. Due(i) /\ About(i) = item
    BY <1>1, <1>2, <1>7 DEF Due, DocType
  <2>2. i \in Standing /\ ~f.repaired
    BY <1>1, <1>3, <2>1 DEF DueStands, Standing
  <2> QED
    BY <1>3, <1>7, <2>1, <2>2 DEF Right
<1>8. ASSUME store' = store, doc'.strict = doc.strict
      PROVE  \A d \in Abouts : Amiss(d)' <=> Amiss(d)
  BY <1>1, <1>8, NothingMoved
<1>9. Finding(item, "warning", FALSE).about = item /\ ~Finding(item, "warning", FALSE).repaired
      /\ ~Finding(item, "warning", FALSE).repairable
      /\ Finding(item, "error", FALSE).about = item /\ ~Finding(item, "error", FALSE).repaired
      /\ ~Finding(item, "error", FALSE).repairable
  BY DEF Finding
<1>10. [f EXCEPT !.repaired = TRUE].about = item /\ [f EXCEPT !.repaired = TRUE].repaired
  BY <1>2 DEF Findings
<1>11. CASE ~f.repairable /\ store' = store /\ doc' = Note(doc.findings, doc.withdrawn)
  <2>1. /\ doc'.at = doc.at + 1 /\ doc'.phase = doc.phase /\ doc'.strict = doc.strict
        /\ doc'.closed = doc.closed /\ doc'.verified = doc.verified
        /\ doc'.findings = doc.findings /\ doc'.withdrawn = doc.withdrawn
    BY <1>11, NoteOf
  <2>2. \A j : Due(j)' => Due(j)
    <3> SUFFICES ASSUME NEW j, Due(j)' PROVE Due(j)
      OBVIOUS
    <3>1. j \in DOMAIN doc.findings /\ doc.findings[j].repairable /\ doc.at + 1 <= j
      BY <1>1, <2>1 DEF Due
    <3>2. doc.at \in Nat /\ j \in Nat
      BY <1>1, <3>1 DEF DocType
    <3> QED
      BY <3>1, <3>2 DEF Due
  <2>3. \A x \in Seen : Looked(x)
    BY <1>1 DEF Looked
  <2> QED
    BY <1>1, <1>11, <2>1, <2>2, <2>3, TurnKeeps
<1>12. CASE /\ f.repairable /\ item[1] = "checkpoint" /\ (NotThere(item) \/ ~Headerless(item[2]))
            /\ store' = store /\ doc' = Note(doc.findings, doc.withdrawn \cup {i})
  <2>1. /\ doc'.at = doc.at + 1 /\ doc'.phase = doc.phase /\ doc'.strict = doc.strict
        /\ doc'.closed = doc.closed /\ doc'.verified = doc.verified
        /\ doc'.findings = doc.findings /\ doc'.withdrawn = doc.withdrawn \cup {i}
    BY <1>12, NoteOf
  <2>2. ~Settled(item)
    BY <1>1, <1>2, <1>12, WithdrawnIsTouched
  <2>3. \A d \in Abouts : Amiss(d)' <=> Amiss(d)
    BY <1>8, <1>12, <2>1
  <2>4. doc.findings[i].repairable /\ doc.findings[i].about = item /\ item = About(i)
    BY <1>2, <1>12
  <2> QED
    BY <1>1, <1>5, <1>6, <1>12, <2>1, <2>2, <2>3, <2>4, NotedKeeps
<1>13. CASE /\ f.repairable /\ store' = store
            /\ doc' = Note([doc.findings EXCEPT ![i] = Finding(item, "warning", FALSE)], doc.withdrawn)
  <2> DEFINE again == Finding(item, "warning", FALSE)  findings == [doc.findings EXCEPT ![i] = again]
  <2>1. /\ DOMAIN findings = DOMAIN doc.findings /\ findings[i] = again
        /\ \A j \in DOMAIN doc.findings : j # i => findings[j] = doc.findings[j]
    <3> HIDE DEF again
    <3> QED
      BY <1>1
  <2>2. doc' = Note(findings, doc.withdrawn)
    BY <1>13
  <2> HIDE DEF findings
  <2>3. /\ doc'.at = doc.at + 1 /\ doc'.phase = doc.phase /\ doc'.strict = doc.strict
        /\ doc'.closed = doc.closed /\ doc'.verified = doc.verified
        /\ doc'.findings = findings /\ doc'.withdrawn = doc.withdrawn
    BY <2>2, NoteOf
  <2>4. \A d \in Abouts : Amiss(d)' <=> Amiss(d)
    BY <1>8, <1>13, <2>3
  <2>5. doc.findings[i].repairable /\ item = About(i)
    BY <1>2, <1>13
  <2>6. i \notin doc.withdrawn
    BY <1>1, <1>3, <2>5 DEF DueStands, Due, DocType
  <2>7. \A j \in DOMAIN doc'.findings : j = i \/ j \notin DOMAIN doc.findings =>
              /\ doc'.findings[j].about = item
              /\ j # i => ~doc'.findings[j].repairable
              /\ Settled(item) => (Amiss(item)' <=> ~doc'.findings[j].repaired)
    <3> SUFFICES ASSUME NEW j \in DOMAIN doc'.findings, j = i \/ j \notin DOMAIN doc.findings
                 PROVE  /\ doc'.findings[j].about = item
                        /\ j # i => ~doc'.findings[j].repairable
                        /\ Settled(item) => (Amiss(item)' <=> ~doc'.findings[j].repaired)
      OBVIOUS
    <3>1. j = i /\ doc'.findings[j] = again
      BY <2>1, <2>3
    <3>2. Settled(item) => Amiss(item)'
      BY <1>2, <1>7, <1>13, <2>4
    <3>3. again.about = item /\ ~again.repaired
      BY <1>9
    <3> HIDE DEF again
    <3> QED
      BY <3>1, <3>2, <3>3
  <2>8. store' = store /\ OthersFit'
    BY <1>6, <1>13
  <2> HIDE DEF again
  <2> QED
    BY <1>1, <1>5, <2>1, <2>3, <2>4, <2>5, <2>6, <2>7, <2>8, NotedKeeps
<1>14. CASE /\ f.repairable /\ (item[1] = "checkpoint" => Headerless(item[2]))
            /\ store' = [store EXCEPT ![item] = Cured(item)]
            /\ doc' = Note([doc.findings EXCEPT ![i] = [f EXCEPT !.repaired = TRUE]], doc.withdrawn)
  <2> DEFINE cured == [f EXCEPT !.repaired = TRUE]  findings == [doc.findings EXCEPT ![i] = cured]
  <2>1. /\ DOMAIN findings = DOMAIN doc.findings /\ findings[i] = cured
        /\ \A j \in DOMAIN doc.findings : j # i => findings[j] = doc.findings[j]
    <3> HIDE DEF cured
    <3> QED
      BY <1>1
  <2>2. doc' = Note(findings, doc.withdrawn)
    BY <1>14
  <2>8. cured.about = item /\ cured.repaired
    BY <1>10
  <2> HIDE DEF findings, cured
  <2>3. /\ doc'.at = doc.at + 1 /\ doc'.phase = doc.phase /\ doc'.strict = doc.strict
        /\ doc'.closed = doc.closed /\ doc'.verified = doc.verified
        /\ doc'.findings = findings /\ doc'.withdrawn = doc.withdrawn
    BY <2>2, NoteOf
  <2>4. /\ \A b \in Blobs : store'[<<"blob", b>>] = store[<<"blob", b>>]
        /\ \A x \in Items : x # item => store'[x] = store[x]
        /\ store'[item] = Cured(item)
        /\ \A d \in Abouts : d # item => (Amiss(d)' <=> Amiss(d))
    BY <1>2, <1>14, <2>3, OthersStayAmiss
  <2>5. doc.findings[i].repairable /\ item = About(i)
    BY <1>2, <1>14
  <2>6. i \notin doc.withdrawn
    BY <1>1, <1>3, <2>5 DEF DueStands, Due, DocType
  <2>7. ~Amiss(item)'
    BY <1>2, <1>14, <2>4, CuredIsWell
  <2>9. OthersFit'
    <3>1. \A x \in Items \ changed : FaultsFit(x, store'[x])
      BY <1>2, <1>3, <1>14, <2>4, CureFits DEF OthersFit
    <3> QED
      BY <1>1, <1>3, <3>1 DEF OthersFit
  <2>10. \A j \in DOMAIN doc'.findings : j = i \/ j \notin DOMAIN doc.findings =>
              /\ doc'.findings[j].about = item
              /\ j # i => ~doc'.findings[j].repairable
              /\ Settled(item) => (Amiss(item)' <=> ~doc'.findings[j].repaired)
    BY <2>1, <2>3, <2>7, <2>8
  <2> QED
    BY <1>1, <1>5, <2>1, <2>3, <2>4, <2>5, <2>6, <2>9, <2>10, NotedKeeps
<1>15. CASE /\ f.repairable /\ store' = store
            /\ doc' = Note(Append(doc.findings, Finding(item, "error", FALSE)), doc.withdrawn)
  <2> DEFINE failed == Finding(item, "error", FALSE)  findings == Append(doc.findings, failed)
  <2>9. failed \in Findings
    BY <1>2, FindingIsOne
  <2>1. /\ DOMAIN findings = 1..Len(doc.findings) + 1 /\ findings[Len(doc.findings) + 1] = failed
        /\ \A j \in 1..Len(doc.findings) : findings[j] = doc.findings[j]
    <3> HIDE DEF failed
    <3> QED
      BY <1>1, <2>9, AppendProperties
  <2>10. Len(doc.findings) \in Nat
    BY <1>1
  <2>2. doc' = Note(findings, doc.withdrawn)
    BY <1>15
  <2> HIDE DEF findings
  <2>3. /\ doc'.at = doc.at + 1 /\ doc'.phase = doc.phase /\ doc'.strict = doc.strict
        /\ doc'.closed = doc.closed /\ doc'.verified = doc.verified
        /\ doc'.findings = findings /\ doc'.withdrawn = doc.withdrawn
    BY <2>2, NoteOf
  <2>4. \A d \in Abouts : Amiss(d)' <=> Amiss(d)
    BY <1>8, <1>15, <2>3
  <2>5. doc.findings[i].repairable /\ item = About(i) /\ doc.findings[i].about = item
    BY <1>2, <1>15
  <2>6. i \notin doc.withdrawn /\ ~doc.findings[i].repaired
    BY <1>1, <1>3, <2>5 DEF DueStands, Due, DocType
  <2>11. DOMAIN doc.findings \subseteq DOMAIN doc'.findings
         /\ \A j \in DOMAIN doc'.findings : j \in DOMAIN doc.findings \/ j = Len(doc.findings) + 1
    BY <1>1, <2>1, <2>3, <2>10
  <2>12. \A j \in DOMAIN doc.findings : doc'.findings[j] = doc.findings[j]
    BY <1>1, <2>1, <2>3
  <2>7. \A j \in DOMAIN doc'.findings : j = i \/ j \notin DOMAIN doc.findings =>
              /\ doc'.findings[j].about = item
              /\ j # i => ~doc'.findings[j].repairable
              /\ Settled(item) => (Amiss(item)' <=> ~doc'.findings[j].repaired)
    <3> SUFFICES ASSUME NEW j \in DOMAIN doc'.findings, j = i \/ j \notin DOMAIN doc.findings
                 PROVE  /\ doc'.findings[j].about = item
                        /\ j # i => ~doc'.findings[j].repairable
                        /\ Settled(item) => (Amiss(item)' <=> ~doc'.findings[j].repaired)
      OBVIOUS
    <3>1. Settled(item) => Amiss(item)'
      BY <1>2, <1>7, <1>15, <2>4
    <3>2. CASE j = i
      BY <1>1, <2>5, <2>6, <2>12, <3>1, <3>2
    <3>3. CASE j # i
      <4>1. doc'.findings[j] = failed
        BY <2>1, <2>3, <2>11, <3>3
      <4> QED
        BY <1>9, <3>1, <4>1
    <3> QED
      BY <3>2, <3>3
  <2>8. store' = store /\ OthersFit'
    BY <1>6, <1>15
  <2> HIDE DEF failed
  <2> QED
    BY <1>1, <1>5, <2>3, <2>4, <2>5, <2>6, <2>7, <2>8, <2>11, <2>12, NotedKeeps
<1>16. CASE store' = store /\ doc' = [doc EXCEPT !.phase = "interrupted"]
  <2>1. doc'.phase = "interrupted"
    BY <1>1, <1>16 DEF DocType
  <2> QED
    BY <1>6, <1>16, <2>1 DEF ReportInv
<1> QED
  BY <1>4, <1>11, <1>12, <1>13, <1>14, <1>15, <1>16, Zenon DEF TurnOf

(* What the report says is about something, and what was withdrawn of it    *)
(* changed hands.                                                           *)
AboutsAreNamed ==
    doc.phase = "reported" => \A i \in DOMAIN doc.findings :
        About(i) \in Abouts /\ (i \in doc.withdrawn => ~Settled(About(i)))

LEMMA AboutsStayNamed ==
    ASSUME DiagnosisInv, ReportInv, AboutsAreNamed, DoctorNext \/ OthersNext
    PROVE  AboutsAreNamed'
<1>1. ASSUME doc'.phase # "reported" PROVE AboutsAreNamed'
  BY <1>1 DEF AboutsAreNamed
<1>2. CASE OthersNext
  <2>1. doc' = doc /\ doc.phase \in {"checking", "waiting", "repairing"}
    BY <1>2, OthersLeave DEF ReportInv
  <2> QED
    BY <1>1, <2>1
<1>3. CASE Inspect
  BY <1>1, <1>3, InspectIsTyped
<1>4. CASE Repair
  BY <1>1, <1>4, RepairIsNoted DEF Noted
<1>5. CASE AcquireExclusive
  <2>1. doc \in DocType
    BY <1>5 DEF AcquireExclusive, DiagnosisInv, DiagnosisTypes
  <2>2. doc' = [doc EXCEPT !.phase = "repairing", !.at = 1, !.last = Len(doc.findings)] => doc'.phase = "repairing"
    BY <2>1 DEF DocType
  <2>3. doc' = [doc EXCEPT !.phase = "timed out"] => doc'.phase = "timed out"
    BY <2>1 DEF DocType
  <2>4. doc'.phase # "reported"
    BY <1>5, <2>2, <2>3 DEF AcquireExclusive
  <2> QED
    BY <1>1, <2>4
<1>6. CASE Diagnosed
  <2>1. doc \in DocType /\ doc.phase = "checking" /\ changed' = changed
    BY <1>6 DEF Diagnosed, DiagnosisInv, DiagnosisTypes
  <2>2. doc'.findings = doc.findings /\ doc'.withdrawn = doc.withdrawn
    BY <1>6, <2>1 DEF Diagnosed, DocType
  <2>3. WithdrawnIsChanged /\ \A i \in DOMAIN doc.findings : About(i) \in Abouts
    BY <2>1, AboutsAreTyped DEF ReportInv, Unrepaired
  <2> QED
    BY <2>1, <2>2, <2>3 DEF AboutsAreNamed, WithdrawnIsChanged, About, Settled
<1>7. CASE Report
  <2>1. doc \in DocType
    BY <1>7 DEF Report, DiagnosisInv, DiagnosisTypes
  <2> DEFINE kept == [i \in DOMAIN doc.findings \ doc.withdrawn |-> doc.findings[i]]
  <2>2. doc' = [doc EXCEPT !.phase = "reported", !.findings = kept]
    BY <1>7 DEF Report
  <2>3. DOMAIN kept = Standing /\ \A i \in Standing : kept[i] = doc.findings[i]
    BY DEF Standing
  <2> HIDE DEF kept
  <2>4. doc'.findings = kept /\ doc'.withdrawn = doc.withdrawn
    BY <2>1, <2>2 DEF DocType
  <2>5. \A i \in Standing : About(i)' = About(i) /\ About(i) \in Abouts /\ i \notin doc'.withdrawn
    BY <2>1, <2>3, <2>4, AboutsAreTyped DEF Standing, About
  <2> QED
    BY <2>3, <2>4, <2>5 DEF AboutsAreNamed
<1> QED
  BY <1>2, <1>3, <1>4, <1>5, <1>6, <1>7 DEF DoctorNext

(* A report that is out is held against the damage. *)
LEMMA FaithfulIsTheDamage ==
    ASSUME ReportInv, AboutsAreNamed
    PROVE  ReportIsTheDamage
<1> SUFFICES ASSUME doc.phase = "reported"
             PROVE  /\ \A d \in Defects : Settled(d) /\ ~Hidden(d) => Reported(d)
                    /\ \A i \in DOMAIN doc.findings :
                         Settled(doc.findings[i].about) =>
                            /\ doc.findings[i].repaired => doc.findings[i].about \notin Defects
                            /\ ~doc.findings[i].repaired => doc.findings[i].about \in Defects
                    /\ Health(doc.findings) = "ok" => ~\E d \in Defects : Settled(d)
  BY DEF ReportIsTheDamage
<1>1. Complete /\ Right /\ ClosedIsTold
  BY DEF ReportInv, Faithful
<1>2. \A d : Looked(d)
  BY DEF Looked
<1>3. \A d \in Defects : d \in Abouts /\ Amiss(d)
  BY DefectsAreAmiss
<1>4. ASSUME NEW d \in Defects, Settled(d), ~Hidden(d)
      PROVE  \E i \in Standing : About(i) = d
  BY <1>1, <1>2, <1>3, <1>4 DEF Complete
<1>5. ASSUME NEW i \in DOMAIN doc.findings, Settled(About(i))
      PROVE  i \in Standing /\ (About(i) \in Defects <=> ~doc.findings[i].repaired)
  <2>1. About(i) \in Abouts /\ i \in Standing
    BY <1>5 DEF AboutsAreNamed, Standing
  <2> QED
    BY <1>1, <1>5, <2>1, DefectsAreAmiss DEF Right
<1>6. \A d \in Defects : Settled(d) /\ ~Hidden(d) => Reported(d)
  BY <1>4 DEF Reported, Standing, About
<1>7. ASSUME Health(doc.findings) = "ok", NEW d \in Defects, Settled(d) PROVE FALSE
  <2>1. \A i \in DOMAIN doc.findings : doc.findings[i].repaired
    BY <1>7, Zenon DEF Health
  <2>2. CASE Hidden(d)
    <3>1. PICK k : k \in doc.closed
      BY <2>2, Zenon DEF Hidden, Skipped
    <3> QED
      BY <1>1, <2>1, <3>1 DEF ClosedIsTold, Standing
  <2>3. CASE ~Hidden(d)
    <3>1. PICK i \in Standing : About(i) = d
      BY <1>4, <1>7, <2>3
    <3>2. i \in DOMAIN doc.findings
      BY <3>1 DEF Standing
    <3> QED
      BY <1>5, <1>7, <2>1, <3>1, <3>2
  <2> QED
    BY <2>2, <2>3
<1> QED
  BY <1>5, <1>6, <1>7 DEF About

LEMMA ReportStutters == ReportInv /\ UNCHANGED doctorVars => ReportInv'
<1> SUFFICES ASSUME ReportInv, UNCHANGED doctorVars PROVE ReportInv'
  OBVIOUS
<1>1. store' = store /\ writer' = writer /\ doc' = doc /\ changed' = changed
  BY DEF doctorVars
<1>2. OthersFit' <=> OthersFit
  BY <1>1 DEF OthersFit
<1>3. ASSUME NEW d PROVE (Amiss(d)' <=> Amiss(d)) /\ PlaceOf(d)' = PlaceOf(d)
  <2>1. /\ \A b, strict : Broken(b, strict)' <=> Broken(b, strict)
        /\ \A c : (Reachable(c)' <=> Reachable(c)) /\ Readable(c)' = Readable(c) /\ (Headerless(c)' <=> Headerless(c))
        /\ Harmless(d)' <=> Harmless(d)
    BY <1>1 DEF Broken, Reachable, Readable, Headerless, Harmless, NotThere, Visible
  <2>2. PlaceOf(d)' = PlaceOf(d)
    BY <2>1 DEF PlaceOf
  <2>3. CASE d[1] = "reference" /\ d[2][1] = "checkpoint"
    <3>1. Amiss(d) <=> Reachable(d[2][2]) /\ d[3] \in ToSet(Readable(d[2][2])) /\ Broken(d[3], doc.strict)
      BY <2>3 DEF Amiss
    <3>2. Amiss(d)' <=> Reachable(d[2][2])' /\ d[3] \in ToSet(Readable(d[2][2])') /\ Broken(d[3], doc.strict)'
      BY <2>3 DEF Amiss
    <3>3. Broken(d[3], doc.strict)' <=> Broken(d[3], doc.strict)
      BY <1>1 DEF Broken
    <3> QED
      BY <2>1, <2>2, <3>1, <3>2, <3>3
  <2>4. CASE d[1] = "reference" /\ d[2][1] # "checkpoint"
    BY <1>1, <2>1, <2>2, <2>4 DEF Amiss, Drained
  <2>5. CASE d[1] = "files"
    BY <1>1, <2>2, <2>5 DEF Amiss
  <2>6. CASE d[1] # "files" /\ d[1] # "reference"
    BY <2>1, <2>2, <2>6 DEF Amiss
  <2> QED
    BY <2>3, <2>4, <2>5, <2>6
<1>4. \A d : (Settled(d)' <=> Settled(d)) /\ (Hidden(d)' <=> Hidden(d)) /\ (Looked(d)' <=> Looked(d))
  BY <1>1 DEF Settled, Hidden, Looked
<1>5. Standing' = Standing /\ \A i : About(i)' = About(i) /\ (Due(i)' <=> Due(i))
  BY <1>1 DEF Standing, About, Due
<1>6. Complete' <=> Complete
  BY <1>3, <1>4, <1>5 DEF Complete
<1>7. Right' <=> Right
  BY <1>1, <1>3, <1>4, <1>5 DEF Right
<1>8. (ClosedIsTold' <=> ClosedIsTold) /\ (VerifiedIsWhole' <=> VerifiedIsWhole) /\ (ListedIsThere' <=> ListedIsThere)
  BY <1>1, <1>4, <1>5 DEF ClosedIsTold, VerifiedIsWhole, ListedIsThere, Broken, Headerless, NotThere
<1>9. FoundByLooking' <=> FoundByLooking
  BY <1>1, <1>3, <1>4, <1>5 DEF FoundByLooking
<1>10. DueAlone' <=> DueAlone
  BY <1>1, <1>4, <1>5 DEF DueAlone
<1>11. DueStands' <=> DueStands
  BY <1>1, <1>4, <1>5 DEF DueStands, Headerless
<1>12. WithdrawnIsChanged' <=> WithdrawnIsChanged
  BY <1>1, <1>4, <1>5 DEF WithdrawnIsChanged
<1> QED
  BY <1>1, <1>2, <1>6, <1>7, <1>8, <1>9, <1>10, <1>11, <1>12 DEF ReportInv, Faithful, Unrepaired

(* Whatever the store holds and whatever others do meanwhile, the report    *)
(* that doctor gives leaves out nothing wrong with anything nobody touched, *)
(* makes nothing up, calls repaired what is, and is ok only when there is   *)
(* nothing to say (Run, repair, Health).                                    *)
THEOREM ReportIsFaithful == DiagnosisSpec => []ReportIsTheDamage
<1> DEFINE Inv == DiagnosisInv /\ ReportInv /\ AboutsAreNamed
<1>1. DoctorInit => Inv
  <2>1. DoctorInit => doc.phase # "reported"
    BY DEF DoctorInit
  <2> QED
    BY <2>1, DiagnosisBegins, ReportBegins DEF AboutsAreNamed
<1>2. Inv /\ [DoctorNext \/ OthersNext]_doctorVars => Inv'
  <2> SUFFICES ASSUME Inv, [DoctorNext \/ OthersNext]_doctorVars PROVE Inv'
    OBVIOUS
  <2>1. CASE DoctorNext
    <3>1. DiagnosisInv' /\ AboutsAreNamed'
      BY <2>1, DoctorKeeps, AboutsStayNamed
    <3>2. ReportInv'
      BY <2>1, InspectKeeps, DiagnosedKeeps, AcquireKeeps, RepairKeeps, ReportKeeps DEF DoctorNext
    <3> QED
      BY <3>1, <3>2
  <2>2. CASE OthersNext
    BY <2>2, OthersKeep, OthersKeepReport, AboutsStayNamed
  <2>3. CASE UNCHANGED doctorVars
    <3>1. store' = store /\ writer' = writer /\ doc' = doc /\ changed' = changed
      BY <2>3 DEF doctorVars
    <3>2. DiagnosisInv'
      BY <3>1 DEF DiagnosisInv, DiagnosisTypes, HeldByTheWriter, RepairIsAlone
    <3>3. AboutsAreNamed'
      BY <3>1 DEF AboutsAreNamed, About, Settled
    <3>4. ReportInv'
      BY <2>3, ReportStutters
    <3> QED
      BY <3>2, <3>3, <3>4
  <2> QED
    BY <2>1, <2>2, <2>3
<1>3. Inv => ReportIsTheDamage
  BY FaithfulIsTheDamage
<1> QED
  BY <1>1, <1>2, <1>3, PTL DEF DiagnosisSpec


-----------------------------------------------------------------------------
(* A command's exit is honest.                                              *)
(*                                                                          *)
(* The argument is the order of a handler's steps: what may refuse the      *)
(* command comes before anything but the guard and the index is changed,    *)
(* and what Ctrl+C may stop before anything is published; the answer is the *)
(* last step and the only one on stdout.                                    *)
Kept == {"guard", "index"}
MayRefuse(step) == step.act = "resolve the project" \/ step.codes \cap {2, 3, 4} # {}
MayHalt(step) == step.act = "wait for the lock" \/ Interrupted \in step.codes
FailureCodes(step) == step.codes \subseteq Nat \ {0}
(* What a step that fails may have changed. *)
Leaves(step) == IF step.effect = "atomic" THEN {} ELSE step.changes

Sequence(s) == Len(s) \in Nat /\ s = [i \in 1 .. Len(s) |-> s[i]]
RefusesInTime(s, i) ==
    MayRefuse(s[i]) => Leaves(s[i]) \subseteq Kept /\ \A j \in 1 .. i - 1 : s[j].changes \subseteq Kept
HaltsInTime(s, i) ==
    MayHalt(s[i]) => /\ Leaves(s[i]) \cap Published = {}
                     /\ \A j \in 1 .. i - 1 : s[j].changes \cap Published = {}
(* late: a target can be found gone when others are removed already. *)
Orderly(s, late) ==
    /\ Sequence(s) /\ Len(s) >= 1
    /\ \A i \in 1 .. Len(s) :
        /\ FailureCodes(s[i])
        /\ i < Len(s) => s[i].act # "answer"
        /\ i = Len(s) => s[i].act = "answer" /\ s[i].changes = {}
        /\ RefusesInTime(s, i) \/ (late /\ s[i].codes \cap {2, 4} = {})
        /\ HaltsInTime(s, i)

(* A step that may come anywhere before the answer. *)
Gentle(step) == FailureCodes(step) /\ step.act # "answer" /\ step.changes \subseteq Kept
Closing(step) == FailureCodes(step) /\ step.act = "answer" /\ step.changes = {}
Easy(p) == Sequence(p) /\ \A i \in 1 .. Len(p) : Gentle(p[i])

(* What has been changed comes from the steps passed. *)
ChangedBefore(s, n) == UNION {s[j].changes : j \in 1 .. n - 1}
LateRemoval(r) == r.handler = <<"run", "rm">>

NothingBegun ==
    /\ at = 1 /\ result = Pending /\ cause = "none" /\ did = {}
    /\ exit = Pending => printed = "none" /\ werr = FALSE
    /\ exit # Pending => answer.kind \in {"refused", "page"} /\ (exit = 0 => printed = "whole")
Request(r) == r.override \in BOOLEAN /\ r.json \in BOOLEAN /\ r.inside \in BOOLEAN
Erred == cause # "none" \/ (req.handler = <<"restore">> /\ result # 0)
Underway ==
    /\ Request(req) /\ answer.kind \in {"command", "child"}
    /\ at \in 1 .. Len(Steps(req)) + 1
    /\ result = Pending => cause = "none"
    /\ cause = "none" =>
        /\ did \subseteq ChangedBefore(Steps(req), at)
        /\ result # Pending => at = Len(Steps(req)) + 1
        /\ at <= Len(Steps(req)) => printed = "none" /\ werr = FALSE
        /\ at = Len(Steps(req)) + 1 => printed = "whole" \/ werr \/ PastTheWriter(req)
        /\ printed = "whole" => ~werr
    /\ cause # "none" => result # 0 /\ printed # "whole"
    /\ cause = "interrupted" => did \cap Published = {}
    /\ exit # Pending => result # Pending /\ exit = IF werr /\ ~Erred THEN 1 ELSE result
SessionInv ==
    /\ req = NoRequest => NothingBegun
    /\ req # NoRequest => Underway
    /\ werr \in BOOLEAN
    /\ RefusalsChangeNothing

LEMMA SequenceOf == ASSUME NEW S, NEW s \in Seq(S) PROVE Sequence(s)
<1>1. Len(s) \in Nat /\ s \in [1 .. Len(s) -> S]
  BY LenProperties
<1> QED
  BY <1>1 DEF Sequence

(* Two sequences one after the other. *)
LEMMA Joining ==
    ASSUME NEW p, NEW t, Sequence(p), Sequence(t)
    PROVE  /\ Sequence(p \o t) /\ Len(p \o t) = Len(p) + Len(t)
           /\ \A i \in 1 .. Len(p) : (p \o t)[i] = p[i]
           /\ \A i \in 1 .. Len(t) : (p \o t)[Len(p) + i] = t[i]
<1> DEFINE S == {p[i] : i \in 1 .. Len(p)} \cup {t[i] : i \in 1 .. Len(t)}
<1>1. p \in Seq(S)
  <2>1. p \in [1 .. Len(p) -> S]
    BY DEF Sequence
  <2> QED
    BY <2>1 DEF Sequence
<1>2. t \in Seq(S)
  <2>1. t \in [1 .. Len(t) -> S]
    BY DEF Sequence
  <2> QED
    BY <2>1 DEF Sequence
<1> HIDE DEF S
<1>3. /\ p \o t \in Seq(S) /\ Len(p \o t) = Len(p) + Len(t)
      /\ \A i \in 1 .. Len(p) + Len(t) : (p \o t)[i] = IF i <= Len(p) THEN p[i] ELSE t[i - Len(p)]
  BY <1>1, <1>2, ConcatProperties
<1>4. Len(p) \in Nat /\ Len(t) \in Nat
  BY DEF Sequence
<1>5. p \o t = [i \in 1 .. Len(p \o t) |-> (p \o t)[i]]
  BY <1>3, SequenceOf DEF Sequence
<1> QED
  BY <1>3, <1>4, <1>5 DEF Sequence

LEMMA EasyOne == ASSUME NEW a, Gentle(a) PROVE Easy(<<a>>)
BY DEF Easy, Sequence

LEMMA EasyTwo == ASSUME NEW a, NEW b, Gentle(a), Gentle(b) PROVE Easy(<<a, b>>)
BY DEF Easy, Sequence

LEMMA EasyThree == ASSUME NEW a, NEW b, NEW c, Gentle(a), Gentle(b), Gentle(c) PROVE Easy(<<a, b, c>>)
BY DEF Easy, Sequence

LEMMA EasyWhen == ASSUME NEW c \in BOOLEAN, NEW a, c => Gentle(a) PROVE Easy(When(c, a))
<1>1. Easy(<<>>)
  BY DEF Easy, Sequence
<1> QED
  BY <1>1, EasyOne DEF When

LEMMA EasyThenEasy == ASSUME NEW p, NEW q, Easy(p), Easy(q) PROVE Easy(p \o q)
<1>1. /\ Sequence(p \o q) /\ Len(p \o q) = Len(p) + Len(q) /\ Len(p) \in Nat /\ Len(q) \in Nat
      /\ \A i \in 1 .. Len(p) : (p \o q)[i] = p[i]
      /\ \A i \in 1 .. Len(q) : (p \o q)[Len(p) + i] = q[i]
  BY Joining DEF Easy, Sequence
<1>2. ASSUME NEW i \in 1 .. Len(p \o q)
      PROVE  Gentle((p \o q)[i])
  <2>1. CASE i \in 1 .. Len(p)
    BY <1>1, <2>1 DEF Easy
  <2>2. CASE i \notin 1 .. Len(p)
    <3>1. i - Len(p) \in 1 .. Len(q) /\ i = Len(p) + (i - Len(p))
      BY <1>1, <2>2
    <3> QED
      BY <1>1, <3>1 DEF Easy
  <2> QED
    BY <2>1, <2>2
<1> QED
  BY <1>1, <1>2 DEF Easy

(* Gentle steps put before an orderly sequence leave it orderly. *)
LEMMA EasyThenOrderly ==
    ASSUME NEW p, NEW t, NEW late \in BOOLEAN, Easy(p), Orderly(t, late)
    PROVE  Orderly(p \o t, late)
<1> DEFINE s == p \o t
<1>1. /\ Sequence(s) /\ Len(s) = Len(p) + Len(t) /\ Len(p) \in Nat /\ Len(t) \in Nat
      /\ \A i \in 1 .. Len(p) : s[i] = p[i]
      /\ \A i \in 1 .. Len(t) : s[Len(p) + i] = t[i]
  BY Joining DEF Easy, Orderly, Sequence
<1> HIDE DEF s
<1>2. \A i \in 1 .. Len(p) : Gentle(p[i])
  BY DEF Easy
<1>3. \A i \in 1 .. Len(p) : p[i].changes \subseteq Kept /\ p[i].changes \cap Published = {} /\ Leaves(p[i]) \subseteq Kept
  BY <1>2 DEF Gentle, Kept, Published, Leaves
<1>4. ASSUME NEW i \in 1 .. Len(s)
      PROVE  /\ FailureCodes(s[i])
             /\ i < Len(s) => s[i].act # "answer"
             /\ i = Len(s) => s[i].act = "answer" /\ s[i].changes = {}
             /\ RefusesInTime(s, i) \/ (late /\ s[i].codes \cap {2, 4} = {})
             /\ HaltsInTime(s, i)
  <2>1. CASE i \in 1 .. Len(p)
    <3>1. s[i] = p[i] /\ \A j \in 1 .. i - 1 : s[j] = p[j] /\ j \in 1 .. Len(p)
      BY <1>1, <2>1
    <3>2. FailureCodes(s[i]) /\ s[i].act # "answer" /\ i # Len(s)
      BY <1>1, <1>2, <2>1, <3>1 DEF Gentle, Orderly
    <3>3. RefusesInTime(s, i)
      BY <1>3, <2>1, <3>1 DEF RefusesInTime
    <3>4. HaltsInTime(s, i)
      BY <1>3, <2>1, <3>1 DEF HaltsInTime, Kept, Published
    <3> QED
      BY <3>2, <3>3, <3>4
  <2>2. CASE i \notin 1 .. Len(p)
    <3> DEFINE k == i - Len(p)
    <3>1. k \in 1 .. Len(t) /\ i = Len(p) + k /\ (i = Len(s) <=> k = Len(t)) /\ (i < Len(s) <=> k < Len(t))
      BY <1>1, <2>2
    <3>2. s[i] = t[k]
      BY <1>1, <3>1
    <3>3. ASSUME NEW j \in 1 .. i - 1
          PROVE  \/ j \in 1 .. Len(p) /\ s[j] = p[j]
                 \/ \E l \in 1 .. k - 1 : s[j] = t[l]
      <4>1. CASE j \in 1 .. Len(p)
        BY <1>1, <4>1
      <4>2. CASE j \notin 1 .. Len(p)
        <5>1. j - Len(p) \in 1 .. k - 1 /\ j - Len(p) \in 1 .. Len(t) /\ j = Len(p) + (j - Len(p))
          BY <1>1, <3>1, <4>2
        <5>2. s[j] = t[j - Len(p)]
          BY <1>1, <5>1
        <5> QED
          BY <5>1, <5>2
      <4> QED
        BY <4>1, <4>2
    <3> HIDE DEF k
    <3>4. /\ FailureCodes(t[k])
          /\ k < Len(t) => t[k].act # "answer"
          /\ k = Len(t) => t[k].act = "answer" /\ t[k].changes = {}
          /\ RefusesInTime(t, k) \/ (late /\ t[k].codes \cap {2, 4} = {})
          /\ HaltsInTime(t, k)
      BY <3>1 DEF Orderly
    <3>5. RefusesInTime(t, k) => RefusesInTime(s, i)
      BY <1>3, <3>2, <3>3 DEF RefusesInTime
    <3>6. HaltsInTime(t, k) => HaltsInTime(s, i)
      BY <1>3, <3>2, <3>3 DEF HaltsInTime
    <3> QED
      BY <3>1, <3>2, <3>4, <3>5, <3>6
  <2> QED
    BY <2>1, <2>2
<1>5. Len(s) >= 1
  BY <1>1 DEF Orderly
<1> QED
  BY <1>1, <1>4, <1>5 DEF Orderly, s

LEMMA Regrouped ==
    ASSUME NEW p, NEW q, NEW t, Sequence(p), Sequence(q), Sequence(t)
    PROVE  (p \o q) \o t = p \o (q \o t)
<1> DEFINE a == (p \o q) \o t
           b == p \o (q \o t)
<1>1. /\ Sequence(a) /\ Sequence(b) /\ Len(a) = Len(p) + Len(q) + Len(t) /\ Len(b) = Len(a)
      /\ Len(p) \in Nat /\ Len(q) \in Nat /\ Len(t) \in Nat
  <2>1. Len(p) \in Nat /\ Len(q) \in Nat /\ Len(t) \in Nat
    BY DEF Sequence
  <2>2. Sequence(p \o q) /\ Len(p \o q) = Len(p) + Len(q) /\ Sequence(q \o t) /\ Len(q \o t) = Len(q) + Len(t)
    BY Joining
  <2>3. Sequence(a) /\ Len(a) = Len(p) + Len(q) + Len(t)
    BY <2>2, Joining
  <2>4. Sequence(b) /\ Len(b) = Len(p) + (Len(q) + Len(t))
    BY <2>2, Joining
  <2> HIDE DEF a, b
  <2> QED
    BY <2>1, <2>3, <2>4
<1>2. ASSUME NEW i \in 1 .. Len(a)
      PROVE  a[i] = b[i]
  <2>1. CASE i \in 1 .. Len(p)
    <3>1. i \in 1 .. Len(p \o q)
      BY <1>1, <2>1, Joining
    <3> QED
      BY <2>1, <3>1, Joining
  <2>2. CASE i - Len(p) \in 1 .. Len(q)
    <3>1. i \in 1 .. Len(p \o q) /\ i - Len(p) \in 1 .. Len(q \o t) /\ i = Len(p) + (i - Len(p))
      BY <1>1, <2>2, Joining
    <3>2. a[i] = (p \o q)[i] /\ (p \o q)[i] = q[i - Len(p)]
      BY <2>2, <3>1, Joining
    <3>3. b[i] = (q \o t)[i - Len(p)] /\ (q \o t)[i - Len(p)] = q[i - Len(p)]
      BY <2>2, <3>1, Joining
    <3> QED
      BY <3>2, <3>3
  <2>3. CASE i - Len(p) - Len(q) \in 1 .. Len(t)
    <3> DEFINE k == i - Len(p) - Len(q)
    <3>1. Len(q) + k \in 1 .. Len(q \o t) /\ Len(p \o q) = Len(p) + Len(q) /\ i = Len(p \o q) + k
          /\ i = Len(p) + (Len(q) + k)
      BY <1>1, <2>3, Joining
    <3>2. a[i] = t[k]
      BY <2>3, <3>1, Joining
    <3>3. b[i] = (q \o t)[Len(q) + k] /\ (q \o t)[Len(q) + k] = t[k]
      BY <2>3, <3>1, Joining
    <3> QED
      BY <3>2, <3>3
  <2> QED
    BY <1>1, <2>1, <2>2, <2>3
<1> QED
  BY <1>1, <1>2 DEF Sequence

(* What may follow a step that changes more. *)
Unrefusing(t) == \A i \in 1 .. Len(t) : ~MayRefuse(t[i])
Unhalting(t) == \A i \in 1 .. Len(t) : ~MayHalt(t[i])
Smooth(t) == Orderly(t, FALSE) /\ Unrefusing(t)
Tame(t) == Smooth(t) /\ Unhalting(t)
Private(step) == /\ FailureCodes(step) /\ step.act # "answer" /\ ~MayRefuse(step)
                 /\ step.changes \cap Published = {}
Firm(step) == FailureCodes(step) /\ step.act # "answer" /\ ~MayRefuse(step) /\ ~MayHalt(step)

LEMMA FirstStep ==
    ASSUME NEW a, NEW t, NEW late \in BOOLEAN, Orderly(t, late), FailureCodes(a), a.act # "answer",
           a.changes \subseteq Kept \/ Unrefusing(t),
           a.changes \cap Published = {} \/ Unhalting(t),
           MayRefuse(a) => Leaves(a) \subseteq Kept,
           MayHalt(a) => Leaves(a) \cap Published = {}
    PROVE  /\ Orderly(<<a>> \o t, late)
           /\ Unrefusing(t) /\ ~MayRefuse(a) => Unrefusing(<<a>> \o t)
           /\ Unhalting(t) /\ ~MayHalt(a) => Unhalting(<<a>> \o t)
<1> DEFINE s == <<a>> \o t
<1>1. Sequence(<<a>>) /\ Len(<<a>>) = 1 /\ <<a>>[1] = a
  BY DEF Sequence
<1>2. /\ Sequence(s) /\ Len(s) = 1 + Len(t) /\ Len(t) \in Nat
      /\ s[1] = a
      /\ \A i \in 1 .. Len(t) : s[1 + i] = t[i]
  BY <1>1, Joining DEF Orderly, Sequence
<1> HIDE DEF s
<1>3. Len(t) >= 1
  BY DEF Orderly
<1>4. ASSUME NEW i \in 1 .. Len(s)
      PROVE  /\ FailureCodes(s[i])
             /\ i < Len(s) => s[i].act # "answer"
             /\ i = Len(s) => s[i].act = "answer" /\ s[i].changes = {}
             /\ RefusesInTime(s, i) \/ (late /\ s[i].codes \cap {2, 4} = {})
             /\ HaltsInTime(s, i)
             /\ Unrefusing(t) /\ ~MayRefuse(a) => ~MayRefuse(s[i])
             /\ Unhalting(t) /\ ~MayHalt(a) => ~MayHalt(s[i])
  <2>1. CASE i = 1
    BY <1>2, <1>3, <2>1 DEF RefusesInTime, HaltsInTime
  <2>2. CASE i # 1
    <3> DEFINE k == i - 1
    <3>1. k \in 1 .. Len(t) /\ i = 1 + k /\ (i = Len(s) <=> k = Len(t)) /\ (i < Len(s) <=> k < Len(t))
      BY <1>2, <2>2
    <3>2. s[i] = t[k]
      BY <1>2, <3>1
    <3>3. ASSUME NEW j \in 1 .. i - 1
          PROVE  s[j] = a \/ \E l \in 1 .. k - 1 : s[j] = t[l]
      <4>1. CASE j = 1
        BY <1>2, <4>1
      <4>2. CASE j # 1
        <5>1. j - 1 \in 1 .. k - 1 /\ j - 1 \in 1 .. Len(t) /\ j = 1 + (j - 1)
          BY <1>2, <3>1, <4>2
        <5>2. s[j] = t[j - 1]
          BY <1>2, <5>1
        <5> QED
          BY <5>1, <5>2
      <4> QED
        BY <4>1, <4>2
    <3> HIDE DEF k
    <3>4. /\ FailureCodes(t[k])
          /\ k < Len(t) => t[k].act # "answer"
          /\ k = Len(t) => t[k].act = "answer" /\ t[k].changes = {}
          /\ RefusesInTime(t, k) \/ (late /\ t[k].codes \cap {2, 4} = {})
          /\ HaltsInTime(t, k)
      BY <3>1 DEF Orderly
    <3>5. RefusesInTime(t, k) => RefusesInTime(s, i)
      BY <3>1, <3>2, <3>3 DEF RefusesInTime, Unrefusing
    <3>6. HaltsInTime(t, k) => HaltsInTime(s, i)
      BY <3>1, <3>2, <3>3 DEF HaltsInTime, Unhalting
    <3> QED
      BY <3>1, <3>2, <3>4, <3>5, <3>6 DEF Unrefusing, Unhalting
  <2> QED
    BY <2>1, <2>2
<1>5. Orderly(s, late)
  BY <1>2, <1>3, <1>4 DEF Orderly
<1> QED
  BY <1>4, <1>5 DEF Unrefusing, Unhalting, s

LEMMA LateOrNot == ASSUME NEW t, NEW late \in BOOLEAN, Orderly(t, FALSE) PROVE Orderly(t, late)
BY DEF Orderly

LEMMA FirmFirst == ASSUME NEW a, NEW t, Firm(a), Tame(t) PROVE Tame(<<a>> \o t)
BY FirstStep DEF Firm, Tame, Smooth

LEMMA PrivateFirst == ASSUME NEW a, NEW t, Private(a), Smooth(t) PROVE Smooth(<<a>> \o t)
<1>1. Leaves(a) \cap Published = {}
  BY DEF Private, Leaves
<1> QED
  BY <1>1, FirstStep DEF Private, Smooth

LEMMA TwoElements == ASSUME NEW s, Sequence(s), Len(s) = 2 PROVE s = <<s[1], s[2]>>
BY DEF Sequence

LEMMA Pairing == ASSUME NEW a, NEW b PROVE <<a, b>> = <<a>> \o <<b>>
<1>1. Sequence(<<a>>) /\ Sequence(<<b>>) /\ Len(<<a>>) = 1 /\ Len(<<b>>) = 1 /\ <<a>>[1] = a /\ <<b>>[1] = b
  BY DEF Sequence
<1>2. /\ Sequence(<<a>> \o <<b>>) /\ Len(<<a>> \o <<b>>) = 2
      /\ (<<a>> \o <<b>>)[1] = a /\ (<<a>> \o <<b>>)[2] = b
  BY <1>1, Joining
<1> QED
  BY <1>2, TwoElements

LEMMA Tripling == ASSUME NEW a, NEW b, NEW c PROVE <<a, b, c>> = <<a>> \o <<b, c>>
OBVIOUS

LEMMA Quadrupling == ASSUME NEW a, NEW b, NEW c, NEW d PROVE <<a, b, c, d>> = <<a>> \o <<b, c, d>>
OBVIOUS

LEMMA Quintupling ==
    ASSUME NEW a, NEW b, NEW c, NEW d, NEW e PROVE <<a, b, c, d, e>> = <<a>> \o <<b, c, d, e>>
OBVIOUS

LEMMA Sextupling ==
    ASSUME NEW a, NEW b, NEW c, NEW d, NEW e, NEW f
    PROVE  <<a, b, c, d, e, f>> = <<a>> \o <<b, c, d, e, f>>
OBVIOUS

LEMMA SevenElements ==
    ASSUME NEW s, Sequence(s), Len(s) = 7
    PROVE  s = <<s[1], s[2], s[3], s[4], s[5], s[6], s[7]>>
BY DEF Sequence

LEMMA EightElements ==
    ASSUME NEW s, Sequence(s), Len(s) = 8
    PROVE  s = <<s[1], s[2], s[3], s[4], s[5], s[6], s[7], s[8]>>
BY DEF Sequence

LEMMA NineElements ==
    ASSUME NEW s, Sequence(s), Len(s) = 9
    PROVE  s = <<s[1], s[2], s[3], s[4], s[5], s[6], s[7], s[8], s[9]>>
BY DEF Sequence

LEMMA Septupling ==
    ASSUME NEW a, NEW b, NEW c, NEW d, NEW e, NEW f, NEW g
    PROVE  <<a, b, c, d, e, f, g>> = <<a>> \o <<b, c, d, e, f, g>>
<1> DEFINE p == <<a>>
           t == <<b, c, d, e, f, g>>
<1>1. p[1] = a /\ Len(p) = 1
      /\ t[1] = b /\ t[2] = c /\ t[3] = d /\ t[4] = e /\ t[5] = f /\ t[6] = g /\ Len(t) = 6
  OBVIOUS
<1>2. Sequence(p) /\ Sequence(t)
  BY DEF Sequence
<1> HIDE DEF p, t
<1>3. /\ Sequence(p \o t) /\ Len(p \o t) = Len(p) + Len(t)
      /\ \A i \in 1 .. Len(p) : (p \o t)[i] = p[i]
      /\ \A i \in 1 .. Len(t) : (p \o t)[Len(p) + i] = t[i]
  BY <1>2, Joining
<1>4. /\ Sequence(p \o t) /\ Len(p \o t) = 7
      /\ \A i \in 1 .. Len(p) : (p \o t)[i] = p[i]
      /\ \A i \in 1 .. Len(t) : (p \o t)[Len(p) + i] = t[i]
  BY <1>1, <1>3
<1>5. /\ (p \o t)[1] = a
      /\ (p \o t)[2] = b
      /\ (p \o t)[3] = c
      /\ (p \o t)[4] = d
      /\ (p \o t)[5] = e
      /\ (p \o t)[6] = f
      /\ (p \o t)[7] = g
  BY <1>1, <1>4
<1> QED
  BY <1>4, <1>5, SevenElements DEF p, t

LEMMA Octupling ==
    ASSUME NEW a, NEW b, NEW c, NEW d, NEW e, NEW f, NEW g, NEW h
    PROVE  <<a, b, c, d, e, f, g, h>> = <<a>> \o <<b, c, d, e, f, g, h>>
<1> DEFINE p == <<a>>
           t == <<b, c, d, e, f, g, h>>
<1>1. p[1] = a /\ Len(p) = 1
      /\ t[1] = b /\ t[2] = c /\ t[3] = d /\ t[4] = e /\ t[5] = f /\ t[6] = g /\ t[7] = h /\ Len(t) = 7
  OBVIOUS
<1>2. Sequence(p) /\ Sequence(t)
  BY DEF Sequence
<1> HIDE DEF p, t
<1>3. /\ Sequence(p \o t) /\ Len(p \o t) = Len(p) + Len(t)
      /\ \A i \in 1 .. Len(p) : (p \o t)[i] = p[i]
      /\ \A i \in 1 .. Len(t) : (p \o t)[Len(p) + i] = t[i]
  BY <1>2, Joining
<1>4. /\ Sequence(p \o t) /\ Len(p \o t) = 8
      /\ \A i \in 1 .. Len(p) : (p \o t)[i] = p[i]
      /\ \A i \in 1 .. Len(t) : (p \o t)[Len(p) + i] = t[i]
  BY <1>1, <1>3
<1>5. /\ (p \o t)[1] = a
      /\ (p \o t)[2] = b
      /\ (p \o t)[3] = c
      /\ (p \o t)[4] = d
      /\ (p \o t)[5] = e
      /\ (p \o t)[6] = f
      /\ (p \o t)[7] = g
      /\ (p \o t)[8] = h
  BY <1>1, <1>4
<1> QED
  BY <1>4, <1>5, EightElements DEF p, t

LEMMA Nonupling ==
    ASSUME NEW a, NEW b, NEW c, NEW d, NEW e, NEW f, NEW g, NEW h, NEW k
    PROVE  <<a, b, c, d, e, f, g, h, k>> = <<a>> \o <<b, c, d, e, f, g, h, k>>
<1> DEFINE p == <<a>>
           t == <<b, c, d, e, f, g, h, k>>
<1>1. p[1] = a /\ Len(p) = 1
      /\ t[1] = b /\ t[2] = c /\ t[3] = d /\ t[4] = e /\ t[5] = f /\ t[6] = g /\ t[7] = h /\ t[8] = k /\ Len(t) = 8
  OBVIOUS
<1>2. Sequence(p) /\ Sequence(t)
  BY DEF Sequence
<1> HIDE DEF p, t
<1>3. /\ Sequence(p \o t) /\ Len(p \o t) = Len(p) + Len(t)
      /\ \A i \in 1 .. Len(p) : (p \o t)[i] = p[i]
      /\ \A i \in 1 .. Len(t) : (p \o t)[Len(p) + i] = t[i]
  BY <1>2, Joining
<1>4. /\ Sequence(p \o t) /\ Len(p \o t) = 9
      /\ \A i \in 1 .. Len(p) : (p \o t)[i] = p[i]
      /\ \A i \in 1 .. Len(t) : (p \o t)[Len(p) + i] = t[i]
  BY <1>1, <1>3
<1>5. /\ (p \o t)[1] = a
      /\ (p \o t)[2] = b
      /\ (p \o t)[3] = c
      /\ (p \o t)[4] = d
      /\ (p \o t)[5] = e
      /\ (p \o t)[6] = f
      /\ (p \o t)[7] = g
      /\ (p \o t)[8] = h
      /\ (p \o t)[9] = k
  BY <1>1, <1>4
<1> QED
  BY <1>4, <1>5, NineElements DEF p, t

LEMMA ThreeAndFour ==
    ASSUME NEW a, NEW b, NEW c, NEW d, NEW e, NEW f, NEW g
    PROVE  <<a, b, c, d, e, f, g>> = <<a, b, c>> \o <<d, e, f, g>>
<1> DEFINE p == <<a, b, c>>
           t == <<d, e, f, g>>
<1>1. p[1] = a /\ p[2] = b /\ p[3] = c /\ Len(p) = 3
      /\ t[1] = d /\ t[2] = e /\ t[3] = f /\ t[4] = g /\ Len(t) = 4
  OBVIOUS
<1>2. Sequence(p) /\ Sequence(t)
  BY DEF Sequence
<1> HIDE DEF p, t
<1>3. /\ Sequence(p \o t) /\ Len(p \o t) = Len(p) + Len(t)
      /\ \A i \in 1 .. Len(p) : (p \o t)[i] = p[i]
      /\ \A i \in 1 .. Len(t) : (p \o t)[Len(p) + i] = t[i]
  BY <1>2, Joining
<1>4. /\ Sequence(p \o t) /\ Len(p \o t) = 7
      /\ \A i \in 1 .. Len(p) : (p \o t)[i] = p[i]
      /\ \A i \in 1 .. Len(t) : (p \o t)[Len(p) + i] = t[i]
  BY <1>1, <1>3
<1>5. /\ (p \o t)[1] = a /\ (p \o t)[2] = b /\ (p \o t)[3] = c
      /\ (p \o t)[4] = d
      /\ (p \o t)[5] = e
      /\ (p \o t)[6] = f
      /\ (p \o t)[7] = g
  BY <1>1, <1>4
<1> QED
  BY <1>4, <1>5, SevenElements DEF p, t

LEMMA EmptyFirst == ASSUME NEW t, Sequence(t) PROVE <<>> \o t = t
<1>1. Sequence(<<>>) /\ Len(<<>>) = 0
  BY DEF Sequence
<1>2. /\ Sequence(<<>> \o t) /\ Len(<<>> \o t) = 0 + Len(t) /\ Len(t) \in Nat
      /\ \A i \in 1 .. Len(t) : (<<>> \o t)[0 + i] = t[i]
  BY <1>1, Joining DEF Sequence
<1> QED
  BY <1>2 DEF Sequence

LEMMA Closed ==
    ASSUME NEW c, NEW late \in BOOLEAN, Closing(c)
    PROVE  /\ Orderly(<<c>>, late)
           /\ ~MayRefuse(c) /\ ~MayHalt(c) => Tame(<<c>>)
<1>1. Sequence(<<c>>) /\ Len(<<c>>) = 1 /\ <<c>>[1] = c
  BY DEF Sequence
<1> DEFINE s == <<c>>
<1> HIDE DEF s
<1>2. FailureCodes(c) /\ c.act = "answer" /\ c.changes = {} /\ Leaves(c) = {}
  BY DEF Closing, Leaves
<1>3. RefusesInTime(s, 1) /\ HaltsInTime(s, 1)
  BY <1>1, <1>2 DEF RefusesInTime, HaltsInTime, s
<1>4. \A l \in BOOLEAN : Orderly(s, l)
  BY <1>1, <1>2, <1>3 DEF Orderly, s
<1>5. ASSUME ~MayRefuse(c), ~MayHalt(c)
      PROVE  Tame(s)
  <2>1. Len(s) = 1 /\ s[1] = c
    BY <1>1 DEF s
  <2>2. Unrefusing(s) /\ Unhalting(s)
    BY <1>5, <2>1 DEF Unrefusing, Unhalting
  <2> QED
    BY <1>4, <2>2 DEF Tame, Smooth
<1> QED
  BY <1>4, <1>5 DEF s

LEMMA AnswerLast == Tame(<<Answer>>)
<1>1. Answer.act = "answer" /\ Answer.codes = {} /\ Answer.changes = {}
  BY DEF Answer, Do, Step
<1>2. Closing(Answer) /\ ~MayRefuse(Answer) /\ ~MayHalt(Answer)
  BY <1>1 DEF Closing, MayRefuse, MayHalt, FailureCodes
<1> QED
  BY <1>2, Closed

LEMMA StreamLast == Orderly(<<AnswerStream>>, FALSE)
<1>1. AnswerStream.act = "answer" /\ AnswerStream.codes \subseteq Nat \ {0} /\ AnswerStream.changes = {}
  BY DEF AnswerStream, Do, Step, StateCodes, Interrupted
<1> QED
  BY <1>1, Closed DEF Closing, FailureCodes
(* Gentle steps and the answer. *)
LEMMA GentleThenAnswer ==
    ASSUME NEW late \in BOOLEAN, NEW a, NEW b, NEW c, NEW d, Gentle(a), Gentle(b), Gentle(c), Gentle(d)
    PROVE  /\ Orderly(<<Answer>>, late) /\ Orderly(<<a, Answer>>, late)
           /\ Orderly(<<a, b, Answer>>, late) /\ Orderly(<<a, b, c, Answer>>, late)
           /\ Orderly(<<a, b, c, d, Answer>>, late)
<1> DEFINE A == Answer
<1>1. Orderly(<<A>>, late)
  BY AnswerLast, LateOrNot DEF Tame, Smooth
<1> HIDE DEF A
<1>2. \A t : Orderly(t, late) =>
        /\ Orderly(<<a>> \o t, late) /\ Orderly(<<b>> \o t, late)
        /\ Orderly(<<c>> \o t, late) /\ Orderly(<<d>> \o t, late)
  BY EasyOne, EasyThenOrderly
<1>3. <<a, A>> = <<a>> \o <<A>> /\ <<b, A>> = <<b>> \o <<A>> /\ <<c, A>> = <<c>> \o <<A>> /\ <<d, A>> = <<d>> \o <<A>>
  BY Pairing
<1>4. <<a, b, A>> = <<a>> \o <<b, A>> /\ <<b, c, A>> = <<b>> \o <<c, A>> /\ <<c, d, A>> = <<c>> \o <<d, A>>
  BY Tripling
<1>5. <<a, b, c, A>> = <<a>> \o <<b, c, A>> /\ <<b, c, d, A>> = <<b>> \o <<c, d, A>>
  BY Quadrupling
<1>6. <<a, b, c, d, A>> = <<a>> \o <<b, c, d, A>>
  OBVIOUS
<1>7. Orderly(<<a, A>>, late) /\ Orderly(<<b, A>>, late) /\ Orderly(<<c, A>>, late) /\ Orderly(<<d, A>>, late)
  BY <1>1, <1>2, <1>3
<1>8. Orderly(<<a, b, A>>, late) /\ Orderly(<<b, c, A>>, late) /\ Orderly(<<c, d, A>>, late)
  BY <1>2, <1>4, <1>7
<1>9. Orderly(<<a, b, c, A>>, late) /\ Orderly(<<b, c, d, A>>, late)
  BY <1>2, <1>5, <1>8
<1> QED
  BY <1>1, <1>2, <1>6, <1>7, <1>8, <1>9 DEF A

(* The steps every handler begins with. *)
LEMMA GentleSteps ==
    ASSUME NEW strict \in BOOLEAN
    PROVE  /\ Gentle(Arguments) /\ Gentle(Resolve) /\ Gentle(Load) /\ Gentle(WaitForLock)
           /\ Gentle(WorkingDirectory) /\ Gentle(PathFilters) /\ Gentle(Guard(strict))
<1>1. Gentle(Arguments) /\ Gentle(Resolve) /\ Gentle(Load)
  BY DEF Gentle, FailureCodes, Arguments, Resolve, Load, Do, Step
<1>2. Gentle(WaitForLock) /\ Gentle(WorkingDirectory) /\ Gentle(PathFilters)
  BY DEF Gentle, FailureCodes, WaitForLock, LockTimeout, WorkingDirectory, PathFilters, Do, Step
<1>3. Gentle(Guard(strict))
  BY DEF Gentle, FailureCodes, Guard, Perhaps, Step, Kept
<1> QED
  BY <1>1, <1>2, <1>3

LEMMA GentleDo ==
    ASSUME NEW act, act # "answer", NEW codes \in SUBSET {1, 2, 3, 4, 5, Interrupted}
    PROVE  Gentle(Do(act, codes))
BY DEF Gentle, FailureCodes, Do, Step, Interrupted

LEMMA Layers ==
    ASSUME NEW r, r.override \in BOOLEAN
    PROVE  /\ Easy(Override(r)) /\ Easy(ProjectLayers(r)) /\ Easy(ProjectConfig(r))
           /\ Easy(ConfigLayerFiles(r))
<1>1. Easy(Override(r))
  BY GentleDo, EasyWhen DEF Override
<1>2. Easy(ProjectLayers(r))
  BY <1>1, GentleSteps, EasyOne, EasyThenEasy DEF ProjectLayers
<1>3. Easy(ProjectConfig(r))
  BY <1>2, GentleSteps, EasyOne, EasyThenEasy DEF ProjectConfig
<1>4. Easy(ConfigLayerFiles(r))
  BY <1>1, GentleSteps, EasyWhen, EasyThenEasy DEF ConfigLayerFiles
<1> QED
  BY <1>1, <1>2, <1>3, <1>4
(* The commands that only read: gentle to the end. *)
LEMMA ReadersAreOrderly ==
    ASSUME NEW r, Request(r), NEW late \in BOOLEAN
    PROVE  /\ Orderly(Status(r), late) /\ Orderly(Log(r), late) /\ Orderly(Comparison(r), late)
           /\ Orderly(RunExplainOf(r), late) /\ Orderly(RunLs(r), late) /\ Orderly(RunLog(r), late)
           /\ Orderly(RunAudit(r), late) /\ Orderly(RunShow(r), late)
           /\ Orderly(ConfigPath(r), late) /\ Orderly(ConfigShow(r), late)
           /\ Orderly(ConfigEffective(r), late) /\ Orderly(ConfigValidate(r), late)
           /\ Orderly(ConfigTemplate(r), late) /\ Orderly(StateQuery(r), late)
           /\ Orderly(<<Arguments, Answer>>, late)
<1> DEFINE Codes == SUBSET {1, 2, 3, 4, 5, Interrupted}
<1>1. Easy(ProjectLayers(r)) /\ Easy(ProjectConfig(r)) /\ Easy(ConfigLayerFiles(r))
  BY Layers DEF Request
<1>2. Easy(<<Arguments>>) /\ Easy(<<Arguments>> \o ProjectConfig(r)) /\ Easy(<<Arguments>> \o ConfigLayerFiles(r))
  BY <1>1, GentleSteps, EasyOne, EasyThenEasy
<1>3. \A codes \in Codes : \A act : act # "answer" => Gentle(Do(act, codes))
  BY GentleDo
<1>4. \A p, t : Easy(p) /\ Orderly(t, late) => Orderly(p \o t, late)
  BY EasyThenOrderly
<1>5. /\ {1, 3, 4, Interrupted} \in Codes /\ {} \in Codes /\ {1} \in Codes /\ {4} \in Codes
      /\ {1, 2} \in Codes /\ {1, 5} \in Codes /\ {1, Interrupted} \in Codes /\ {1, 5, Interrupted} \in Codes
      /\ StateCodes \in Codes /\ RunCodes \in Codes /\ KeyCodes \in Codes
  BY DEF StateCodes, RunCodes, KeyCodes
<1> HIDE DEF Codes
<1>6. Orderly(Status(r), late)
  <2>1. Gentle(Guard(FALSE)) /\ Gentle(Do("collect the durable facts", {1, 3, 4, Interrupted})) /\ Gentle(Do("review", {}))
    BY <1>3, <1>5, GentleSteps
  <2>2. Orderly(<<Guard(FALSE), Do("collect the durable facts", {1, 3, 4, Interrupted}), Do("review", {}), Answer>>, late)
    BY <2>1, GentleThenAnswer
  <2> QED
    BY <1>2, <1>4, <2>2 DEF Status
<1>7. Orderly(Log(r), late)
  <2>1. /\ Gentle(Arguments) /\ Gentle(Resolve) /\ Gentle(Do("load the layers", {4}))
        /\ Gentle(Do("merge the histories", {1, 5, Interrupted})) /\ Gentle(Do("walk the headers", {1, 5, Interrupted}))
    BY <1>3, <1>5, GentleSteps
  <2>2. Gentle(Do(IF r.mode = "timeline" THEN "merge the histories" ELSE "walk the headers", {1, 5, Interrupted}))
    BY <2>1
  <2> QED
    BY <2>1, <2>2, GentleThenAnswer DEF Log
<1>8. Orderly(Comparison(r), late)
  <2>1. Gentle(PathFilters) /\ Gentle(Do("resolve and compare", StateCodes))
    BY <1>3, <1>5, GentleSteps
  <2>2. Orderly(<<AnswerStream>>, late)
    BY StreamLast, LateOrNot
  <2>3. Orderly(<<PathFilters, Do("resolve and compare", StateCodes)>> \o <<AnswerStream>>, late)
    BY <1>4, <2>1, <2>2, EasyTwo
  <2>4. Orderly(<<PathFilters>> \o <<Do("resolve and compare", StateCodes), AnswerStream>>, late)
    BY <1>4, <2>1, <2>2, EasyOne, Pairing
  <2>5. Orderly(<<PathFilters, Do("resolve and compare", StateCodes), AnswerStream>>, late)
    BY <2>4, Tripling
  <2> QED
    BY <1>2, <1>4, <2>5 DEF Comparison
<1>9. Orderly(RunExplainOf(r), late)
  <2> DEFINE where == <<WorkingDirectory, Do("resolve the child's directory", {1, 2}), Do("resolve the scope", {1, 2})>>
             mid == IF r.mode = "command" THEN where ELSE <<>>
  <2>1. /\ Gentle(WorkingDirectory) /\ Gentle(Do("resolve the child's directory", {1, 2}))
        /\ Gentle(Do("resolve the scope", {1, 2})) /\ Gentle(Do("explain", KeyCodes))
    BY <1>3, <1>5, GentleSteps
  <2>2. Easy(where)
    BY <2>1, EasyThree
  <2>3. Easy(<<>>)
    BY DEF Easy, Sequence
  <2>4. Easy(mid)
    BY <2>2, <2>3
  <2>5. Orderly(<<Do("explain", KeyCodes), Answer>>, late)
    BY <2>1, GentleThenAnswer
  <2>6. RunExplainOf(r) = ProjectConfig(r) \o mid \o <<Do("explain", KeyCodes), Answer>>
    BY DEF RunExplainOf
  <2> HIDE DEF mid
  <2>7. Easy(ProjectConfig(r) \o mid)
    BY <1>1, <2>4, EasyThenEasy
  <2> QED
    BY <1>4, <2>5, <2>6, <2>7
<1>10. Orderly(RunLs(r), late) /\ Orderly(RunLog(r), late) /\ Orderly(RunAudit(r), late)
  <2>1. /\ Gentle(Do("list and assess", KeyCodes)) /\ Gentle(Do("list", RunCodes)) /\ Gentle(Do("audit", RunCodes))
    BY <1>3, <1>5
  <2>2. /\ Orderly(<<Do("list and assess", KeyCodes), Answer>>, late) /\ Orderly(<<Do("list", RunCodes), Answer>>, late)
        /\ Orderly(<<Do("audit", RunCodes), Answer>>, late)
    BY <2>1, GentleThenAnswer
  <2> QED
    BY <1>2, <1>4, <2>2 DEF RunLs, RunLog, RunAudit
<1>11. Orderly(RunShow(r), late)
  <2> DEFINE first == <<Arguments, Resolve, Do("resolve the run", RunCodes), Do("read the record", RunCodes)>>
             out == When(r.mode # "metadata", Do("open the stored output", {1, 5}))
  <2>1. /\ Gentle(Arguments) /\ Gentle(Resolve) /\ Gentle(Do("resolve the run", RunCodes))
        /\ Gentle(Do("read the record", RunCodes)) /\ Gentle(Do("open the stored output", {1, 5}))
    BY <1>3, <1>5, GentleSteps
  <2>2. Easy(first)
    <3>1. Easy(<<Arguments>>) /\ Easy(<<Resolve, Do("resolve the run", RunCodes), Do("read the record", RunCodes)>>)
      BY <2>1, EasyOne, EasyThree
    <3>2. first = <<Arguments>> \o <<Resolve, Do("resolve the run", RunCodes), Do("read the record", RunCodes)>>
      BY Quadrupling
    <3> QED
      BY <3>1, <3>2, EasyThenEasy
  <2>3. Easy(out)
    BY <2>1, EasyWhen
  <2>4. RunShow(r) = first \o out \o <<Answer>>
    BY DEF RunShow
  <2> HIDE DEF first, out
  <2>5. Easy(first \o out) /\ Orderly(<<Answer>>, late)
    BY <2>1, <2>2, <2>3, EasyThenEasy, GentleThenAnswer
  <2> QED
    BY <1>4, <2>4, <2>5
<1>12. Orderly(ConfigPath(r), late) /\ Orderly(ConfigTemplate(r), late) /\ Orderly(<<Arguments, Answer>>, late)
  <2>1. Orderly(<<Answer>>, late) /\ Orderly(<<Arguments, Answer>>, late)
    BY GentleSteps, GentleThenAnswer
  <2> QED
    BY <1>2, <1>4, <2>1 DEF ConfigPath, ConfigTemplate
<1>13. Orderly(ConfigShow(r), late) /\ Orderly(ConfigEffective(r), late) /\ Orderly(ConfigValidate(r), late)
  <2>1. /\ Gentle(Arguments) /\ Gentle(Load) /\ Gentle(Do("read the layer", {1}))
        /\ Gentle(Do("inspect the grant", {})) /\ Gentle(Do("compile the patterns", {1}))
    BY <1>3, <1>5, GentleSteps
  <2>2. /\ Orderly(<<Arguments, Do("read the layer", {1}), Answer>>, late)
        /\ Orderly(<<Load, Do("inspect the grant", {}), Answer>>, late)
        /\ Orderly(<<Load, Do("compile the patterns", {1}), Answer>>, late)
    BY <2>1, GentleThenAnswer
  <2> QED
    BY <1>1, <1>2, <1>4, <2>2 DEF ConfigShow, ConfigEffective, ConfigValidate
<1>14. Orderly(StateQuery(r), late)
  <2> DEFINE layers == IF r.mode = "now" THEN ProjectLayers(r) ELSE <<>>
             rest == layers \o <<Do("assess", {1, Interrupted}), Answer>>
  <2>1. Gentle(Arguments) /\ Gentle(Do("assess", {1, Interrupted}))
    BY <1>3, <1>5, GentleSteps
  <2>2. Easy(<<>>)
    BY DEF Easy, Sequence
  <2>3. Easy(layers)
    BY <1>1, <2>2
  <2>4. StateQuery(r) = <<Arguments>> \o IF ~r.inside THEN <<Answer>> ELSE rest
    BY DEF StateQuery
  <2> HIDE DEF layers
  <2>5. Orderly(<<Answer>>, late) /\ Orderly(rest, late)
    BY <1>4, <2>1, <2>3, GentleThenAnswer
  <2> HIDE DEF rest
  <2>6. Orderly(IF ~r.inside THEN <<Answer>> ELSE rest, late)
    BY <2>5
  <2> QED
    BY <1>2, <1>4, <2>4, <2>6
<1> QED
  BY <1>6, <1>7, <1>8, <1>9, <1>10, <1>11, <1>12, <1>13, <1>14
LEMMA Chaining ==
    ASSUME NEW a
    PROVE  /\ \A t : Firm(a) /\ Tame(t) => Tame(<<a>> \o t)
           /\ \A t : Private(a) /\ Smooth(t) => Smooth(<<a>> \o t)
           /\ \A t : Tame(t) => Smooth(t)
BY FirmFirst, PrivateFirst DEF Tame

LEMMA SmoothIsOrderly == ASSUME NEW t, NEW late \in BOOLEAN, Smooth(t) PROVE Orderly(t, late)
BY LateOrNot DEF Smooth

LEMMA LateCodes ==
    ASSUME NEW n \in {1, 5, Interrupted}
    PROVE  n \in Nat \ {0} /\ n \notin {2, 3, 4} /\ (n \in {1, 5} => n # Interrupted)
BY DEF Interrupted

LEMMA RemovalCodes ==
    ASSUME NEW codes \in SUBSET {1, 3, 5}
    PROVE  codes \subseteq Nat \ {0} /\ codes \cap {2, 4} = {} /\ Interrupted \notin codes
<1>1. \A n \in codes : n \in Nat \ {0} /\ n \notin {2, 4} /\ n # Interrupted
  BY DEF Interrupted
<1> QED
  BY <1>1

LEMMA FirmStep ==
    ASSUME NEW act, act \notin {"answer", "resolve the project", "wait for the lock"},
           NEW codes \in SUBSET {1, 5}, NEW changes, NEW effect
    PROVE  Firm(Step(act, codes, changes, effect))
<1> DEFINE s == Step(act, codes, changes, effect)
<1>1. s.act = act /\ s.codes = codes /\ s.changes = changes
  BY DEF Step
<1> HIDE DEF s
<1>2. codes \subseteq Nat \ {0} /\ codes \cap {2, 3, 4} = {} /\ Interrupted \notin codes
  <2>1. \A n \in codes : n \in {1, 5}
    OBVIOUS
  <2>2. \A n \in codes : n \in Nat \ {0} /\ n \notin {2, 3, 4} /\ n # Interrupted
    BY <2>1, LateCodes
  <2> QED
    BY <2>2
<1>3. Firm(s)
  BY <1>1, <1>2 DEF Firm, FailureCodes, MayRefuse, MayHalt
<1> QED
  BY <1>3 DEF s

LEMMA PrivateStep ==
    ASSUME NEW act, act \notin {"answer", "resolve the project"},
           NEW codes \in SUBSET {1, 5, Interrupted}, NEW changes, changes \cap Published = {}, NEW effect
    PROVE  Private(Step(act, codes, changes, effect))
<1> DEFINE s == Step(act, codes, changes, effect)
<1>1. s.act = act /\ s.codes = codes /\ s.changes = changes
  BY DEF Step
<1> HIDE DEF s
<1>2. codes \subseteq Nat \ {0} /\ codes \cap {2, 3, 4} = {}
  <2>1. \A n \in codes : n \in {1, 5, Interrupted}
    OBVIOUS
  <2>2. \A n \in codes : n \in Nat \ {0} /\ n \notin {2, 3, 4}
    BY <2>1, LateCodes
  <2> QED
    BY <2>2
<1>3. Private(s)
  BY <1>1, <1>2 DEF Private, FailureCodes, MayRefuse
<1> QED
  BY <1>3 DEF s

(* The commands that write: what changes more than the guard and the index  *)
(* comes after everything that may refuse, what publishes after everything  *)
(* that Ctrl+C may stop.                                                    *)
LEMMA InitProjectIsOrderly == ASSUME NEW r, NEW late \in BOOLEAN PROVE Orderly(InitProject(r), late)
<1> DEFINE create == Doing("create the project", {1}, {"project"})
           root == Do("find the root", {1})
<1>1. Firm(create) /\ Gentle(Arguments) /\ Gentle(root)
  BY FirmStep, GentleSteps, GentleDo DEF Doing
<1>2. InitProject(r) = <<Arguments, root, create, Answer>>
  BY DEF InitProject
<1> HIDE DEF create, root
<1>3. Tame(<<create, Answer>>)
  BY <1>1, AnswerLast, Chaining, Pairing
<1>4. Orderly(<<create, Answer>>, late)
  BY <1>3, SmoothIsOrderly DEF Tame
<1>5. Orderly(<<root, create, Answer>>, late)
  BY <1>1, <1>4, EasyOne, EasyThenOrderly, Tripling
<1>6. Orderly(<<Arguments>> \o <<root, create, Answer>>, late)
  BY <1>1, <1>5, EasyOne, EasyThenOrderly
<1> QED
  BY <1>2, <1>6, Quadrupling

LEMMA CheckpointIsOrderly == ASSUME NEW r, Request(r), NEW late \in BOOLEAN PROVE Orderly(Checkpoint(r), late)
<1> DEFINE index == Perhaps("open the worktree index", {5}, {"index"})
           scan == Doing("scan and store the contents", {1, 5, Interrupted}, {"index", "blobs"})
           publish == Doing("publish the checkpoint", {1, 5}, {"checkpoint"})
           begin == <<Arguments, Resolve, Guard(TRUE)>>
<1>1. Gentle(index)
  BY DEF Gentle, FailureCodes, Perhaps, Step, Kept
<1>2. Private(scan)
  <2>1. {"index", "blobs"} \cap Published = {}
    BY DEF Published
  <2> QED
    BY <2>1, PrivateStep DEF Doing
<1>3. Firm(publish)
  BY FirmStep DEF Doing
<1>4. Easy(ProjectLayers(r))
  BY Layers DEF Request
<1>15. Easy(begin)
  <2>1. Gentle(Arguments) /\ Gentle(Resolve) /\ Gentle(Guard(TRUE))
    BY GentleSteps
  <2> QED
    BY <2>1, EasyThree
<1>5. Checkpoint(r) = begin \o ProjectLayers(r) \o <<index, WorkingDirectory, WaitForLock, scan, publish, Answer>>
  BY DEF Checkpoint
<1> HIDE DEF index, scan, publish, begin
<1>6. Smooth(<<publish, Answer>>)
  BY <1>3, AnswerLast, Chaining, Pairing
<1>7. Smooth(<<scan, publish, Answer>>)
  BY <1>2, <1>6, Chaining, Tripling
<1>8. Orderly(<<WaitForLock>> \o <<scan, publish, Answer>>, late)
  BY <1>7, SmoothIsOrderly, GentleSteps, EasyOne, EasyThenOrderly
<1>9. Orderly(<<WaitForLock, scan, publish, Answer>>, late)
  BY <1>8, Quadrupling
<1>10. Orderly(<<WorkingDirectory>> \o <<WaitForLock, scan, publish, Answer>>, late)
  BY <1>9, GentleSteps, EasyOne, EasyThenOrderly
<1>11. Orderly(<<WorkingDirectory, WaitForLock, scan, publish, Answer>>, late)
  BY <1>10, Quintupling
<1>12. Orderly(<<index>> \o <<WorkingDirectory, WaitForLock, scan, publish, Answer>>, late)
  BY <1>1, <1>11, EasyOne, EasyThenOrderly
<1>13. Orderly(<<index, WorkingDirectory, WaitForLock, scan, publish, Answer>>, late)
  BY <1>12, Sextupling
<1>14. Easy(begin \o ProjectLayers(r))
  BY <1>4, <1>15, EasyThenEasy
<1> QED
  BY <1>5, <1>13, <1>14, EasyThenOrderly

LEMMA TameWhen == ASSUME NEW c \in BOOLEAN, NEW a, NEW t, Firm(a), Tame(t) PROVE Tame(When(c, a) \o t)
<1>1. CASE c
  BY <1>1, FirmFirst DEF When
<1>2. CASE ~c
  <2>1. Sequence(t)
    BY DEF Tame, Smooth, Orderly
  <2>2. <<>> \o t = t
    BY <2>1, EmptyFirst
  <2> QED
    BY <1>2, <2>2 DEF When
<1> QED
  BY <1>1, <1>2

LEMMA SequenceWhen == ASSUME NEW c \in BOOLEAN, NEW a PROVE Sequence(When(c, a))
BY DEF Sequence, When

LEMMA RestoreIsOrderly == ASSUME NEW r, Request(r), NEW late \in BOOLEAN PROVE Orderly(Restore(r), late)
<1> DEFINE apply == r.mode = "apply"
           two == <<Guard(apply), PathFilters>>
           lock == When(apply, WaitForLock)
           plan == <<Do("observe and plan", StateCodes)>>
           note == Doing("record the recovery observation", {1, 5}, {"blobs", "recovery"})
           operate == Perhaps("apply the operations", {}, {"worktree"})
           begin == <<Arguments>> \o ProjectConfig(r) \o two \o lock \o lock \o plan
<1>1. Restore(r) = begin \o When(apply, note) \o When(apply, operate) \o <<Answer>>
  BY DEF Restore
<1>2. Firm(note) /\ Firm(operate)
  BY FirmStep DEF Doing, Perhaps
<1>3. apply \in BOOLEAN
  OBVIOUS
<1>4. Easy(two) /\ Easy(lock) /\ Easy(plan) /\ Easy(<<Arguments>>) /\ Easy(ProjectConfig(r))
  <2>1. Gentle(Do("observe and plan", StateCodes))
    BY GentleDo DEF StateCodes
  <2> HIDE DEF apply
  <2>2. Gentle(Guard(apply)) /\ Gentle(PathFilters) /\ Gentle(WaitForLock) /\ Gentle(Arguments)
    BY <1>3, GentleSteps
  <2> QED
    <3>1. Easy(<<Guard(apply), PathFilters>>) /\ Easy(<<Do("observe and plan", StateCodes)>>) /\ Easy(<<Arguments>>)
      BY <2>1, <2>2, EasyOne, EasyTwo
    <3>2. Easy(When(apply, WaitForLock))
      BY <1>3, <2>2, EasyWhen
    <3>3. Easy(ProjectConfig(r))
      BY Layers DEF Request
    <3> QED
      BY <3>1, <3>2, <3>3
<1> HIDE DEF apply, two, lock, plan, note, operate
<1>5. Easy(begin)
  BY <1>4, EasyThenEasy
<1> HIDE DEF begin
<1>6. Tame(When(apply, operate) \o <<Answer>>)
  BY <1>2, <1>3, AnswerLast, TameWhen
<1>7. Tame(When(apply, note) \o (When(apply, operate) \o <<Answer>>))
  BY <1>2, <1>3, <1>6, TameWhen
<1>8. /\ Sequence(begin) /\ Sequence(When(apply, note)) /\ Sequence(When(apply, operate)) /\ Sequence(<<Answer>>)
      /\ Sequence(begin \o When(apply, note)) /\ Sequence(When(apply, operate) \o <<Answer>>)
  BY <1>3, <1>5, SequenceWhen, Joining, AnswerLast DEF Easy, Tame, Smooth, Orderly
<1>9. Restore(r) = begin \o (When(apply, note) \o (When(apply, operate) \o <<Answer>>))
  <2> DEFINE w == When(apply, note)
             o == When(apply, operate)
             last == <<Answer>>
             both == begin \o w
  <2>1. Sequence(begin) /\ Sequence(w) /\ Sequence(o) /\ Sequence(last) /\ Sequence(begin \o w) /\ Sequence(o \o last)
    BY <1>8
  <2>2. Restore(r) = ((begin \o w) \o o) \o last
    BY <1>1
  <2>6. Sequence(both)
    BY <2>1
  <2> HIDE DEF w, o, last, both
  <2>7. (both \o o) \o last = both \o (o \o last)
    BY <2>1, <2>6, Regrouped
  <2>3. ((begin \o w) \o o) \o last = (begin \o w) \o (o \o last)
    BY <2>7 DEF both
  <2>4. (begin \o w) \o (o \o last) = begin \o (w \o (o \o last))
    BY <2>1, Regrouped
  <2>5. Restore(r) = begin \o (w \o (o \o last))
    BY <2>2, <2>3, <2>4
  <2> QED
    BY <2>5 DEF w, o, last
<1>10. Orderly(When(apply, note) \o (When(apply, operate) \o <<Answer>>), late)
  BY <1>7, SmoothIsOrderly DEF Tame
<1> QED
  BY <1>5, <1>9, <1>10, EasyThenOrderly
LEMMA RunMissIsSmooth == ASSUME NEW r PROVE Smooth(RunMiss(r))
<1> DEFINE begin == Doing("begin the run", {1}, {"run dir"})
           start == Do("see whether to start", {Interrupted})
           launch == Doing("execute the command", {1}, {"child"})
           finish == Do("finish the capture", {1})
           again == Perhaps("observe again", {1, Interrupted}, {"index"})
           stage == Do("stage the manifests", {1, 5, Interrupted})
           publish == Doing("publish the run", {1, 5}, {"run"})
           diagnose == Do("diagnose", {})
<1>1. Firm(publish) /\ Firm(diagnose)
  BY FirmStep DEF Doing, Do
<1>2. Private(begin) /\ Private(start) /\ Private(launch) /\ Private(finish) /\ Private(again) /\ Private(stage)
  <2>1. /\ {"run dir"} \cap Published = {} /\ {"child"} \cap Published = {} /\ {"index"} \cap Published = {}
        /\ {} \cap Published = {}
    BY DEF Published
  <2>2. Private(begin) /\ Private(launch)
    BY <2>1, PrivateStep DEF Doing
  <2>3. Private(start) /\ Private(finish) /\ Private(stage)
    BY <2>1, PrivateStep DEF Do
  <2>4. Private(again)
    BY <2>1, PrivateStep DEF Perhaps
  <2> QED
    BY <2>2, <2>3, <2>4
<1>3. RunMiss(r) = <<begin, start, launch, finish, again, stage, publish, diagnose, Answer>>
  BY DEF RunMiss
<1> HIDE DEF begin, start, launch, finish, again, stage, publish, diagnose
<1>4. Tame(<<diagnose, Answer>>)
  BY <1>1, AnswerLast, Chaining, Pairing
<1>5. Tame(<<publish>> \o <<diagnose, Answer>>)
  BY <1>1, <1>4, Chaining
<1>6. Smooth(<<publish, diagnose, Answer>>)
  BY <1>5, Tripling DEF Tame
<1>7. Smooth(<<stage>> \o <<publish, diagnose, Answer>>)
  BY <1>2, <1>6, Chaining
<1>8. Smooth(<<stage, publish, diagnose, Answer>>)
  BY <1>7, Quadrupling
<1>9. Smooth(<<again>> \o <<stage, publish, diagnose, Answer>>)
  BY <1>2, <1>8, Chaining
<1>10. Smooth(<<again, stage, publish, diagnose, Answer>>)
  BY <1>9, Quintupling
<1>11. Smooth(<<finish>> \o <<again, stage, publish, diagnose, Answer>>)
  BY <1>2, <1>10, Chaining
<1>12. Smooth(<<finish, again, stage, publish, diagnose, Answer>>)
  BY <1>11, Sextupling
<1>13. Smooth(<<launch>> \o <<finish, again, stage, publish, diagnose, Answer>>)
  BY <1>2, <1>12, Chaining
<1>14. Smooth(<<start>> \o (<<launch>> \o <<finish, again, stage, publish, diagnose, Answer>>))
  BY <1>2, <1>13, Chaining
<1>15. Smooth(<<begin>> \o (<<start>> \o (<<launch>> \o <<finish, again, stage, publish, diagnose, Answer>>)))
  BY <1>2, <1>14, Chaining
<1>16. <<launch>> \o <<finish, again, stage, publish, diagnose, Answer>>
          = <<launch, finish, again, stage, publish, diagnose, Answer>>
  BY Septupling
<1>17. <<start>> \o <<launch, finish, again, stage, publish, diagnose, Answer>>
          = <<start, launch, finish, again, stage, publish, diagnose, Answer>>
  BY Octupling
<1>18. <<begin>> \o <<start, launch, finish, again, stage, publish, diagnose, Answer>>
          = <<begin, start, launch, finish, again, stage, publish, diagnose, Answer>>
  BY Nonupling
<1> QED
  BY <1>3, <1>15, <1>16, <1>17, <1>18

LEMMA RunIsOrderly == ASSUME NEW r, Request(r), NEW late \in BOOLEAN PROVE Orderly(Run(r), late)
<1> DEFINE directory == Do("resolve the child's directory", {1, 2})
           scope == Do("resolve the scope", {1, 2})
           key == Perhaps("observe and derive the key", KeyCodes, {"index"})
           find == Do("look up", {1, 5, Interrupted})
           course == IF r.mode = "hit" THEN ReplayHit(r) ELSE RunMiss(r)
           first == <<Guard(TRUE), WorkingDirectory, directory, scope, WaitForLock, key, find>>
<1>1. Run(r) = ProjectConfig(r) \o first \o course
  BY DEF Run
<1>2. /\ Gentle(Guard(TRUE)) /\ Gentle(WorkingDirectory) /\ Gentle(directory) /\ Gentle(scope)
      /\ Gentle(WaitForLock) /\ Gentle(find)
  BY GentleSteps, GentleDo
<1>3. Gentle(key)
  BY DEF Gentle, FailureCodes, Perhaps, Step, Kept, KeyCodes, RunCodes, StateCodes, Interrupted
<1>4. Orderly(course, late)
  <2>1. Firm(Do("replay the output", {1, 5}))
    BY FirmStep DEF Do
  <2>2. Tame(ReplayHit(r))
    BY <2>1, AnswerLast, TameWhen DEF ReplayHit, Request
  <2>3. Orderly(ReplayHit(r), late) /\ Orderly(RunMiss(r), late)
    BY <2>2, RunMissIsSmooth, SmoothIsOrderly DEF Tame
  <2> QED
    BY <2>3
<1> HIDE DEF directory, scope, key, find, course
<1>5. Easy(first)
  <2>1. Easy(<<key, find>>) /\ Easy(<<WaitForLock>>) /\ Easy(<<scope>>) /\ Easy(<<directory>>)
        /\ Easy(<<WorkingDirectory>>) /\ Easy(<<Guard(TRUE)>>)
    BY <1>2, <1>3, EasyOne, EasyTwo
  <2>2. Easy(<<WaitForLock, key, find>>)
    BY <1>2, <1>3, EasyThree
  <2>3. Easy(<<scope>> \o <<WaitForLock, key, find>>)
    BY <2>1, <2>2, EasyThenEasy
  <2>4. Easy(<<scope, WaitForLock, key, find>>)
    BY <2>3, Quadrupling
  <2>5. Easy(<<directory>> \o <<scope, WaitForLock, key, find>>)
    BY <2>1, <2>4, EasyThenEasy
  <2>6. Easy(<<directory, scope, WaitForLock, key, find>>)
    BY <2>5, Quintupling
  <2>7. Easy(<<WorkingDirectory>> \o <<directory, scope, WaitForLock, key, find>>)
    BY <2>1, <2>6, EasyThenEasy
  <2>8. Easy(<<WorkingDirectory, directory, scope, WaitForLock, key, find>>)
    BY <2>7, Sextupling
  <2>9. Easy(<<Guard(TRUE)>> \o <<WorkingDirectory, directory, scope, WaitForLock, key, find>>)
    BY <2>1, <2>8, EasyThenEasy
  <2>10. first = <<Guard(TRUE)>> \o <<WorkingDirectory, directory, scope, WaitForLock, key, find>>
    BY Septupling
  <2> QED
    BY <2>9, <2>10
<1> HIDE DEF first
<1>6. Easy(ProjectConfig(r) \o first)
  <2>1. Easy(ProjectConfig(r))
    BY Layers DEF Request
  <2> QED
    BY <1>5, <2>1, EasyThenEasy
<1> QED
  BY <1>1, <1>4, <1>6, EasyThenOrderly

LEMMA TwoIsSequence ==
    ASSUME NEW a, NEW b
    PROVE  Sequence(<<a, b>>) /\ Len(<<a, b>>) = 2 /\ <<a, b>>[1] = a /\ <<a, b>>[2] = b
BY DEF Sequence

LEMMA LateAndAnswer ==
    ASSUME NEW a, FailureCodes(a), a.act # "answer", a.codes \cap {2, 4} = {}, ~MayHalt(a)
    PROVE  Orderly(<<a, Answer>>, TRUE)
<1> DEFINE s == <<a, Answer>>
<1>1. Sequence(s) /\ Len(s) = 2 /\ s[1] = a /\ s[2] = Answer
  BY TwoIsSequence
<1> HIDE DEF s
<1>2. Answer.act = "answer" /\ Answer.codes = {} /\ Answer.changes = {}
  BY DEF Answer, Do, Step
<1>3. FailureCodes(Answer) /\ ~MayRefuse(Answer) /\ ~MayHalt(Answer)
  BY <1>2 DEF FailureCodes, MayRefuse, MayHalt
<1>4. RefusesInTime(s, 2) /\ HaltsInTime(s, 1) /\ HaltsInTime(s, 2)
  BY <1>1, <1>3 DEF RefusesInTime, HaltsInTime
<1>5. ASSUME NEW i \in 1 .. Len(s)
      PROVE  /\ FailureCodes(s[i])
             /\ i < Len(s) => s[i].act # "answer"
             /\ i = Len(s) => s[i].act = "answer" /\ s[i].changes = {}
             /\ RefusesInTime(s, i) \/ s[i].codes \cap {2, 4} = {}
             /\ HaltsInTime(s, i)
  <2>1. CASE i = 1
    BY <1>1, <1>4, <2>1
  <2>2. CASE i = 2
    BY <1>1, <1>2, <1>3, <1>4, <2>2
  <2> QED
    BY <1>1, <2>1, <2>2
<1>6. Orderly(s, TRUE)
  BY <1>1, <1>5 DEF Orderly
<1> QED
  BY <1>6 DEF s

LEMMA LateStep ==
    ASSUME NEW act, act \notin {"answer", "wait for the lock"}, NEW codes \in SUBSET {1, 3, 5}, NEW changes, NEW effect
    PROVE  Orderly(<<Step(act, codes, changes, effect), Answer>>, TRUE)
<1> DEFINE a == Step(act, codes, changes, effect)
<1>1. a.act = act /\ a.codes = codes
  BY DEF Step
<1> HIDE DEF a
<1>2. codes \subseteq Nat \ {0} /\ codes \cap {2, 4} = {} /\ Interrupted \notin codes
  BY RemovalCodes
<1>3. FailureCodes(a) /\ a.act # "answer" /\ a.codes \cap {2, 4} = {} /\ ~MayHalt(a)
  BY <1>1, <1>2 DEF FailureCodes, MayHalt
<1>4. Orderly(<<a, Answer>>, TRUE)
  BY <1>3, LateAndAnswer
<1> QED
  BY <1>4 DEF a

LEMMA RunRmIsOrderly == ASSUME NEW r, Request(r) PROVE Orderly(RunRm(r), TRUE)
<1> DEFINE resolve == <<Do("resolve every target", RunCodes)>>
           delete == Perhaps("delete the targets", {1, 3, 5}, {"removed"})
           begin == <<Arguments>> \o ProjectConfig(r) \o resolve
           course == IF r.mode = "dry-run" THEN <<Answer>> ELSE <<WaitForLock, delete, Answer>>
<1>1. RunRm(r) = begin \o course
  BY DEF RunRm
<1>2. Easy(begin)
  <2>1. Gentle(Do("resolve every target", RunCodes))
    BY GentleDo DEF RunCodes, StateCodes
  <2>2. Easy(<<Arguments>>) /\ Easy(resolve)
    BY <2>1, GentleSteps, EasyOne
  <2>3. Easy(ProjectConfig(r))
    BY Layers DEF Request
  <2> HIDE DEF resolve
  <2> QED
    BY <2>2, <2>3, EasyThenEasy
<1>3. Orderly(<<delete, Answer>>, TRUE)
  BY LateStep DEF Perhaps
<1> HIDE DEF begin, delete
<1>4. Orderly(<<WaitForLock>> \o <<delete, Answer>>, TRUE) /\ Orderly(<<Answer>>, TRUE)
  BY <1>3, GentleSteps, EasyOne, EasyThenOrderly, GentleThenAnswer
<1>5. Orderly(course, TRUE)
  BY <1>4, Tripling
<1> HIDE DEF course
<1> QED
  BY <1>1, <1>2, <1>5, EasyThenOrderly

LEMMA GcIsOrderly == ASSUME NEW r, Request(r), NEW late \in BOOLEAN PROVE Orderly(Gc(r), late)
<1> DEFINE plan == Do("plan", {1, 5, Interrupted})
           sweep == Perhaps("sweep", {}, {"removed"})
           begin == <<Arguments>> \o ProjectConfig(r)
           course == IF r.mode = "dry-run" THEN <<plan, Answer>> ELSE <<WaitForLock, plan, sweep, Answer>>
<1>1. Gc(r) = begin \o course
  BY DEF Gc
<1>2. Easy(begin)
  BY Layers, GentleSteps, EasyOne, EasyThenEasy DEF Request
<1>3. Gentle(plan) /\ Firm(sweep)
  BY GentleDo, FirmStep DEF Perhaps
<1> HIDE DEF begin, plan, sweep
<1>4. Orderly(<<plan, Answer>>, late)
  BY <1>3, GentleThenAnswer
<1>5. Tame(<<sweep, Answer>>)
  BY <1>3, AnswerLast, Chaining, Pairing
<1>6. Orderly(<<plan>> \o <<sweep, Answer>>, late)
  BY <1>3, <1>5, EasyOne, EasyThenOrderly, SmoothIsOrderly DEF Tame
<1>7. Orderly(<<plan, sweep, Answer>>, late)
  BY <1>6, Tripling
<1>8. Orderly(<<WaitForLock>> \o <<plan, sweep, Answer>>, late)
  BY <1>7, GentleSteps, EasyOne, EasyThenOrderly
<1>9. Orderly(course, late)
  BY <1>4, <1>8, Quadrupling
<1> HIDE DEF course
<1> QED
  BY <1>1, <1>2, <1>9, EasyThenOrderly

LEMMA DoctorIsOrderly == ASSUME NEW r, Request(r), NEW late \in BOOLEAN PROVE Orderly(Doctor(r), late)
<1> DEFINE check == <<Do("check", {1, Interrupted})>>
           repair == Perhaps("repair", {Interrupted}, {"guard", "repaired"})
           begin == <<Arguments, Resolve>> \o ProjectLayers(r) \o check
           course == IF r.mode = "repair" THEN <<WaitForLock, repair>> ELSE <<>>
<1>1. Doctor(r) = begin \o course \o <<Answer>>
  BY DEF Doctor
<1>2. Easy(begin)
  <2>1. Gentle(Do("check", {1, Interrupted}))
    BY GentleDo
  <2>2. Easy(<<Arguments, Resolve>>) /\ Easy(check)
    BY <2>1, GentleSteps, EasyOne, EasyTwo
  <2>3. Easy(ProjectLayers(r))
    BY Layers DEF Request
  <2> HIDE DEF check
  <2> QED
    BY <2>2, <2>3, EasyThenEasy
<1>3. Private(repair)
  <2>1. {"guard", "repaired"} \cap Published = {}
    BY DEF Published
  <2> QED
    BY <2>1, PrivateStep DEF Perhaps
<1> HIDE DEF begin, repair
<1>4. Smooth(<<repair>> \o <<Answer>>)
  BY <1>3, AnswerLast, Chaining
<1>5. Orderly(<<WaitForLock>> \o (<<repair>> \o <<Answer>>), late) /\ Orderly(<<Answer>>, late)
  BY <1>4, GentleSteps, EasyOne, EasyThenOrderly, SmoothIsOrderly, AnswerLast DEF Tame
<1>6. /\ Sequence(<<WaitForLock>>) /\ Sequence(<<repair>>) /\ Sequence(<<Answer>>) /\ Sequence(<<>>)
      /\ Sequence(<<WaitForLock, repair>>)
  BY DEF Sequence
<1>7. Orderly(course \o <<Answer>>, late) /\ Sequence(course)
  <2>1. CASE r.mode = "repair"
    <3>1. <<WaitForLock, repair>> \o <<Answer>> = <<WaitForLock>> \o (<<repair>> \o <<Answer>>)
      BY <1>6, Pairing, Regrouped
    <3> QED
      BY <1>5, <1>6, <2>1, <3>1
  <2>2. CASE r.mode # "repair"
    BY <1>5, <1>6, <2>2, EmptyFirst
  <2> QED
    BY <2>1, <2>2
<1> HIDE DEF course
<1>8. Doctor(r) = begin \o (course \o <<Answer>>)
  <2>1. Sequence(begin) /\ Sequence(course) /\ Sequence(<<Answer>>)
    BY <1>2, <1>6, <1>7 DEF Easy
  <2> QED
    BY <1>1, <2>1, Regrouped
<1> QED
  BY <1>2, <1>7, <1>8, EasyThenOrderly

LEMMA ConfigInitIsOrderly == ASSUME NEW r, NEW late \in BOOLEAN PROVE Orderly(ConfigInit(r), late)
<1> DEFINE write == Doing("write the scaffold", {1}, {"config"})
<1>1. Firm(write)
  BY FirmStep DEF Doing
<1>2. ConfigInit(r) = <<Arguments, Resolve, write, Answer>>
  BY DEF ConfigInit
<1> HIDE DEF write
<1>3. Tame(<<write, Answer>>)
  BY <1>1, AnswerLast, Chaining, Pairing
<1>4. Orderly(<<Resolve>> \o <<write, Answer>>, late)
  BY <1>3, SmoothIsOrderly, GentleSteps, EasyOne, EasyThenOrderly DEF Tame
<1>5. Orderly(<<Resolve, write, Answer>>, late)
  BY <1>4, Tripling
<1>6. Orderly(<<Arguments>> \o <<Resolve, write, Answer>>, late)
  BY <1>5, GentleSteps, EasyOne, EasyThenOrderly
<1> QED
  BY <1>2, <1>6, Quadrupling

LEMMA ConfigProbesIsOrderly == ASSUME NEW r, Request(r), NEW late \in BOOLEAN PROVE Orderly(ConfigProbes(r), late)
<1> DEFINE remove == Perhaps("remove the grant", {1}, {"grant"})
           note == Doing("record the grant", {1}, {"grant"})
           allow == ConfigLayerFiles(r) \o <<Load, note, Answer>>
           course == IF r.mode = "revoke" THEN <<remove, Answer>> ELSE allow
<1>1. ConfigProbes(r) = <<Arguments, Resolve>> \o course
  BY DEF ConfigProbes
<1>2. Firm(remove) /\ Firm(note)
  BY FirmStep DEF Perhaps, Doing
<1> HIDE DEF remove, note
<1>3. Tame(<<remove, Answer>>) /\ Tame(<<note, Answer>>)
  BY <1>2, AnswerLast, Chaining, Pairing
<1>4. Orderly(<<remove, Answer>>, late) /\ Orderly(<<Load>> \o <<note, Answer>>, late)
  BY <1>3, SmoothIsOrderly, GentleSteps, EasyOne, EasyThenOrderly DEF Tame
<1>5. Orderly(<<Load, note, Answer>>, late)
  BY <1>4, Tripling
<1>6. Easy(ConfigLayerFiles(r))
  BY Layers DEF Request
<1>7. Orderly(allow, late)
  BY <1>5, <1>6, EasyThenOrderly
<1> HIDE DEF allow
<1>8. Orderly(course, late)
  BY <1>4, <1>7
<1> HIDE DEF course
<1> QED
  BY <1>1, <1>8, GentleSteps, EasyTwo, EasyThenOrderly

LEMMA DocsExportIsOrderly == ASSUME NEW r, NEW late \in BOOLEAN PROVE Orderly(DocsExport(r), late)
<1> DEFINE render == Do("render the bundle", {1})
           check == Do("check the destination", {1, 2, Interrupted})
           reserve == Atomically("reserve the destination", {1, 2}, {"bundle"})
           write == Do("write the documents", {1, Interrupted})
           install == Atomically("install the manifest", {1, Interrupted}, {"manifest"})
<1>1. DocsExport(r) = <<Arguments, render, check, reserve, write, install, Answer>>
  BY DEF DocsExport
<1>2. Gentle(Arguments) /\ Gentle(render) /\ Gentle(check)
  BY GentleSteps, GentleDo
<1>3. FailureCodes(install) /\ install.act # "answer" /\ Leaves(install) = {} /\ ~MayRefuse(install)
  BY DEF FailureCodes, Leaves, MayRefuse, Atomically, Step, Interrupted
<1>4. FailureCodes(reserve) /\ reserve.act # "answer" /\ Leaves(reserve) = {} /\ reserve.changes \cap Published = {}
  BY DEF FailureCodes, Leaves, Published, Atomically, Step
<1>5. Private(write)
  <2>1. {} \cap Published = {}
    OBVIOUS
  <2> QED
    BY <2>1, PrivateStep DEF Do
<1> HIDE DEF render, check, reserve, write, install
<1>6. Smooth(<<install>> \o <<Answer>>)
  <2>1. Orderly(<<Answer>>, FALSE) /\ Unrefusing(<<Answer>>) /\ Unhalting(<<Answer>>)
    BY AnswerLast DEF Tame, Smooth
  <2> QED
    BY <1>3, <2>1, FirstStep DEF Smooth
<1>7. Smooth(<<write>> \o <<install, Answer>>)
  BY <1>5, <1>6, Chaining, Pairing
<1>8. Smooth(<<write, install, Answer>>)
  BY <1>7, Tripling
<1>9. Orderly(<<reserve>> \o <<write, install, Answer>>, late)
  <2>1. Orderly(<<write, install, Answer>>, late) /\ Unrefusing(<<write, install, Answer>>)
    BY <1>8, SmoothIsOrderly DEF Smooth
  <2> QED
    BY <1>4, <2>1, FirstStep
<1>10. Orderly(<<reserve, write, install, Answer>>, late)
  BY <1>9, Quadrupling
<1>11. Orderly(<<Arguments, render, check>> \o <<reserve, write, install, Answer>>, late)
  BY <1>2, <1>10, EasyThree, EasyThenOrderly
<1>12. <<Arguments, render, check, reserve, write, install, Answer>>
          = <<Arguments, render, check>> \o <<reserve, write, install, Answer>>
  BY ThreeAndFour
<1> QED
  BY <1>1, <1>11, <1>12
(* Every handler's steps are in order. *)
LEMMA StepsAreOrderly ==
    ASSUME NEW r, Request(r)
    PROVE  Orderly(Steps(r), LateRemoval(r))
<1> DEFINE late == LateRemoval(r)
<1>1. late \in BOOLEAN
  BY DEF LateRemoval
<1>2. r.handler = <<"run", "rm">> => Orderly(RunRm(r), late)
  BY RunRmIsOrderly DEF LateRemoval
<1> HIDE DEF late
<1>3. /\ Orderly(Status(r), late) /\ Orderly(Log(r), late) /\ Orderly(Comparison(r), late)
      /\ Orderly(RunExplainOf(r), late) /\ Orderly(RunLs(r), late) /\ Orderly(RunLog(r), late)
      /\ Orderly(RunAudit(r), late) /\ Orderly(RunShow(r), late)
      /\ Orderly(ConfigPath(r), late) /\ Orderly(ConfigShow(r), late)
      /\ Orderly(ConfigEffective(r), late) /\ Orderly(ConfigValidate(r), late)
      /\ Orderly(ConfigTemplate(r), late) /\ Orderly(StateQuery(r), late)
      /\ Orderly(<<Arguments, Answer>>, late)
  BY <1>1, ReadersAreOrderly
<1>4. /\ Orderly(InitProject(r), late) /\ Orderly(Checkpoint(r), late) /\ Orderly(Restore(r), late)
      /\ Orderly(Run(r), late) /\ Orderly(Gc(r), late) /\ Orderly(Doctor(r), late)
  BY <1>1, InitProjectIsOrderly, CheckpointIsOrderly, RestoreIsOrderly, RunIsOrderly, GcIsOrderly, DoctorIsOrderly
<1>5. Orderly(ConfigInit(r), late) /\ Orderly(ConfigProbes(r), late) /\ Orderly(DocsExport(r), late)
  BY <1>1, ConfigInitIsOrderly, ConfigProbesIsOrderly, DocsExportIsOrderly
<1>6. Orderly(Steps(r), late)
  BY <1>2, <1>3, <1>4, <1>5 DEF Steps
<1> QED
  BY <1>6 DEF late
-----------------------------------------------------------------------------
LEMMA AtAStep ==
    ASSUME SessionInv, Executing, More,
           NEW step, step = Steps(req)[at]
    PROVE  /\ Underway /\ Request(req) /\ cause = "none" /\ exit = Pending /\ printed = "none" /\ werr = FALSE
           /\ Len(Steps(req)) \in Nat /\ at \in 1 .. Len(Steps(req)) /\ at + 1 \in 1 .. Len(Steps(req)) + 1
           /\ did \subseteq ChangedBefore(Steps(req), at)
           /\ FailureCodes(step)
           /\ step.act = "answer" <=> at = Len(Steps(req))
           /\ step.act = "answer" => step.changes = {}
           /\ MayRefuse(step) =>
                \/ Leaves(step) \subseteq Kept /\ ChangedBefore(Steps(req), at) \subseteq Kept
                \/ LateRemoval(req) /\ step.codes \cap {2, 4} = {}
           /\ MayHalt(step) => /\ Leaves(step) \cap Published = {}
                              /\ ChangedBefore(Steps(req), at) \cap Published = {}
<1>1. req # NoRequest /\ result = Pending
  BY DEF Executing
<1>2. Underway /\ Request(req)
  BY <1>1 DEF SessionInv, Underway
<1> DEFINE s == Steps(req)
<1>3. Orderly(s, LateRemoval(req))
  BY <1>2, StepsAreOrderly
<1>4. at \in 1 .. Len(s) + 1 /\ at <= Len(s)
  BY <1>2 DEF Underway, More
<1>5. cause = "none" /\ exit = Pending /\ printed = "none" /\ werr = FALSE /\ did \subseteq ChangedBefore(s, at)
  BY <1>1, <1>2, <1>4 DEF Underway
<1> HIDE DEF s
<1>6. Len(s) \in Nat
  BY <1>3 DEF Orderly, Sequence
<1>7. at \in 1 .. Len(s)
  BY <1>4, <1>6
<1>8. /\ FailureCodes(s[at])
      /\ at < Len(s) => s[at].act # "answer"
      /\ at = Len(s) => s[at].act = "answer" /\ s[at].changes = {}
      /\ RefusesInTime(s, at) \/ (LateRemoval(req) /\ s[at].codes \cap {2, 4} = {})
      /\ HaltsInTime(s, at)
  BY <1>3, <1>7 DEF Orderly
<1>9. step = s[at]
  BY DEF s
<1>10. step.act = "answer" <=> at = Len(s)
  BY <1>6, <1>7, <1>8, <1>9
<1>11. RefusesInTime(s, at) /\ MayRefuse(step) => Leaves(step) \subseteq Kept /\ ChangedBefore(s, at) \subseteq Kept
  BY <1>9 DEF RefusesInTime, ChangedBefore
<1>12. MayHalt(step) => Leaves(step) \cap Published = {} /\ ChangedBefore(s, at) \cap Published = {}
  BY <1>8, <1>9 DEF HaltsInTime, ChangedBefore
<1> QED
  BY <1>2, <1>5, <1>6, <1>7, <1>8, <1>9, <1>10, <1>11, <1>12 DEF s

LEMMA LeftBehind ==
    ASSUME NEW step
    PROVE  /\ \A left \in Left(step, TRUE) : left \subseteq step.changes
           /\ \A left \in Left(step, FALSE) : left \subseteq Leaves(step)
BY DEF Left, Leaves

LEMMA PassKeeps == ASSUME SessionInv, Pass PROVE SessionInv'
<1> DEFINE s == Steps(req)
           step == s[at]
<1>1. Executing /\ More
  BY DEF Pass
<1>2. /\ Underway /\ cause = "none" /\ exit = Pending /\ printed = "none" /\ werr = FALSE
      /\ Len(s) \in Nat /\ at \in 1 .. Len(s) /\ at + 1 \in 1 .. Len(s) + 1
      /\ did \subseteq ChangedBefore(s, at) /\ (step.act = "answer" <=> at = Len(s))
  BY <1>1, AtAStep
<1>3. /\ step.act # "answer" /\ at' = at + 1
      /\ \E left \in Left(step, TRUE) : did' = did \cup left
      /\ UNCHANGED <<lineVars, req, result, cause, cancelled, printed, werr, exit>>
  BY DEF Pass
<1>4. did' \subseteq ChangedBefore(s, at) \cup step.changes
  BY <1>2, <1>3, LeftBehind
<1>5. ChangedBefore(s, at) \cup step.changes \subseteq ChangedBefore(s, at + 1)
  <2>1. \A j \in 1 .. at - 1 : j \in 1 .. (at + 1) - 1
    BY <1>2
  <2>2. at \in 1 .. (at + 1) - 1
    BY <1>2
  <2> QED
    BY <2>1, <2>2 DEF ChangedBefore
<1>6. result = Pending /\ req # NoRequest
  BY <1>1 DEF Executing
<1>7. at + 1 <= Len(s)
  BY <1>2, <1>3
<1> HIDE DEF step
<1>8. answer' = answer
  BY <1>3 DEF lineVars
<1>9. s' = s
  BY <1>3 DEF Steps, s
<1>10. Underway'
  <2>1. did' \subseteq ChangedBefore(s', at')
    BY <1>3, <1>4, <1>5, <1>9
  <2>2. Request(req)' /\ (answer.kind \in {"command", "child"})'
    BY <1>2, <1>3, <1>8 DEF Underway, Request
  <2> QED
    BY <1>2, <1>3, <1>6, <1>7, <1>9, <2>1, <2>2 DEF Underway
<1> QED
  BY <1>2, <1>3, <1>6, <1>10 DEF SessionInv, RefusalsChangeNothing, NoRequest
(* A handler stopped early. *)
LEMMA StoppedIsUnderway ==
    ASSUME SessionInv, Executing, More, NEW code \in Nat \ {0},
           result' = code, cause' \in {"failed", "interrupted"},
           printed' # "whole", werr' \in BOOLEAN, at' \in {at, at + 1},
           UNCHANGED <<lineVars, req, exit>>,
           cause' = "interrupted" => did' \cap Published = {},
           cause' = "failed" /\ code \in {2, 3, 4} =>
                did' \subseteq Kept \/ (code = 3 /\ LateRemoval(req))
    PROVE  SessionInv'
<1> DEFINE s == Steps(req)
<1>1. /\ Underway /\ exit = Pending /\ Len(s) \in Nat
      /\ at \in 1 .. Len(s) + 1 /\ at + 1 \in 1 .. Len(s) + 1
  <2>1. /\ Underway /\ exit = Pending /\ Len(s) \in Nat
        /\ at \in 1 .. Len(s) /\ at + 1 \in 1 .. Len(s) + 1
    BY AtAStep
  <2> HIDE DEF s
  <2> QED
    BY <2>1
<1>2. result' # Pending /\ result' # 0
  BY DEF Pending
<1>3. answer' = answer /\ req' = req /\ exit' = exit /\ req # NoRequest
  BY DEF lineVars, Executing
<1>4. s' = s
  BY <1>3 DEF Steps, s
<1>5. Underway'
  <2>1. Request(req)' /\ (answer.kind \in {"command", "child"})'
    BY <1>1, <1>3 DEF Underway, Request
  <2>2. at' \in 1 .. Len(s') + 1
    BY <1>1, <1>4
  <2> QED
    BY <1>1, <1>2, <1>3, <1>4, <2>1, <2>2 DEF Underway
<1>6. RefusalsChangeNothing'
  BY <1>3 DEF RefusalsChangeNothing, Kept, LateRemoval
<1> QED
  BY <1>3, <1>5, <1>6 DEF SessionInv, NoRequest

LEMMA FailKeeps == ASSUME SessionInv, Fail PROVE SessionInv'
<1> DEFINE step == Steps(req)[at]
<1>1. Executing /\ More
  BY DEF Fail
<1>2. /\ printed = "none" /\ werr = FALSE /\ did \subseteq ChangedBefore(Steps(req), at)
      /\ FailureCodes(step)
      /\ MayRefuse(step) =>
            \/ Leaves(step) \subseteq Kept /\ ChangedBefore(Steps(req), at) \subseteq Kept
            \/ LateRemoval(req) /\ step.codes \cap {2, 4} = {}
      /\ MayHalt(step) => /\ Leaves(step) \cap Published = {}
                         /\ ChangedBefore(Steps(req), at) \cap Published = {}
  BY <1>1, AtAStep
<1>3. PICK code \in step.codes : Stop(code, IF code = Interrupted THEN "interrupted" ELSE "failed")
  BY DEF Fail
<1>4. did' \subseteq ChangedBefore(Steps(req), at) \cup Leaves(step)
  <2>1. \E left \in Left(step, FALSE) : did' = did \cup left
    BY DEF Fail
  <2> HIDE DEF step
  <2> QED
    BY <1>2, <2>1, LeftBehind
<1>5. printed' = printed /\ werr' = werr
  BY DEF Fail
<1> HIDE DEF step
<1>6. code \in Nat \ {0}
  BY <1>2, <1>3 DEF FailureCodes
<1>7. /\ result' = code /\ cause' = (IF code = Interrupted THEN "interrupted" ELSE "failed")
      /\ UNCHANGED <<lineVars, req, at, cancelled, exit>>
  BY <1>3 DEF Stop
<1>8. ASSUME cause' = "interrupted"
      PROVE  did' \cap Published = {}
  <2>1. MayHalt(step)
    BY <1>3, <1>7, <1>8 DEF MayHalt
  <2> QED
    BY <1>2, <1>4, <2>1
<1>9. ASSUME code \in {2, 3, 4}
      PROVE  did' \subseteq Kept \/ (code = 3 /\ LateRemoval(req))
  <2>1. MayRefuse(step)
    BY <1>3, <1>9 DEF MayRefuse
  <2>2. CASE Leaves(step) \subseteq Kept /\ ChangedBefore(Steps(req), at) \subseteq Kept
    BY <1>4, <2>2
  <2>3. CASE LateRemoval(req) /\ step.codes \cap {2, 4} = {}
    <3>1. code \notin {2, 4}
      BY <1>3, <2>3
    <3> QED
      BY <1>9, <2>3, <3>1
  <2> QED
    BY <1>2, <2>1, <2>2, <2>3
<1> QED
  BY <1>1, <1>2, <1>5, <1>6, <1>7, <1>8, <1>9, StoppedIsUnderway

LEMMA AbandonKeeps == ASSUME SessionInv, AbandonWait PROVE SessionInv'
<1> DEFINE step == Steps(req)[at]
           code == IF req.handler = <<"doctor">> THEN Interrupted ELSE LockTimeout
<1>1. Executing /\ More /\ step.act = "wait for the lock"
  BY DEF AbandonWait, AtStep
<1>2. /\ printed = "none" /\ werr = FALSE /\ did \subseteq ChangedBefore(Steps(req), at)
      /\ MayHalt(step) => ChangedBefore(Steps(req), at) \cap Published = {}
  BY <1>1, AtAStep
<1>3. did \cap Published = {}
  <2>1. MayHalt(step)
    BY <1>1 DEF MayHalt
  <2> QED
    BY <1>2, <2>1
<1>4. /\ result' = code /\ cause' = "interrupted" /\ UNCHANGED <<lineVars, req, at, cancelled, exit>>
      /\ UNCHANGED <<did, printed, werr>>
  BY DEF AbandonWait, Stop
<1>5. code \in Nat \ {0}
  BY DEF Interrupted, LockTimeout
<1> HIDE DEF step, code
<1> QED
  BY <1>1, <1>2, <1>3, <1>4, <1>5, StoppedIsUnderway

LEMMA NoProjectKeeps == ASSUME SessionInv, NoProject PROVE SessionInv'
<1> DEFINE step == Steps(req)[at]
           code == IF req.handler = <<"run", "show">> THEN 1 ELSE 3
<1>1. Executing /\ More /\ step.act = "resolve the project"
  BY DEF NoProject, AtStep
<1>2. /\ printed = "none" /\ werr = FALSE /\ did \subseteq ChangedBefore(Steps(req), at)
      /\ MayRefuse(step) =>
            \/ Leaves(step) \subseteq Kept /\ ChangedBefore(Steps(req), at) \subseteq Kept
            \/ LateRemoval(req) /\ step.codes \cap {2, 4} = {}
  BY <1>1, AtAStep
<1>3. did \subseteq Kept \/ LateRemoval(req)
  <2>1. MayRefuse(step)
    BY <1>1 DEF MayRefuse
  <2> QED
    BY <1>2, <2>1
<1>4. /\ result' = code /\ cause' = "failed" /\ UNCHANGED <<lineVars, req, at, cancelled, exit>>
      /\ UNCHANGED <<did, printed, werr>>
  BY DEF NoProject, Stop
<1>5. code \in Nat \ {0} /\ (code \in {2, 3, 4} => code = 3)
  OBVIOUS
<1> HIDE DEF step, code
<1> QED
  BY <1>1, <1>2, <1>3, <1>4, <1>5, StoppedIsUnderway

(* The answer is the last step, so what is given is given whole or the      *)
(* writer knows.                                                            *)
LEMMA AnsweredIsUnderway ==
    ASSUME SessionInv, AtStep("answer"), at' = at + 1, UNCHANGED <<lineVars, req, cancelled, did, exit, result, cause>>,
           werr' \in BOOLEAN,
           printed' = "whole" => ~werr',
           printed' = "whole" \/ werr' \/ PastTheWriter(req)
    PROVE  SessionInv'
<1> DEFINE s == Steps(req)
           step == s[at]
<1>1. Executing /\ More /\ step.act = "answer"
  BY DEF AtStep
<1>2. /\ Underway /\ cause = "none" /\ exit = Pending /\ Len(s) \in Nat /\ at \in 1 .. Len(s)
      /\ did \subseteq ChangedBefore(s, at) /\ (step.act = "answer" <=> at = Len(s))
  BY <1>1, AtAStep
<1>3. at' = Len(s) + 1 /\ at' \in 1 .. Len(s) + 1 /\ ~(at' <= Len(s))
  BY <1>1, <1>2
<1>4. answer' = answer /\ req' = req /\ req # NoRequest /\ result' = Pending
  BY <1>1 DEF lineVars, Executing
<1>5. s' = s
  BY <1>4 DEF Steps, s
<1>6. did' \subseteq ChangedBefore(s', at')
  <2>1. \A j \in 1 .. at - 1 : j \in 1 .. (at + 1) - 1
    BY <1>2
  <2> QED
    BY <1>2, <1>5, <2>1 DEF ChangedBefore
<1> HIDE DEF step
<1>7. PastTheWriter(req)' = PastTheWriter(req)
  BY <1>4 DEF PastTheWriter
<1>8. Underway'
  <2>1. Request(req)' /\ (answer.kind \in {"command", "child"})'
    BY <1>2, <1>4 DEF Underway, Request
  <2> QED
    BY <1>2, <1>3, <1>4, <1>5, <1>6, <1>7, <2>1 DEF Underway
<1> QED
  BY <1>2, <1>4, <1>8 DEF SessionInv, RefusalsChangeNothing, NoRequest

LEMMA AnswerKeeps == ASSUME SessionInv, GiveAnswer \/ LoseAnswer PROVE SessionInv'
<1> DEFINE step == Steps(req)[at]
<1>1. /\ AtStep("answer") /\ at' = at + 1 /\ UNCHANGED <<lineVars, req, cancelled, did, exit>>
      /\ Executing /\ More /\ step.act = "answer"
  BY DEF GiveAnswer, LoseAnswer, AtStep
<1>2. /\ printed = "none" /\ werr = FALSE /\ did \subseteq ChangedBefore(Steps(req), at)
      /\ FailureCodes(step) /\ Leaves(step) = {} /\ Underway
      /\ MayRefuse(step) =>
            \/ ChangedBefore(Steps(req), at) \subseteq Kept
            \/ LateRemoval(req) /\ step.codes \cap {2, 4} = {}
      /\ MayHalt(step) => ChangedBefore(Steps(req), at) \cap Published = {}
  BY <1>1, AtAStep DEF Leaves
<1>3. CASE LoseAnswer
  <2>1. PastTheWriter(req) /\ printed' \in {"none", "part"} /\ UNCHANGED <<result, cause, werr>>
    BY <1>3 DEF LoseAnswer
  <2> QED
    BY <1>1, <1>2, <2>1, AnsweredIsUnderway
<1>4. ASSUME printed' = "whole", werr' = werr, UNCHANGED <<result, cause>>
      PROVE  SessionInv'
  BY <1>1, <1>2, <1>4, AnsweredIsUnderway
<1>5. ASSUME printed' \in {"none", "part"}, werr' = TRUE, UNCHANGED <<result, cause>>
      PROVE  SessionInv'
  BY <1>1, <1>5, AnsweredIsUnderway
<1>6. ASSUME NEW code \in step.codes,
             result' = code, cause' = IF code = Interrupted THEN "interrupted" ELSE "failed",
             printed' \in {"none", "part"}, werr' \in BOOLEAN
      PROVE  SessionInv'
  <2> HIDE DEF step
  <2>1. code \in Nat \ {0}
    BY <1>2, <1>6 DEF FailureCodes
  <2>2. ASSUME cause' = "interrupted"
        PROVE  did' \cap Published = {}
    <3>1. MayHalt(step)
      BY <1>6, <2>2 DEF MayHalt
    <3> QED
      BY <1>1, <1>2, <3>1
  <2>3. ASSUME code \in {2, 3, 4}
        PROVE  did' \subseteq Kept \/ (code = 3 /\ LateRemoval(req))
    <3>1. MayRefuse(step)
      BY <1>6, <2>3 DEF MayRefuse
    <3>2. CASE ChangedBefore(Steps(req), at) \subseteq Kept
      BY <1>1, <1>2, <3>2
    <3>3. CASE LateRemoval(req) /\ step.codes \cap {2, 4} = {}
      <4>1. code \notin {2, 4}
        BY <1>6, <3>3
      <4> QED
        BY <2>3, <3>3, <4>1
    <3> QED
      BY <1>2, <3>1, <3>2, <3>3
  <2>4. cause' \in {"failed", "interrupted"} /\ printed' # "whole"
    BY <1>6
  <2> QED
    BY <1>1, <1>6, <2>1, <2>2, <2>3, <2>4, StoppedIsUnderway
<1>7. CASE GiveAnswer
  <2>1. \/ printed' = "whole" /\ werr' = werr /\ UNCHANGED <<result, cause>>
        \/ printed' \in {"none", "part"} /\ werr' = TRUE /\ UNCHANGED <<result, cause>>
        \/ \E code \in step.codes :
              /\ result' = code /\ cause' = IF code = Interrupted THEN "interrupted" ELSE "failed"
              /\ printed' \in {"none", "part"} /\ werr' \in BOOLEAN
    BY <1>7 DEF GiveAnswer
  <2> QED
    BY <1>4, <1>5, <1>6, <2>1
<1> QED
  BY <1>3, <1>7
LEMMA BeginKeeps == ASSUME SessionInv, Begin PROVE SessionInv'
<1>1. /\ answer.kind \in {"command", "child"} /\ req = NoRequest
      /\ UNCHANGED <<lineVars, at, result, cause, cancelled, did, printed, werr, exit>>
  BY DEF Begin
<1>2. PICK mode \in IF answer.handler = <<"run", "explain">>
                     THEN {IF answer.kind = "child" THEN "command" ELSE "stored"}
                     ELSE Modes(answer.handler), inside \in BOOLEAN :
          req' = [handler |-> answer.handler, json |-> "json" \in answer.given,
                  override |-> "config" \in answer.given, mode |-> mode, inside |-> inside]
  BY DEF Begin
<1>3. Request(req') /\ req' # NoRequest
  <2>1. "json" \in DOMAIN req' /\ "json" \notin DOMAIN NoRequest
    BY <1>2 DEF NoRequest
  <2> QED
    BY <1>2, <2>1 DEF Request
<1>4. NothingBegun /\ exit = Pending /\ printed = "none" /\ werr = FALSE
  BY <1>1 DEF SessionInv, NothingBegun
<1>5. answer' = answer
  BY <1>1 DEF lineVars
<1>6. Len(Steps(req')) \in Nat /\ Len(Steps(req')) >= 1
  BY <1>3, StepsAreOrderly DEF Orderly, Sequence
<1> DEFINE n == Len(Steps(req'))
<1>7. Underway'
  <2>1. (at \in 1 .. Len(Steps(req)) + 1)' /\ (at <= Len(Steps(req)))' /\ ~(at = Len(Steps(req)) + 1)'
    BY <1>1, <1>4, <1>6 DEF NothingBegun
  <2>2. did' = {}
    BY <1>1, <1>4 DEF NothingBegun
  <2> QED
    BY <1>1, <1>3, <1>4, <1>5, <2>1, <2>2 DEF Underway, NothingBegun
<1> QED
  BY <1>1, <1>3, <1>4, <1>7 DEF SessionInv, RefusalsChangeNothing, NothingBegun, NoRequest

LEMMA ReturnKeeps == ASSUME SessionInv, Return PROVE SessionInv'
<1> DEFINE s == Steps(req)
<1>1. /\ req # NoRequest /\ result = Pending /\ ~(at <= Len(s))
      /\ UNCHANGED <<lineVars, req, at, cause, cancelled, did, printed, werr, exit>>
  BY DEF Return, Executing, More
<1>2. Underway /\ cause = "none"
  BY <1>1 DEF SessionInv, Underway
<1>3. Len(s) \in Nat /\ at \in 1 .. Len(s) + 1
  BY <1>2, StepsAreOrderly DEF Underway, Orderly, Sequence
<1>4. s' = s /\ answer' = answer
  BY <1>1 DEF Steps, s, lineVars
<1> HIDE DEF s
<1>5. at' = Len(s') + 1
  BY <1>1, <1>3, <1>4
<1>6. exit = Pending
  BY <1>1, <1>2 DEF Underway
<1>7. PastTheWriter(req)' = PastTheWriter(req)
  BY <1>1 DEF PastTheWriter
<1>8. Underway'
  <2>1. Request(req)' /\ (answer.kind \in {"command", "child"})'
    BY <1>1, <1>2, <1>4 DEF Underway, Request
  <2>2. ChangedBefore(s', at') = ChangedBefore(s, at)
    BY <1>1, <1>4
  <2> QED
    BY <1>1, <1>2, <1>3, <1>4, <1>5, <1>6, <1>7, <2>1, <2>2 DEF Underway, s
<1> QED
  BY <1>1, <1>2, <1>8 DEF SessionInv, RefusalsChangeNothing, NoRequest

LEMMA ExitKeeps == ASSUME SessionInv, Exit PROVE SessionInv'
<1>1. /\ req # NoRequest /\ result # Pending /\ exit = Pending
      /\ exit' = IF werr /\ ~Erred THEN 1 ELSE result
      /\ UNCHANGED <<lineVars, req, at, result, cause, cancelled, did, printed, werr>>
  BY DEF Exit, Erred
<1>2. answer' = answer /\ Steps(req)' = Steps(req) /\ PastTheWriter(req)' = PastTheWriter(req) /\ Erred' = Erred
  BY <1>1 DEF lineVars, Steps, PastTheWriter, Erred
<1>3. Underway
  BY <1>1 DEF SessionInv
<1>4. Underway'
  <2>1. Request(req)' /\ (answer.kind \in {"command", "child"})'
    BY <1>1, <1>2, <1>3 DEF Underway, Request
  <2>2. ChangedBefore(Steps(req), at)' = ChangedBefore(Steps(req), at)
    BY <1>1, <1>2
  <2> QED
    BY <1>1, <1>2, <1>3, <2>1, <2>2 DEF Underway
<1> QED
  BY <1>1, <1>4 DEF SessionInv, RefusalsChangeNothing, NoRequest

LEMMA ReplyKeeps == ASSUME SessionInv, Reply PROVE SessionInv'
<1>1. /\ answer.kind \in {"refused", "page"} /\ exit = Pending
      /\ printed' \in IF answer.kind = "refused" THEN {"none"} ELSE {"part", "whole"}
      /\ werr' = (printed' = "part")
      /\ exit' = IF answer.kind = "refused" THEN 2 ELSE IF werr' THEN 1 ELSE 0
      /\ UNCHANGED <<lineVars, req, at, result, cause, cancelled, did>>
  BY DEF Reply
<1>2. req = NoRequest
  BY <1>1 DEF SessionInv, Underway
<1>3. answer' = answer
  BY <1>1 DEF lineVars
<1>4. ASSUME exit' = 0
      PROVE  printed' = "whole"
  <2>1. answer.kind # "refused"
    BY <1>1, <1>4
  <2>2. ~werr'
    BY <1>1, <1>4, <2>1
  <2>3. printed' \in {"part", "whole"} /\ printed' # "part"
    BY <1>1, <2>1, <2>2
  <2> QED
    BY <2>3
<1>5. exit' # Pending
  BY <1>1 DEF Pending
<1>6. NothingBegun'
  BY <1>1, <1>2, <1>3, <1>4, <1>5 DEF SessionInv, NothingBegun
<1>7. werr' \in BOOLEAN
  BY <1>1
<1> QED
  BY <1>1, <1>2, <1>6, <1>7 DEF SessionInv, RefusalsChangeNothing, NoRequest

LEMMA InterruptKeeps == ASSUME SessionInv, Interrupt \/ UNCHANGED vars PROVE SessionInv'
<1>1. UNCHANGED <<lineVars, req, at, result, cause, did, printed, werr, exit>>
  BY DEF Interrupt, vars, sessionVars
<1>2. answer' = answer /\ Steps(req)' = Steps(req) /\ PastTheWriter(req)' = PastTheWriter(req) /\ Erred' = Erred
  BY <1>1 DEF lineVars, Steps, PastTheWriter, Erred
<1>3. ChangedBefore(Steps(req), at)' = ChangedBefore(Steps(req), at) /\ Request(req)' = Request(req)
  BY <1>1, <1>2 DEF Request
<1>4. Underway => Underway'
  BY <1>1, <1>2, <1>3 DEF Underway
<1>5. NothingBegun => NothingBegun'
  BY <1>1, <1>2 DEF NothingBegun
<1> QED
  BY <1>1, <1>4, <1>5 DEF SessionInv, RefusalsChangeNothing, NoRequest

(* While the line is typed nothing of the session moves. *)
LEMMA TypingKeeps == ASSUME SessionInv, LineNext, UNCHANGED sessionVars PROVE SessionInv'
<1>1. answer.kind = "none"
  BY DEF LineNext, Typing, TakeOperand, TakeValue, Terminate, TakeWord, TakeBareGlobal, TakeValuedGlobal,
         TakeFlag, Fresh, Type, End, Answering
<1>2. UNCHANGED <<req, at, result, cause, did, printed, werr, exit>>
  BY DEF sessionVars
<1>3. req = NoRequest /\ NothingBegun /\ exit = Pending
  BY <1>1 DEF SessionInv, Underway, NothingBegun
<1>4. NothingBegun'
  BY <1>2, <1>3 DEF NothingBegun
<1> QED
  BY <1>2, <1>3, <1>4 DEF SessionInv, RefusalsChangeNothing, NoRequest

LEMMA SessionIsHonest == ASSUME SessionInv PROVE ExitIsHonest
<1>1. ASSUME exit # Pending
      PROVE  /\ exit = 0 =>
                    /\ cause = "none"
                    /\ printed = "whole" \/ (req # NoRequest /\ PastTheWriter(req))
             /\ req # NoRequest /\ req.json /\ printed = "whole" => cause = "none" /\ exit = result
             /\ req # NoRequest /\ cause = "interrupted" => did \cap Published = {}
  <2>1. CASE req = NoRequest
    BY <1>1, <2>1 DEF SessionInv, NothingBegun
  <2>2. CASE req # NoRequest
    <3>1. /\ Underway /\ result # Pending /\ exit = IF werr /\ ~Erred THEN 1 ELSE result
      BY <1>1, <2>2 DEF SessionInv, Underway
    <3>2. ASSUME exit = 0
          PROVE  cause = "none" /\ (printed = "whole" \/ PastTheWriter(req))
      <4>1. result = 0 /\ ~(werr /\ ~Erred)
        BY <3>1, <3>2
      <4>2. cause = "none"
        BY <3>1, <4>1 DEF Underway
      <4>3. ~Erred /\ ~werr
        BY <4>1, <4>2 DEF Erred
      <4> QED
        BY <3>1, <4>2, <4>3 DEF Underway
    <3>3. ASSUME printed = "whole"
          PROVE  cause = "none" /\ exit = result
      BY <3>1, <3>3 DEF Underway
    <3>4. cause = "interrupted" => did \cap Published = {}
      BY <3>1 DEF Underway
    <3> QED
      BY <2>2, <3>2, <3>3, <3>4
  <2> QED
    BY <2>1, <2>2
<1> QED
  BY <1>1 DEF ExitIsHonest, ExitTellsWhatHappened, SessionInv

(* Whatever line was typed and whatever the command came to, wherever it    *)
(* was stopped: 0 means nothing failed and the answer is out, a whole JSON  *)
(* document is followed by the command's own verdict, 130 by nothing        *)
(* published, and a refusal by nothing changed (router.go: Run; output.go;  *)
(* exit-codes.md).                                                          *)
THEOREM ExitsAreHonest == SessionSpec => []ExitIsHonest
<1>1. SessionInit => SessionInv
  BY DEF SessionInit, SessionInv, NothingBegun, RefusalsChangeNothing
<1>2. ASSUME SessionInv, [CommandNext]_vars
      PROVE  SessionInv'
  <2>1. CASE LineNext /\ UNCHANGED sessionVars
    BY <1>2, <2>1, TypingKeeps
  <2>2. CASE UNCHANGED vars
    BY <1>2, <2>2, InterruptKeeps
  <2>3. CASE SessionNext
    BY <1>2, <2>3, BeginKeeps, InterruptKeeps, PassKeeps, FailKeeps, AbandonKeeps, NoProjectKeeps, AnswerKeeps,
       ReturnKeeps, ExitKeeps, ReplyKeeps DEF SessionNext
  <2> QED
    BY <1>2, <2>1, <2>2, <2>3 DEF CommandNext
<1>3. SessionInv => ExitIsHonest
  BY SessionIsHonest
<1> QED
  BY <1>1, <1>2, <1>3, PTL DEF SessionSpec

-----------------------------------------------------------------------------
(* A command line, of any length.  Induction over the numbers: a set of     *)
(* them that is not empty has a smallest one.                               *)
LEMMA SmallestIn == ASSUME NEW T \in SUBSET Nat, T # {} PROVE \E m \in T : \A k \in T : m <= k
<1> DEFINE R == OpToRel(<, Nat)
<1>1. R = {ss \in Nat \X Nat : ss[1] < ss[2]}
  BY DEF OpToRel
<1>2. IsWellFoundedOn(R, Nat)
  BY NatLessThanWellFounded
<1> HIDE DEF R
<1>3. PICK m \in T : \A y \in T : ~(<<y, m>> \in R)
  BY <1>2, WFMin, Zenon
<1>4. \A x, y \in Nat : y < x => <<y, x>> \in R
  BY <1>1
<1>5. ASSUME NEW k \in T PROVE m <= k
  <2>1. m \in Nat /\ k \in Nat /\ ~(k < m)
    BY <1>3, <1>4
  <2> QED
    BY <2>1
<1> QED
  BY <1>3, <1>5

(* Induction over the numbers, for a set of them. *)
LEMMA EveryNumber == ASSUME NEW T, 0 \in T, \A n \in Nat : n \in T => n + 1 \in T PROVE Nat \subseteq T
<1> DEFINE U == Nat \ T
<1> SUFFICES ASSUME U # {} PROVE FALSE
  OBVIOUS
<1>1. U \in SUBSET Nat
  OBVIOUS
<1> HIDE DEF U
<1>2. PICK m \in U : \A k \in U : m <= k
  BY <1>1, SmallestIn
<1>3. m \in Nat /\ m \notin T /\ \A k \in Nat \ T : m <= k
  BY <1>2 DEF U
<1>4. m # 0 /\ m - 1 \in Nat /\ ~(m <= m - 1) /\ (m - 1) + 1 = m
  BY <1>3
<1> QED
  BY <1>3, <1>4

(* Every command line can be read. *)
ReadFrom(args, own, f, i) ==
    IF i > Len(args) THEN [ok |-> TRUE, stop |-> Len(args), flags |-> {}]
    ELSE FlagsFrom(args, own, f, i)
Readings(args, own) == CHOOSE f : f = [i \in 1 .. Len(args) + 2 |-> ReadFrom(args, own, f, i)]

LEMMA LeadingFlagsIs == ASSUME NEW args, NEW own PROVE LeadingFlags(args, own) = Readings(args, own)[1]
  BY Zenon DEF LeadingFlags, Readings, ReadFrom

LEMMA ReadsAhead ==
    ASSUME NEW args, NEW own, NEW f, NEW g, NEW i,
           ~(i > Len(args)) => f[i + 1] = g[i + 1] /\ f[i + 2] = g[i + 2]
    PROVE  ReadFrom(args, own, f, i) = ReadFrom(args, own, g, i)
<1>1. CASE i > Len(args)
  BY <1>1, Zenon DEF ReadFrom
<1>2. CASE ~(i > Len(args))
  BY <1>2 DEF ReadFrom, FlagsFrom
<1> QED
  BY <1>1, <1>2

(* The last d + 1 places are read. *)
ReadBack(args, own, g, d) ==
    \A i \in 1 .. Len(args) + 2 : i + d >= Len(args) + 2 => g[i] = ReadFrom(args, own, g, i)
CanReadBack(args, own, d) == \E g : g = [i \in 1 .. Len(args) + 2 |-> g[i]] /\ ReadBack(args, own, g, d)

LEMMA ReadsOne ==
    ASSUME NEW args, Len(args) \in Nat, NEW own, NEW d \in Nat, CanReadBack(args, own, d)
    PROVE  CanReadBack(args, own, d + 1)
<1> DEFINE N == Len(args) + 2
           k == N - (d + 1)
<1>1. PICK g : g = [i \in 1 .. N |-> g[i]] /\ ReadBack(args, own, g, d)
  BY DEF CanReadBack
<1> DEFINE r == ReadFrom(args, own, g, k)
           h == [i \in 1 .. N |-> IF i = k THEN r ELSE g[i]]
<1> HIDE DEF r
<1>2. h = [i \in 1 .. N |-> h[i]] /\ \A i \in 1 .. N : h[i] = IF i = k THEN r ELSE g[i]
  OBVIOUS
<1> HIDE DEF h
<1>3. ASSUME NEW i \in 1 .. N, i + (d + 1) >= N PROVE h[i] = ReadFrom(args, own, h, i)
  <2>1. ~(i > Len(args)) => h[i + 1] = g[i + 1] /\ h[i + 2] = g[i + 2]
    <3> SUFFICES ASSUME ~(i > Len(args)) PROVE h[i + 1] = g[i + 1] /\ h[i + 2] = g[i + 2]
      OBVIOUS
    <3>1. i + 1 \in 1 .. N /\ i + 2 \in 1 .. N /\ i + 1 # k /\ i + 2 # k
      BY <1>3
    <3> QED
      BY <1>2, <3>1
  <2>2. ReadFrom(args, own, h, i) = ReadFrom(args, own, g, i)
    BY <2>1, ReadsAhead
  <2>3. CASE i = k
    BY <1>2, <2>2, <2>3 DEF r
  <2>4. CASE i # k
    <3>1. i + d >= N /\ i \in 1 .. Len(args) + 2
      BY <1>3, <2>4
    <3>2. g[i] = ReadFrom(args, own, g, i)
      BY <1>1, <3>1 DEF ReadBack
    <3>3. h[i] = g[i]
      BY <1>2, <1>3, <2>4
    <3> QED
      BY <2>2, <3>2, <3>3
  <2> QED
    BY <2>3, <2>4
<1>4. ReadBack(args, own, h, d + 1)
  BY <1>3 DEF ReadBack
<1> QED
  BY <1>2, <1>4 DEF CanReadBack

LEMMA ReadingsAre ==
    ASSUME NEW args, Len(args) \in Nat, NEW own
    PROVE  Readings(args, own) = [i \in 1 .. Len(args) + 2 |-> ReadFrom(args, own, Readings(args, own), i)]
<1> DEFINE N == Len(args) + 2
           T == {d \in Nat : CanReadBack(args, own, d)}
<1>1. CanReadBack(args, own, 0)
  <2> DEFINE g == [i \in 1 .. N |-> [ok |-> TRUE, stop |-> Len(args), flags |-> {}]]
  <2>1. g = [i \in 1 .. N |-> g[i]]
    BY Zenon
  <2>2. ASSUME NEW i \in 1 .. N, i + 0 >= N PROVE g[i] = ReadFrom(args, own, g, i)
    <3>1. i > Len(args)
      BY <2>2
    <3>2. g[i] = [ok |-> TRUE, stop |-> Len(args), flags |-> {}]
      BY Zenon
    <3> HIDE DEF g
    <3> QED
      BY <3>1, <3>2, Zenon DEF ReadFrom
  <2> HIDE DEF g
  <2> QED
    BY <2>1, <2>2 DEF CanReadBack, ReadBack
<1>2. \A n \in Nat : n \in T => n + 1 \in T
  BY ReadsOne
<1> HIDE DEF T
<1>3. Nat \subseteq T
  <2>1. 0 \in T
    BY <1>1 DEF T
  <2> QED
    BY <1>2, <2>1, EveryNumber
<1>4. CanReadBack(args, own, N)
  <2>1. N \in Nat
    OBVIOUS
  <2> HIDE DEF N
  <2> QED
    BY <1>3, <2>1 DEF T
<1>5. PICK g : g = [i \in 1 .. N |-> g[i]] /\ ReadBack(args, own, g, N)
  BY <1>4 DEF CanReadBack
<1>6. \A i \in 1 .. N : g[i] = ReadFrom(args, own, g, i)
  BY <1>5 DEF ReadBack
<1>7. g = [i \in 1 .. N |-> ReadFrom(args, own, g, i)]
  BY <1>5, <1>6, Zenon
<1> QED
  BY <1>7, Zenon DEF Readings

Stops(r, args) == "stop" \in DOMAIN r /\ r.stop \in 0 .. Len(args)

LEMMA StopsHere ==
    ASSUME NEW args, Len(args) \in Nat, NEW own, NEW f, NEW i \in 1 .. Len(args) + 2,
           ~(i > Len(args)) => Stops(f[i + 1], args) /\ Stops(f[i + 2], args)
    PROVE  Stops(ReadFrom(args, own, f, i), args)
<1>1. CASE i > Len(args)
  <2>1. ReadFrom(args, own, f, i) = [ok |-> TRUE, stop |-> Len(args), flags |-> {}]
    BY <1>1, Zenon DEF ReadFrom
  <2> QED
    BY <2>1 DEF Stops
<1>2. CASE ~(i > Len(args))
  <2>1. Stops(NoFlags, args)
    BY DEF Stops, NoFlags
  <2>2. ASSUME NEW r, NEW n, Stops(r, args) PROVE Stops(Also(r, n), args)
    BY <2>2 DEF Stops, Also
  <2>3. Stops([ok |-> TRUE, stop |-> i - 1, flags |-> {}], args)
    BY <1>2 DEF Stops
  <2>4. Stops(f[i + 1], args) /\ Stops(f[i + 2], args)
    BY <1>2
  <2>5. Stops(FlagsFrom(args, own, f, i), args)
    BY <2>1, <2>2, <2>3, <2>4, Zenon DEF FlagsFrom
  <2>6. ReadFrom(args, own, f, i) = FlagsFrom(args, own, f, i)
    BY <1>2, Zenon DEF ReadFrom
  <2> QED
    BY <2>5, <2>6
<1> QED
  BY <1>1, <1>2

(* Where the flags stop is a place in the line. *)
LEMMA LeadingStops ==
    ASSUME NEW args, Len(args) \in Nat, NEW own
    PROVE  LeadingFlags(args, own).stop \in 0 .. Len(args)
<1> DEFINE N == Len(args) + 2
           f == Readings(args, own)
           T == {d \in Nat : \A i \in 1 .. N : i + d >= N => Stops(f[i], args)}
<1>1. \A i \in 1 .. N : f[i] = ReadFrom(args, own, f, i)
  <2>1. f = [i \in 1 .. N |-> ReadFrom(args, own, f, i)]
    BY ReadingsAre
  <2> HIDE DEF f
  <2> QED
    BY <2>1, Zenon
<1> HIDE DEF f
<1>2. ASSUME NEW d \in Nat, \A i \in 1 .. N : i + d >= N => Stops(f[i], args),
             NEW i \in 1 .. N, i + (d + 1) >= N
      PROVE  Stops(f[i], args)
  <2>1. ~(i > Len(args)) => Stops(f[i + 1], args) /\ Stops(f[i + 2], args)
    BY <1>2
  <2> QED
    BY <1>1, <2>1, StopsHere
<1>3. 0 \in T
  <2>1. ASSUME NEW i \in 1 .. N, i + 0 >= N PROVE Stops(f[i], args)
    <3>1. i > Len(args)
      BY <2>1
    <3> QED
      BY <1>1, <3>1, StopsHere
  <2> QED
    BY <2>1
<1>4. ASSUME NEW d \in Nat, d \in T PROVE d + 1 \in T
  <2>1. \A i \in 1 .. N : i + d >= N => Stops(f[i], args)
    BY <1>4
  <2>2. \A i \in 1 .. N : i + (d + 1) >= N => Stops(f[i], args)
    BY <1>2, <2>1
  <2> QED
    BY <2>2
<1>5. Nat \subseteq T
  <2> HIDE DEF T
  <2> QED
    BY <1>3, <1>4, EveryNumber
<1>6. N \in T
  BY <1>5
<1>7. Stops(f[1], args)
  BY <1>6
<1> QED
  BY <1>7, LeadingFlagsIs DEF f, Stops

-----------------------------------------------------------------------------
(* The line so far. *)
Globals == Capabilities \cup {"help"}
Marks == {"arg", "global"}
Invocations ==
    [given : SUBSET Globals, command : {""} \cup {t.name : t \in Tokens}, args : Seq(Tokens),
     operands : Seq(Tokens), tail : Seq(Marks)]

(* What the first n tokens of a line give awa itself, if they are its own. *)
Claimed(line, n) == UNION {CapOf(line[i]) : i \in 1 .. n}

(* The last c of these tokens are the last ones before the end of m tokens, *)
(* and what awa took for itself stands before them.                         *)
Stretch(line, given, s, c, m) ==
    /\ c <= m /\ \A i \in 0 .. c - 1 : s[Len(s) - i] = line[m - i]
    /\ given \subseteq Claimed(line, m - c)

(* Arguments that no global is among are a stretch of the line. *)
AsTyped(line, call, m) ==
    \A c \in 1 .. Len(call.args) :
        ~AmbiguousTailGlobal(call.tail, Len(call.args) - c) => Stretch(line, call.given, call.args, c, m)

ArgMarks(tail, k) == {j \in 1 .. k : tail[j] = "arg"}

Shape ==
    /\ typed \in Seq(Tokens) /\ inv \in Invocations
    /\ want \in {"none"} \cup DOMAIN ValuedGlobals
    /\ Cardinality(ArgMarks(inv.tail, Len(inv.tail))) = Len(inv.args)
    /\ ~Named => inv.args = <<>>
    /\ inv.operands # <<>> => over
    /\ over => want = "none"
    /\ inv.given \subseteq Claimed(typed, Len(typed))
    /\ want # "none" => ValuedGlobals[want] \in Claimed(typed, Len(typed))

KeptInOrder ==
    /\ ~over => AsTyped(typed, inv, Len(typed))
    /\ over /\ inv.operands = <<>> => LastDashes /\ AsTyped(typed, inv, Len(typed) - 1)
    /\ over /\ inv.operands # <<>> => Stretch(typed, inv.given, inv.operands, Len(inv.operands), Len(typed))

LineInv ==
    /\ Answering => Shape /\ (want = "none" => KeptInOrder)
    /\ ~Answering => NothingIsStolen

LEMMA Appended ==
    ASSUME NEW S, NEW s \in Seq(S), NEW e \in S
    PROVE  /\ Append(s, e) \in Seq(S) /\ Len(Append(s, e)) = Len(s) + 1 /\ Len(s) \in Nat
           /\ Append(s, e)[Len(s) + 1] = e /\ \A i \in 1 .. Len(s) : Append(s, e)[i] = s[i]
  BY AppendProperties

LEMMA MarksGrow ==
    ASSUME NEW tail \in Seq(Marks), NEW mark \in Marks
    PROVE  LET more == Append(tail, mark) IN
           /\ more \in Seq(Marks)
           /\ \A k \in 1 .. Len(tail) : ArgMarks(more, k) = ArgMarks(tail, k)
           /\ Cardinality(ArgMarks(more, Len(more))) =
                 Cardinality(ArgMarks(tail, Len(tail))) + (IF mark = "arg" THEN 1 ELSE 0)
           /\ Cardinality(ArgMarks(tail, Len(tail))) \in Nat
           /\ \A n : AmbiguousTailGlobal(tail, n) => AmbiguousTailGlobal(more, n)
           /\ mark = "global" => \A n : Cardinality(ArgMarks(tail, Len(tail))) > n => AmbiguousTailGlobal(more, n)
<1> DEFINE more == Append(tail, mark)
<1>1. /\ more \in Seq(Marks) /\ Len(more) = Len(tail) + 1 /\ Len(tail) \in Nat
      /\ more[Len(tail) + 1] = mark /\ \A i \in 1 .. Len(tail) : more[i] = tail[i]
  BY Appended
<1> HIDE DEF more
<1>2. ASSUME NEW k \in 1 .. Len(tail) PROVE ArgMarks(more, k) = ArgMarks(tail, k)
  <2>1. \A j \in 1 .. k : more[j] = tail[j]
    BY <1>1
  <2> QED
    BY <2>1 DEF ArgMarks
<1> DEFINE A == ArgMarks(tail, Len(tail))
<1>3. IsFiniteSet(A) /\ Cardinality(A) \in Nat
  <2>1. IsFiniteSet(1 .. Len(tail))
    <3>1. 1 \in Int /\ Len(tail) \in Int
      BY <1>1
    <3> QED
      BY <3>1, FS_Interval
  <2>2. A \subseteq 1 .. Len(tail)
    BY DEF ArgMarks
  <2> QED
    BY <2>1, <2>2, FS_Subset, FS_CardinalityType
<1>4. ArgMarks(more, Len(more)) = IF mark = "arg" THEN A \cup {Len(tail) + 1} ELSE A
  <2>1. \A j : j \in 1 .. Len(more) <=> j \in 1 .. Len(tail) \/ j = Len(tail) + 1
    BY <1>1
  <2> QED
    BY <1>1, <2>1 DEF ArgMarks
<1>5. Cardinality(ArgMarks(more, Len(more))) = Cardinality(A) + (IF mark = "arg" THEN 1 ELSE 0)
  <2>1. Len(tail) + 1 \notin A
    BY <1>1 DEF ArgMarks
  <2>2. Cardinality(A \cup {Len(tail) + 1}) = Cardinality(A) + 1
    BY <1>3, <2>1, FS_AddElement
  <2> QED
    BY <1>3, <1>4, <2>2
<1>6. ASSUME NEW n, AmbiguousTailGlobal(tail, n) PROVE AmbiguousTailGlobal(more, n)
  <2>1. PICK k \in 1 .. Len(tail) : tail[k] = "global" /\ Cardinality(ArgMarks(tail, k)) > n
    BY <1>6 DEF AmbiguousTailGlobal, ArgMarks
  <2>2. k \in 1 .. Len(more) /\ more[k] = "global" /\ Cardinality(ArgMarks(more, k)) > n
    BY <1>1, <1>2, <2>1
  <2> QED
    BY <2>2 DEF AmbiguousTailGlobal, ArgMarks
<1>7. ASSUME mark = "global", NEW n, Cardinality(A) > n PROVE AmbiguousTailGlobal(more, n)
  <2>1. Len(more) \in 1 .. Len(more) /\ more[Len(more)] = "global" /\ Cardinality(ArgMarks(more, Len(more))) > n
    BY <1>1, <1>4, <1>7
  <2> QED
    BY <2>1 DEF AmbiguousTailGlobal, ArgMarks
<1> QED
  BY <1>1, <1>2, <1>3, <1>5, <1>6, <1>7 DEF more

(* A line that grows. *)
LEMMA LineGrows ==
    ASSUME NEW line \in Seq(Tokens), NEW t \in Tokens, NEW longer, longer = Append(line, t)
    PROVE  /\ longer \in Seq(Tokens) /\ Len(longer) = Len(line) + 1 /\ Len(line) \in Nat
           /\ longer[Len(line) + 1] = t /\ \A i \in 1 .. Len(line) : longer[i] = line[i]
           /\ Claimed(line, Len(line)) \subseteq Claimed(longer, Len(longer))
           /\ CapOf(t) \subseteq Claimed(longer, Len(longer))
<1>1. /\ longer \in Seq(Tokens) /\ Len(longer) = Len(line) + 1 /\ Len(line) \in Nat
      /\ longer[Len(line) + 1] = t /\ \A i \in 1 .. Len(line) : longer[i] = line[i]
  BY Appended
<1>3. Claimed(line, Len(line)) \subseteq Claimed(longer, Len(longer))
  BY <1>1 DEF Claimed
<1>4. CapOf(t) \subseteq Claimed(longer, Len(longer))
  <2>1. Len(line) + 1 \in 1 .. Len(longer)
    BY <1>1
  <2> QED
    BY <1>1, <2>1 DEF Claimed
<1> QED
  BY <1>1, <1>3, <1>4

LEMMA ClaimedStays ==
    ASSUME NEW line \in Seq(Tokens), NEW t \in Tokens, NEW longer, longer = Append(line, t),
           NEW n \in 0 .. Len(line)
    PROVE  Claimed(longer, n) = Claimed(line, n)
<1>1. \A i \in 1 .. n : longer[i] = line[i]
  BY LineGrows
<1> QED
  BY <1>1 DEF Claimed

(* A stretch of a line is one of the longer line, and grows with it. *)
LEMMA StretchStays ==
    ASSUME NEW line \in Seq(Tokens), NEW t \in Tokens, NEW longer, longer = Append(line, t), NEW given, NEW s,
           NEW m \in 0 .. Len(line), NEW c \in Nat, Stretch(line, given, s, c, m)
    PROVE  Stretch(longer, given, s, c, m)
<1>1. Len(line) \in Nat /\ \A i \in 1 .. Len(line) : longer[i] = line[i]
  BY LineGrows
<1>2. /\ c <= m /\ \A i \in 0 .. c - 1 : s[Len(s) - i] = line[m - i]
      /\ given \subseteq Claimed(line, m - c)
  BY DEF Stretch
<1>3. ASSUME NEW i \in 0 .. c - 1 PROVE s[Len(s) - i] = longer[m - i]
  <2>1. m - i \in 1 .. Len(line)
    BY <1>1, <1>2
  <2> QED
    BY <1>1, <1>2, <2>1
<1>4. Claimed(longer, m - c) = Claimed(line, m - c)
  <2>1. m - c \in 0 .. Len(line)
    BY <1>1, <1>2
  <2> QED
    BY <2>1, ClaimedStays
<1> QED
  BY <1>1, <1>2, <1>3, <1>4 DEF Stretch

LEMMA StretchGrows ==
    ASSUME NEW line \in Seq(Tokens), NEW t \in Tokens, NEW longer, longer = Append(line, t), NEW given,
           NEW s \in Seq(Tokens), NEW c \in 0 .. Len(s), Stretch(line, given, s, c, Len(line))
    PROVE  Stretch(longer, given, Append(s, t), c + 1, Len(longer))
<1> DEFINE r == Append(s, t)
<1>1. /\ r \in Seq(Tokens) /\ Len(r) = Len(s) + 1 /\ Len(s) \in Nat
      /\ r[Len(s) + 1] = t /\ \A i \in 1 .. Len(s) : r[i] = s[i]
  BY Appended
<1> HIDE DEF r
<1>2. /\ Len(longer) = Len(line) + 1 /\ Len(line) \in Nat
      /\ longer[Len(line) + 1] = t /\ \A i \in 1 .. Len(line) : longer[i] = line[i]
  BY LineGrows
<1>3. /\ c <= Len(line) /\ \A i \in 0 .. c - 1 : s[Len(s) - i] = line[Len(line) - i]
      /\ given \subseteq Claimed(line, Len(line) - c)
  BY DEF Stretch
<1>4. ASSUME NEW i \in 0 .. c PROVE r[Len(r) - i] = longer[Len(longer) - i]
  <2>1. CASE i = 0
    BY <1>1, <1>2, <2>1
  <2>2. CASE i # 0
    <3>1. /\ i - 1 \in 0 .. c - 1 /\ Len(s) - (i - 1) \in 1 .. Len(s)
          /\ Len(line) - (i - 1) \in 1 .. Len(line)
          /\ Len(r) - i = Len(s) - (i - 1) /\ Len(longer) - i = Len(line) - (i - 1)
      BY <1>1, <1>2, <1>3, <2>2
    <3> QED
      BY <1>1, <1>2, <1>3, <3>1
  <2> QED
    BY <2>1, <2>2
<1>5. given \subseteq Claimed(longer, Len(longer) - (c + 1))
  <2>1. Len(line) - c \in 0 .. Len(line) /\ Len(longer) - (c + 1) = Len(line) - c
    BY <1>2, <1>3
  <2>2. Claimed(longer, Len(line) - c) = Claimed(line, Len(line) - c)
    BY <2>1, ClaimedStays
  <2> QED
    BY <1>3, <2>1, <2>2
<1>6. c + 1 <= Len(longer) /\ (c + 1) - 1 = c
  BY <1>2, <1>3
<1> QED
  BY <1>4, <1>5, <1>6 DEF Stretch, r

(* A global is read: behind a command it spoils every stretch of arguments. *)
LEMMA GlobalRead ==
    ASSUME Shape, ~over, NEW t \in Tokens, typed' = Append(typed, t), NEW cap \in Globals,
           cap \in Claimed(typed, Len(typed))', inv' = WithGlobal(cap), want' = "none", over' = over
    PROVE  Shape' /\ KeptInOrder'
<1>1. /\ typed \in Seq(Tokens) /\ inv \in Invocations /\ inv.tail \in Seq(Marks)
      /\ Cardinality(ArgMarks(inv.tail, Len(inv.tail))) = Len(inv.args)
      /\ ~Named => inv.args = <<>>
      /\ inv.operands = <<>> /\ inv.given \subseteq Claimed(typed, Len(typed))
  BY DEF Shape, Invocations
<1>2. /\ typed' \in Seq(Tokens) /\ Len(typed') = Len(typed) + 1 /\ Len(typed) \in Nat
      /\ Claimed(typed, Len(typed)) \subseteq Claimed(typed', Len(typed'))
  BY <1>1, LineGrows
<1> DEFINE more == IF Named THEN Append(inv.tail, "global") ELSE inv.tail
<1>3. /\ more \in Seq(Marks)
      /\ Cardinality(ArgMarks(more, Len(more))) = Len(inv.args)
      /\ Named => \A n : Len(inv.args) > n => AmbiguousTailGlobal(more, n)
  <2>1. "global" \in Marks /\ ~("global" = "arg")
    BY DEF Marks
  <2>2. CASE Named
    <3> DEFINE grown == Append(inv.tail, "global")
    <3>1. /\ grown \in Seq(Marks)
          /\ Cardinality(ArgMarks(grown, Len(grown))) =
                Cardinality(ArgMarks(inv.tail, Len(inv.tail))) + (IF "global" = "arg" THEN 1 ELSE 0)
          /\ Cardinality(ArgMarks(inv.tail, Len(inv.tail))) \in Nat
          /\ \A n : Cardinality(ArgMarks(inv.tail, Len(inv.tail))) > n => AmbiguousTailGlobal(grown, n)
      BY <1>1, <2>1, MarksGrow, Zenon
    <3>2. more = grown
      BY <2>2
    <3> HIDE DEF more, grown
    <3> QED
      BY <1>1, <2>1, <3>1, <3>2
  <2>3. CASE ~Named
    BY <1>1, <2>3
  <2> QED
    BY <2>2, <2>3
<1>4. /\ inv' \in Invocations /\ inv'.given = inv.given \cup {cap} /\ inv'.tail = more
      /\ inv'.args = inv.args /\ inv'.operands = inv.operands /\ inv'.command = inv.command
  <2> HIDE DEF more
  <2>1. inv' = [inv EXCEPT !.given = @ \cup {cap}, !.tail = more]
    BY DEF WithGlobal, more
  <2> QED
    BY <1>1, <1>3, <2>1 DEF Invocations
<1> HIDE DEF more
<1>5. inv'.given \subseteq Claimed(typed', Len(typed'))
  BY <1>1, <1>2, <1>4
<1>6. Shape'
  BY <1>1, <1>2, <1>3, <1>4, <1>5 DEF Shape, Named
<1>7. AsTyped(typed', inv', Len(typed'))
  <2> SUFFICES ASSUME NEW c \in 1 .. Len(inv'.args), ~AmbiguousTailGlobal(inv'.tail, Len(inv'.args) - c)
               PROVE  FALSE
    BY DEF AsTyped
  <2>1. Len(inv.args) \in Nat /\ (~Named => Len(inv.args) = 0)
    <3>1. inv.args \in Seq(Tokens)
      BY <1>1 DEF Invocations
    <3>2. Len(inv.args) \in Nat /\ (inv.args = <<>> => Len(inv.args) = 0)
      BY <3>1
    <3> QED
      BY <1>1, <3>2, Zenon
  <2>2. Named /\ Len(inv.args) > Len(inv.args) - c
    BY <1>4, <2>1
  <2> QED
    BY <1>3, <1>4, <2>2
<1>8. KeptInOrder'
  BY <1>7 DEF KeptInOrder
<1> QED
  BY <1>6, <1>8

(* An argument is read. *)
LEMMA ArgumentRead ==
    ASSUME Shape, KeptInOrder, Named, ~over, want = "none", NEW t \in Tokens, typed' = Append(typed, t),
           inv' = WithArgument(t), want' = want, over' = over
    PROVE  Shape' /\ KeptInOrder'
<1>1. /\ typed \in Seq(Tokens) /\ inv \in Invocations /\ inv.tail \in Seq(Marks)
      /\ Cardinality(ArgMarks(inv.tail, Len(inv.tail))) = Len(inv.args)
      /\ inv.operands = <<>> /\ inv.given \subseteq Claimed(typed, Len(typed))
  BY DEF Shape, Invocations
<1>11. inv.args \in Seq(Tokens)
  BY <1>1 DEF Invocations
<1>10. inv.args \in Seq(Tokens) /\ Len(inv.args) \in Nat
  BY <1>11
<1>0. AsTyped(typed, inv, Len(typed))
  BY Zenon DEF KeptInOrder
<1>2. /\ typed' \in Seq(Tokens) /\ Len(typed') = Len(typed) + 1 /\ Len(typed) \in Nat
      /\ Claimed(typed, Len(typed)) \subseteq Claimed(typed', Len(typed'))
  BY <1>1, LineGrows
<1> DEFINE more == Append(inv.tail, "arg")
           longer == Append(inv.args, t)
<1>3. /\ more \in Seq(Marks)
      /\ Cardinality(ArgMarks(more, Len(more))) = Len(inv.args) + 1
      /\ \A n : AmbiguousTailGlobal(inv.tail, n) => AmbiguousTailGlobal(more, n)
  <2>1. "arg" \in Marks
    BY DEF Marks
  <2>2. /\ more \in Seq(Marks)
        /\ Cardinality(ArgMarks(more, Len(more))) =
              Cardinality(ArgMarks(inv.tail, Len(inv.tail))) + (IF "arg" = "arg" THEN 1 ELSE 0)
        /\ \A n : AmbiguousTailGlobal(inv.tail, n) => AmbiguousTailGlobal(more, n)
    BY <1>1, <2>1, MarksGrow, Zenon
  <2> HIDE DEF more
  <2> QED
    BY <1>1, <2>2
<1>4. longer \in Seq(Tokens) /\ Len(longer) = Len(inv.args) + 1
  BY <1>10, Appended
<1>5. /\ inv' \in Invocations /\ inv'.given = inv.given /\ inv'.tail = more
      /\ inv'.args = longer /\ inv'.operands = inv.operands /\ inv'.command = inv.command
  <2> HIDE DEF more, longer
  <2>1. inv' = [inv EXCEPT !.args = longer, !.tail = more]
    BY DEF WithArgument, more, longer
  <2> QED
    BY <1>1, <1>3, <1>4, <2>1 DEF Invocations
<1>6. inv'.given \subseteq Claimed(typed', Len(typed'))
  BY <1>1, <1>2, <1>5
<1>7. AsTyped(typed', inv', Len(typed'))
  <2> SUFFICES ASSUME NEW c \in 1 .. Len(longer), ~AmbiguousTailGlobal(more, Len(longer) - c)
               PROVE  Stretch(typed', inv.given, longer, c, Len(typed'))
    BY <1>5 DEF AsTyped
  <2>1. c - 1 \in 0 .. Len(inv.args) /\ Len(longer) - c = Len(inv.args) - (c - 1) /\ (c - 1) + 1 = c
    BY <1>10, <1>4
  <2>2. Stretch(typed, inv.given, inv.args, c - 1, Len(typed))
    <3>1. CASE c = 1
      BY <1>1, <1>2, <3>1 DEF Stretch
    <3>2. CASE c # 1
      <4>1. c - 1 \in 1 .. Len(inv.args)
        BY <2>1, <3>2
      <4>2. ~AmbiguousTailGlobal(inv.tail, Len(inv.args) - (c - 1))
        BY <1>3, <2>1
      <4> HIDE DEF more, longer
      <4> QED
        BY <1>0, <4>1, <4>2 DEF AsTyped
    <3> QED
      BY <3>1, <3>2
  <2>3. Stretch(typed', inv.given, longer, (c - 1) + 1, Len(typed'))
    BY <1>1, <1>10, <2>1, <2>2, StretchGrows, Zenon
  <2> QED
    BY <2>1, <2>3
<1> HIDE DEF more, longer
<1>8. Shape'
  <2>1. Named'
    BY <1>5 DEF Named
  <2> QED
    BY <1>1, <1>2, <1>3, <1>4, <1>5, <1>6, <2>1 DEF Shape
<1>9. KeptInOrder'
  BY <1>7 DEF KeptInOrder
<1> QED
  BY <1>8, <1>9

(* The command is named. *)
LEMMA CommandRead ==
    ASSUME Shape, ~Named, ~over, want = "none", NEW t \in Tokens, typed' = Append(typed, t),
           inv' = [inv EXCEPT !.command = t.name], want' = want, over' = over
    PROVE  Shape' /\ KeptInOrder'
<1>1. /\ typed \in Seq(Tokens) /\ inv \in Invocations
      /\ inv.args = <<>> /\ inv.operands = <<>> /\ inv.given \subseteq Claimed(typed, Len(typed))
      /\ Cardinality(ArgMarks(inv.tail, Len(inv.tail))) = Len(inv.args)
  BY DEF Shape
<1>2. /\ typed' \in Seq(Tokens)
      /\ Claimed(typed, Len(typed)) \subseteq Claimed(typed', Len(typed'))
  BY <1>1, LineGrows
<1>3. /\ inv' \in Invocations /\ inv'.given = inv.given /\ inv'.tail = inv.tail
      /\ inv'.args = inv.args /\ inv'.operands = inv.operands
  BY <1>1 DEF Invocations
<1>4. Shape'
  BY <1>1, <1>2, <1>3 DEF Shape
<1>5. KeptInOrder'
  <2>1. Len(inv'.args) = 0
    BY <1>1, <1>3
  <2>2. AsTyped(typed', inv', Len(typed'))
    BY <2>1 DEF AsTyped
  <2> QED
    BY <2>2 DEF KeptInOrder
<1> QED
  BY <1>4, <1>5

(* "--" is read. *)
LEMMA DashesRead ==
    ASSUME Shape, KeptInOrder, ~over, want = "none", NEW t \in Tokens, t.kind = "dashes",
           typed' = Append(typed, t), inv' = inv, want' = want, over' = TRUE
    PROVE  Shape' /\ KeptInOrder'
<1>1. /\ typed \in Seq(Tokens) /\ inv \in Invocations
      /\ inv.operands = <<>> /\ inv.given \subseteq Claimed(typed, Len(typed))
  BY DEF Shape, Invocations
<1>11. inv.args \in Seq(Tokens)
  BY <1>1 DEF Invocations
<1>10. inv.args \in Seq(Tokens) /\ Len(inv.args) \in Nat
  BY <1>11
<1>0. AsTyped(typed, inv, Len(typed))
  BY Zenon DEF KeptInOrder
<1>2. /\ typed' \in Seq(Tokens) /\ Len(typed') = Len(typed) + 1 /\ Len(typed) \in Nat
      /\ typed'[Len(typed) + 1] = t
      /\ Claimed(typed, Len(typed)) \subseteq Claimed(typed', Len(typed'))
  BY <1>1, LineGrows
<1>3. Shape'
  BY <1>1, <1>2 DEF Shape, Named
<1>4. LastDashes'
  <2>1. Last(typed') = t
    BY <1>2 DEF Last
  <2>2. typed' # <<>>
    BY <1>2
  <2> QED
    BY <2>1, <2>2 DEF LastDashes
<1>5. AsTyped(typed', inv, Len(typed))
  <2> SUFFICES ASSUME NEW c \in 1 .. Len(inv.args), ~AmbiguousTailGlobal(inv.tail, Len(inv.args) - c)
               PROVE  Stretch(typed', inv.given, inv.args, c, Len(typed))
    BY DEF AsTyped
  <2>1. Stretch(typed, inv.given, inv.args, c, Len(typed))
    BY <1>0 DEF AsTyped
  <2>2. c \in Nat /\ Len(typed) \in 0 .. Len(typed)
    BY <1>10, <1>2
  <2> QED
    BY <1>1, <2>1, <2>2, StretchStays, Zenon
<1>6. Len(typed') - 1 = Len(typed)
  BY <1>2
<1>7. KeptInOrder'
  BY <1>1, <1>4, <1>5, <1>6 DEF KeptInOrder
<1> QED
  BY <1>3, <1>7

(* An operand is read. *)
LEMMA OperandRead ==
    ASSUME Shape, KeptInOrder, over, NEW t \in Tokens, typed' = Append(typed, t),
           inv' = [inv EXCEPT !.operands = Append(@, t)], want' = want, over' = over
    PROVE  Shape' /\ KeptInOrder'
<1>1. /\ typed \in Seq(Tokens) /\ inv \in Invocations /\ inv.operands \in Seq(Tokens)
      /\ inv.given \subseteq Claimed(typed, Len(typed)) /\ want = "none"
      /\ inv.operands # <<>> => Stretch(typed, inv.given, inv.operands, Len(inv.operands), Len(typed))
  BY DEF Shape, Invocations, KeptInOrder
<1>2. /\ typed' \in Seq(Tokens) /\ Len(typed) \in Nat
      /\ Claimed(typed, Len(typed)) \subseteq Claimed(typed', Len(typed'))
  BY <1>1, LineGrows
<1> DEFINE more == Append(inv.operands, t)
<1>3. more \in Seq(Tokens) /\ Len(more) = Len(inv.operands) + 1 /\ Len(inv.operands) \in Nat /\ more # <<>>
  BY <1>1, Appended
<1>4. /\ inv' \in Invocations /\ inv'.given = inv.given /\ inv'.tail = inv.tail
      /\ inv'.args = inv.args /\ inv'.operands = more /\ inv'.command = inv.command
  BY <1>1, <1>3 DEF Invocations
<1>5. Stretch(typed, inv.given, inv.operands, Len(inv.operands), Len(typed))
  <2>1. CASE inv.operands = <<>>
    <3>1. Len(inv.operands) = 0
      BY <2>1
    <3> QED
      BY <1>1, <1>2, <3>1 DEF Stretch
  <2> QED
    BY <1>1, <2>1
<1>6. Stretch(typed', inv.given, more, Len(inv.operands) + 1, Len(typed'))
  <2>1. Len(inv.operands) \in 0 .. Len(inv.operands)
    BY <1>3
  <2> QED
    BY <1>1, <1>5, <2>1, StretchGrows, Zenon
<1> HIDE DEF more
<1>7. Shape'
  BY <1>1, <1>2, <1>4 DEF Shape, Named
<1>8. KeptInOrder'
  BY <1>3, <1>4, <1>6 DEF KeptInOrder
<1> QED
  BY <1>7, <1>8

(* The names of the globals. *)
LEMMA GlobalsAreNamed ==
    ASSUME NEW t \in Tokens
    PROVE  /\ t.name \in DOMAIN BareGlobals => BareGlobals[t.name] \in Globals /\ BareGlobals[t.name] \in CapOf(t)
           /\ t.name \in DOMAIN ValuedGlobals => ValuedGlobals[t.name] \in CapOf(t)
           /\ \A flag \in DOMAIN ValuedGlobals : ValuedGlobals[flag] \in Globals
           /\ "none" \notin DOMAIN ValuedGlobals
<1>1. /\ DOMAIN BareGlobals = {"-h", "--help", "--json", "--strict"}
      /\ BareGlobals["-h"] = "help" /\ BareGlobals["--help"] = "help"
      /\ BareGlobals["--json"] = "json" /\ BareGlobals["--strict"] = "trust"
  BY DEF BareGlobals
<1>2. /\ DOMAIN ValuedGlobals = {"--root", "--config", "--trust-mode"}
      /\ ValuedGlobals["--root"] = "root" /\ ValuedGlobals["--config"] = "config"
      /\ ValuedGlobals["--trust-mode"] = "trust"
  BY DEF ValuedGlobals
<1>3. Globals = {"root", "config", "json", "trust", "help"}
  BY DEF Globals, Capabilities
<1>4. t.name \in DOMAIN BareGlobals => BareGlobals[t.name] \in Globals
  BY <1>1, <1>3
<1>5. t.name \in DOMAIN BareGlobals => BareGlobals[t.name] \in CapOf(t)
  BY DEF CapOf
<1>6. t.name \in DOMAIN ValuedGlobals => t.name \notin DOMAIN BareGlobals
  BY <1>1, <1>2
<1>7. t.name \in DOMAIN ValuedGlobals => ValuedGlobals[t.name] \in CapOf(t)
  BY <1>6 DEF CapOf
<1>8. \A flag \in DOMAIN ValuedGlobals : ValuedGlobals[flag] \in Globals
  BY <1>2, <1>3
<1>9. "none" \notin DOMAIN ValuedGlobals
  BY <1>2
<1> QED
  BY <1>4, <1>5, <1>7, <1>8, <1>9

LEMMA RefusalStealsNothing == ASSUME answer' = Refused PROVE NothingIsStolen'
<1>1. answer'.kind = "refused"
  BY DEF Refused
<1> QED
  BY <1>1 DEF NothingIsStolen

(* A line that waits for a value keeps its shape. *)
LEMMA ValueAwaited ==
    ASSUME Shape, ~over, NEW t \in Tokens, typed' = Append(typed, t), t.name \in DOMAIN ValuedGlobals,
           want' = t.name, UNCHANGED <<inv, over>>
    PROVE  Shape' /\ want' # "none"
<1>1. /\ typed \in Seq(Tokens) /\ inv \in Invocations
      /\ Cardinality(ArgMarks(inv.tail, Len(inv.tail))) = Len(inv.args)
      /\ ~Named => inv.args = <<>>
      /\ inv.operands = <<>> /\ inv.given \subseteq Claimed(typed, Len(typed))
  BY DEF Shape
<1>2. /\ typed' \in Seq(Tokens)
      /\ Claimed(typed, Len(typed)) \subseteq Claimed(typed', Len(typed'))
      /\ CapOf(t) \subseteq Claimed(typed', Len(typed'))
  BY <1>1, LineGrows
<1>3. want' \in DOMAIN ValuedGlobals /\ want' # "none" /\ ValuedGlobals[want'] \in Claimed(typed', Len(typed'))
  BY <1>2, GlobalsAreNamed
<1> QED
  BY <1>1, <1>2, <1>3 DEF Shape, Named

LEMMA LineKeeps == ASSUME LineInv, Typing PROVE LineInv'
<1>1. PICK t \in Tokens : \/ TakeOperand(t) \/ TakeValue(t) \/ Terminate(t) \/ TakeWord(t)
                          \/ TakeBareGlobal(t) \/ TakeValuedGlobal(t) \/ TakeFlag(t)
  BY DEF Typing
<1>2. Answering /\ typed' = Append(typed, t)
  BY <1>1 DEF TakeOperand, TakeValue, Terminate, TakeWord, TakeBareGlobal, TakeValuedGlobal, TakeFlag, Fresh, Type
<1>3. Shape /\ (want = "none" => KeptInOrder)
  BY <1>2, Zenon DEF LineInv
<1>4. typed \in Seq(Tokens) /\ (over => want = "none")
  BY <1>3 DEF Shape
<1>5. Claimed(typed, Len(typed)) \subseteq Claimed(typed', Len(typed')) /\ CapOf(t) \subseteq Claimed(typed', Len(typed'))
  BY <1>2, <1>4, LineGrows
<1>6. ASSUME answer' = Refused PROVE LineInv'
  <2>1. ~Answering'
    BY <1>6 DEF Answering, Refused
  <2> QED
    BY <1>6, <2>1, RefusalStealsNothing, Zenon DEF LineInv
<1>7. ASSUME answer' = answer, Shape', want' = "none" => KeptInOrder' PROVE LineInv'
  <2>1. Answering'
    BY <1>2, <1>7 DEF Answering
  <2> QED
    BY <1>7, <2>1, Zenon DEF LineInv
<1>8. CASE TakeOperand(t)
  <2>1. over /\ inv' = [inv EXCEPT !.operands = Append(@, t)] /\ want' = want /\ over' = over /\ answer' = answer
    BY <1>8 DEF TakeOperand
  <2> QED
    BY <1>2, <1>3, <1>4, <1>7, <2>1, OperandRead
<1>9. CASE TakeValue(t)
  <2>1. want # "none" /\ want' = "none" /\ over' = over /\ ~over
    BY <1>4, <1>9 DEF TakeValue
  <2>2. CASE answer' = Refused
    BY <1>6, <2>2
  <2>3. CASE answer' = answer /\ inv' = WithGlobal(ValuedGlobals[want])
    <3>1. ValuedGlobals[want] \in Globals /\ ValuedGlobals[want] \in Claimed(typed, Len(typed))
      BY <1>3, <2>1, GlobalsAreNamed DEF Shape
    <3> QED
      BY <1>2, <1>3, <1>5, <1>7, <2>1, <2>3, <3>1, GlobalRead
  <2> QED
    BY <1>9, <2>2, <2>3 DEF TakeValue
<1>10. CASE Terminate(t)
  <2>1. /\ ~over /\ want = "none" /\ t.kind = "dashes"
        /\ over' = TRUE /\ inv' = inv /\ want' = want /\ answer' = answer
    BY <1>10 DEF Terminate, Fresh
  <2> QED
    BY <1>2, <1>3, <1>7, <2>1, DashesRead
<1>11. CASE TakeWord(t)
  <2>1. ~over /\ want = "none" /\ want' = want /\ over' = over /\ answer' = answer
    BY <1>11 DEF TakeWord, Fresh
  <2>2. CASE Named
    <3>1. inv' = WithArgument(t)
      BY <1>11, <2>2 DEF TakeWord
    <3> QED
      BY <1>2, <1>3, <1>7, <2>1, <2>2, <3>1, ArgumentRead
  <2>3. CASE ~Named
    <3>1. inv' = [inv EXCEPT !.command = t.name]
      BY <1>11, <2>3 DEF TakeWord
    <3> QED
      BY <1>2, <1>3, <1>7, <2>1, <2>3, <3>1, CommandRead
  <2> QED
    BY <2>2, <2>3
<1>12. CASE TakeBareGlobal(t)
  <2>1. ~over /\ want = "none" /\ want' = want /\ over' = over /\ t.name \in DOMAIN BareGlobals
    BY <1>12 DEF TakeBareGlobal, Fresh
  <2>2. CASE answer' = Refused
    BY <1>6, <2>2
  <2>3. CASE answer' = answer /\ inv' = WithGlobal(BareGlobals[t.name])
    <3>1. BareGlobals[t.name] \in Globals /\ BareGlobals[t.name] \in CapOf(t)
      BY <2>1, GlobalsAreNamed
    <3> QED
      BY <1>2, <1>3, <1>5, <1>7, <2>1, <2>3, <3>1, GlobalRead
  <2> QED
    BY <1>12, <2>2, <2>3 DEF TakeBareGlobal
<1>13. CASE TakeValuedGlobal(t)
  <2>1. ~over /\ want = "none" /\ over' = over /\ t.name \in DOMAIN ValuedGlobals
    BY <1>13 DEF TakeValuedGlobal, Fresh
  <2>2. CASE answer' = Refused
    BY <1>6, <2>2
  <2>3. CASE want' = t.name /\ inv' = inv /\ answer' = answer
    BY <1>2, <1>3, <1>7, <2>1, <2>3, ValueAwaited
  <2>4. CASE want' = want /\ answer' = answer /\ inv' = WithGlobal(ValuedGlobals[t.name])
    <3>1. ValuedGlobals[t.name] \in Globals /\ ValuedGlobals[t.name] \in CapOf(t)
      BY <2>1, GlobalsAreNamed
    <3> QED
      BY <1>2, <1>3, <1>5, <1>7, <2>1, <2>4, <3>1, GlobalRead
  <2> QED
    BY <1>13, <2>2, <2>3, <2>4 DEF TakeValuedGlobal
<1>14. CASE TakeFlag(t)
  <2>1. ~over /\ want = "none" /\ want' = want /\ over' = over
    BY <1>14 DEF TakeFlag, Fresh
  <2>2. CASE Named
    <3>1. inv' = WithArgument(t) /\ answer' = answer
      BY <1>14, <2>2 DEF TakeFlag
    <3> QED
      BY <1>2, <1>3, <1>7, <2>1, <2>2, <3>1, ArgumentRead
  <2>3. CASE ~Named
    <3>1. answer' = Refused
      BY <1>14, <2>3 DEF TakeFlag
    <3> QED
      BY <1>6, <3>1
  <2> QED
    BY <2>2, <2>3
<1> QED
  BY <1>1, <1>8, <1>9, <1>10, <1>11, <1>12, <1>13, <1>14

-----------------------------------------------------------------------------
(* The line ends.  What an answer must be, and the answers that are.        *)
RightAnswer(a) ==
    /\ a.kind = "child" =>
        \E n \in 1 .. Len(typed) :
            /\ \/ a.argv = SubSeq(typed, n, Len(typed))
               \/ LastDashes /\ a.argv = SubSeq(typed, n, Len(typed) - 1)
            /\ a.given \subseteq Claimed(typed, n - 1)
    /\ a.kind \in {"child", "command"} =>
        /\ a.given \subseteq Innermost(a.handler)
        /\ inv.operands # <<>> =>
              IF a.kind = "child" THEN a.argv = inv.operands
                                  ELSE a.handler \in ReadsOperands

(* A stretch is where the line has it. *)
LEMMA StretchIs ==
    ASSUME NEW line \in Seq(Tokens), NEW given, NEW s \in Seq(Tokens), NEW c \in 1 .. Len(s),
           NEW m \in 0 .. Len(line), Stretch(line, given, s, c, m)
    PROVE  LET n == m - c + 1 IN
           /\ n \in 1 .. Len(line) /\ SubSeq(s, Len(s) - c + 1, Len(s)) = SubSeq(line, n, m)
           /\ given \subseteq Claimed(line, n - 1)
<1> DEFINE n == m - c + 1
           b == Len(s) - c + 1
<1>1. /\ Len(s) \in Nat /\ Len(line) \in Nat
      /\ c <= m /\ \A i \in 0 .. c - 1 : s[Len(s) - i] = line[m - i]
      /\ given \subseteq Claimed(line, m - c)
  BY DEF Stretch
<1>2. /\ n \in 1 .. Len(line) /\ n - 1 = m - c /\ b \in Int /\ n \in Int /\ m \in Int /\ Len(s) \in Int
      /\ b <= Len(s) /\ n <= m /\ Len(s) - b + 1 = c /\ m - n + 1 = c
  BY <1>1
<1>3. (\A i \in b .. Len(s) : s[i] \in Tokens) /\ (\A i \in n .. m : line[i] \in Tokens)
  <2>1. (\A i \in b .. Len(s) : i \in 1 .. Len(s)) /\ (\A i \in n .. m : i \in 1 .. Len(line))
    BY <1>1
  <2> HIDE DEF b, n
  <2>2. \A i \in b .. Len(s) : s[i] \in Tokens
    BY <2>1
  <2>3. \A i \in n .. m : line[i] \in Tokens
    BY <2>1
  <2> QED
    BY <2>2, <2>3
<1> DEFINE u == SubSeq(s, b, Len(s))
           v == SubSeq(line, n, m)
<1> HIDE DEF n, b
<1>4. /\ u \in Seq(Tokens) /\ Len(u) = c /\ \A i \in 1 .. c : u[i] = s[b + i - 1]
      /\ v \in Seq(Tokens) /\ Len(v) = c /\ \A i \in 1 .. c : v[i] = line[n + i - 1]
  BY <1>2, <1>3, SubSeqProperties
<1>5. ASSUME NEW i \in 1 .. c PROVE u[i] = v[i]
  <2>1. c - i \in 0 .. c - 1 /\ b + i - 1 = Len(s) - (c - i) /\ n + i - 1 = m - (c - i)
    BY <1>1 DEF b, n
  <2> HIDE DEF u, v
  <2> QED
    BY <1>1, <1>4, <2>1
<1>6. u = v
  <2> HIDE DEF u, v
  <2> QED
    BY <1>4, <1>5, SeqEqual
<1> QED
  BY <1>1, <1>2, <1>6 DEF n, b

(* What is wrapped, wherever in the line it stands. *)
LEMMA WrappedStands ==
    ASSUME Shape, KeptInOrder, NEW argv, argv # <<>>,
           inv.operands # <<>> => argv = inv.operands,
           inv.operands = <<>> =>
               \E k \in 0 .. Len(inv.args) :
                   argv = SubSeq(inv.args, k + 1, Len(inv.args)) /\ ~AmbiguousTailGlobal(inv.tail, k)
    PROVE  \E n \in 1 .. Len(typed) :
               /\ \/ argv = SubSeq(typed, n, Len(typed))
                  \/ LastDashes /\ argv = SubSeq(typed, n, Len(typed) - 1)
               /\ inv.given \subseteq Claimed(typed, n - 1)
<1>1. typed \in Seq(Tokens) /\ inv \in Invocations /\ (inv.operands # <<>> => over)
  BY DEF Shape
<1>2. inv.operands \in Seq(Tokens) /\ inv.args \in Seq(Tokens)
  BY <1>1 DEF Invocations
<1>3. Len(typed) \in Nat /\ Len(typed) \in 0 .. Len(typed) /\ Len(inv.args) \in Nat /\ Len(inv.operands) \in Nat
  BY <1>1, <1>2
<1>4. CASE inv.operands # <<>>
  <2>1. Stretch(typed, inv.given, inv.operands, Len(inv.operands), Len(typed))
    BY <1>1, <1>4, Zenon DEF KeptInOrder
  <2>2. Len(inv.operands) \in 1 .. Len(inv.operands)
    BY <1>2, <1>3, <1>4
  <2>3. SubSeq(inv.operands, Len(inv.operands) - Len(inv.operands) + 1, Len(inv.operands)) = inv.operands
    <3>1. Len(inv.operands) - Len(inv.operands) + 1 = 1
      BY <1>3
    <3> QED
      BY <1>2, <3>1, SubSeqFull
  <2> DEFINE n == Len(typed) - Len(inv.operands) + 1
  <2>4. /\ n \in 1 .. Len(typed)
        /\ SubSeq(inv.operands, Len(inv.operands) - Len(inv.operands) + 1, Len(inv.operands)) = SubSeq(typed, n, Len(typed))
        /\ inv.given \subseteq Claimed(typed, n - 1)
    BY <1>1, <1>2, <1>3, <2>1, <2>2, StretchIs
  <2> HIDE DEF n
  <2> QED
    BY <1>4, <2>3, <2>4
<1>5. CASE inv.operands = <<>>
  <2>1. PICK k \in 0 .. Len(inv.args) :
            argv = SubSeq(inv.args, k + 1, Len(inv.args)) /\ ~AmbiguousTailGlobal(inv.tail, k)
    BY <1>5
  <2> DEFINE c == Len(inv.args) - k
  <2>2. c \in 1 .. Len(inv.args) /\ Len(inv.args) - c = k /\ Len(inv.args) - c + 1 = k + 1
    <3>1. k # Len(inv.args)
      <4> SUFFICES ASSUME k = Len(inv.args) PROVE FALSE
        OBVIOUS
      <4>1. k + 1 \in Int /\ Len(inv.args) \in Int /\ Len(inv.args) < k + 1
        BY <1>3
      <4>2. argv = <<>>
        BY <2>1, <4>1, SubSeqEmpty
      <4> QED
        BY <4>2
    <3> QED
      BY <1>3, <3>1
  <2> HIDE DEF c
  <2>3. ASSUME NEW m \in 0 .. Len(typed), AsTyped(typed, inv, m)
        PROVE  \E n \in 1 .. Len(typed) : argv = SubSeq(typed, n, m) /\ inv.given \subseteq Claimed(typed, n - 1)
    <3>1. Stretch(typed, inv.given, inv.args, c, m)
      BY <2>1, <2>2, <2>3 DEF AsTyped
    <3> DEFINE n == m - c + 1
    <3>2. /\ n \in 1 .. Len(typed)
          /\ SubSeq(inv.args, Len(inv.args) - c + 1, Len(inv.args)) = SubSeq(typed, n, m)
          /\ inv.given \subseteq Claimed(typed, n - 1)
      BY <1>1, <1>2, <2>2, <3>1, StretchIs
    <3> HIDE DEF n
    <3> QED
      BY <2>1, <2>2, <3>2
  <2>4. CASE ~over
    <3>1. AsTyped(typed, inv, Len(typed))
      BY <2>4, Zenon DEF KeptInOrder
    <3> QED
      BY <1>3, <2>3, <3>1
  <2>5. CASE over
    <3>1. LastDashes /\ AsTyped(typed, inv, Len(typed) - 1)
      BY <1>5, <2>5, Zenon DEF KeptInOrder
    <3>2. Len(typed) - 1 \in 0 .. Len(typed)
      <4>1. typed # <<>>
        BY <3>1 DEF LastDashes
      <4> QED
        BY <1>1, <1>3, <4>1
    <3> QED
      BY <2>3, <3>1, <3>2
  <2> QED
    BY <2>4, <2>5
<1> QED
  BY <1>4, <1>5

LEMMA ChildIsRight ==
    ASSUME Shape, KeptInOrder, NEW handler, NEW argv, NEW flags, argv # <<>>,
           inv.given \subseteq Innermost(handler),
           inv.operands # <<>> => argv = inv.operands,
           inv.operands = <<>> =>
               \E k \in 0 .. Len(inv.args) :
                   argv = SubSeq(inv.args, k + 1, Len(inv.args)) /\ ~AmbiguousTailGlobal(inv.tail, k)
    PROVE  RightAnswer(Child(handler, argv, flags))
<1> DEFINE a == Child(handler, argv, flags)
<1>1. a.kind = "child" /\ a.handler = handler /\ a.argv = argv /\ a.given = inv.given
  BY DEF Child
<1> HIDE DEF a
<1>2. \E n \in 1 .. Len(typed) :
          /\ \/ argv = SubSeq(typed, n, Len(typed))
             \/ LastDashes /\ argv = SubSeq(typed, n, Len(typed) - 1)
          /\ inv.given \subseteq Claimed(typed, n - 1)
  BY WrappedStands
<1>3. RightAnswer(a)
  BY <1>1, <1>2, Zenon DEF RightAnswer
<1> QED
  BY <1>3 DEF a

LEMMA HandlerIsRight ==
    ASSUME NEW name, inv.given \subseteq Innermost(name), inv.operands # <<>> => name \in ReadsOperands
    PROVE  RightAnswer(Handler(name))
<1> DEFINE a == Handler(name)
<1>1. a.kind = "command" /\ a.handler = name /\ a.given = inv.given
  BY DEF Handler
<1> HIDE DEF a
<1>2. RightAnswer(a)
  <2>1. a.kind # "child"
    BY <1>1
  <2> QED
    BY <1>1, <2>1, Zenon DEF RightAnswer
<1> QED
  BY <1>2 DEF a

LEMMA RefusedIsRight == RightAnswer(Refused)
<1>1. Refused.kind = "refused"
  BY DEF Refused
<1> HIDE DEF Refused
<1> QED
  BY <1>1 DEF RightAnswer

LEMMA PageIsRight == ASSUME NEW of PROVE RightAnswer(Page(of))
<1>1. Page(of).kind = "page"
  BY DEF Page
<1> QED
  BY <1>1 DEF RightAnswer

(* What a wrapper's line is read as. *)
LEMMA WrappedIs ==
    ASSUME Shape, NEW parsed, NEW args, NEW before, parsed.stop \in 0 .. Len(args), Len(args) \in Nat,
           Wrapped(parsed, args, before).ok, Wrapped(parsed, args, before).argv # <<>>
    PROVE  /\ inv.operands # <<>> => Wrapped(parsed, args, before).argv = inv.operands
           /\ inv.operands = <<>> =>
                 /\ Wrapped(parsed, args, before).argv = SubSeq(args, parsed.stop + 1, Len(args))
                 /\ ~AmbiguousTailGlobal(inv.tail, before + parsed.stop)
<1> DEFINE w == Wrapped(parsed, args, before)
           line == SubSeq(args, parsed.stop + 1, Len(args))
           clear == parsed.stop < Len(args) => ~AmbiguousTailGlobal(inv.tail, before + parsed.stop)
<1>1. CASE inv.operands # <<>>
  <2>1. w.argv = inv.operands
    BY <1>1, Zenon DEF Wrapped
  <2> QED
    BY <1>1, <2>1
<1>2. CASE inv.operands = <<>>
  <2>1. w = [ok |-> clear, argv |-> line]
    <3>1. ~(inv.operands # <<>>)
      BY <1>2
    <3> QED
      BY <3>1, Zenon DEF Wrapped
  <2>2. w.argv = line
    <3> HIDE DEF clear, line, w
    <3> QED
      BY <2>1, Zenon
  <2>3. w.ok => clear
    <3> HIDE DEF clear, line, w
    <3> QED
      BY <2>1, Zenon
  <2>4. parsed.stop < Len(args)
    <3> SUFFICES ASSUME ~(parsed.stop < Len(args)) PROVE FALSE
      OBVIOUS
    <3>1. parsed.stop + 1 \in Int /\ Len(args) \in Int /\ Len(args) < parsed.stop + 1
      OBVIOUS
    <3>2. line = <<>>
      BY <3>1, SubSeqEmpty
    <3> QED
      BY <2>2, <3>2
  <2> QED
    BY <1>2, <2>2, <2>3, <2>4
<1> QED
  BY <1>1, <1>2

LEMMA RunIsRight ==
    ASSUME Shape, KeptInOrder, inv.given \subseteq CommandCaps("run")
    PROVE  RightAnswer(RunChild)
<1> DEFINE parsed == LeadingFlags(inv.args, ForRun)
           child == Wrapped(parsed, inv.args, 0)
<1>1. inv.args \in Seq(Tokens) /\ Len(inv.args) \in Nat
  <2>1. inv \in Invocations
    BY DEF Shape
  <2>2. inv.args \in Seq(Tokens)
    BY <2>1 DEF Invocations
  <2> QED
    BY <2>2
<1>2. parsed.stop \in 0 .. Len(inv.args) /\ 0 + parsed.stop = parsed.stop
  BY <1>1, LeadingStops
<1>3. CASE ~parsed.ok \/ ~child.ok \/ child.argv = <<>> \/ ConflictingRun(parsed.flags)
  <2>1. RunChild = Refused
    BY <1>3, Zenon DEF RunChild
  <2> QED
    BY <2>1, RefusedIsRight
<1>4. CASE ~(~parsed.ok \/ ~child.ok \/ child.argv = <<>> \/ ConflictingRun(parsed.flags))
  <2>1. RunChild = Child(<<"run">>, child.argv, parsed.flags)
    BY <1>4, Zenon DEF RunChild
  <2>2. child.ok /\ child.argv # <<>>
    BY <1>4, Zenon
  <2> HIDE DEF parsed
  <2>3. /\ inv.operands # <<>> => child.argv = inv.operands
        /\ inv.operands = <<>> =>
              /\ child.argv = SubSeq(inv.args, parsed.stop + 1, Len(inv.args))
              /\ ~AmbiguousTailGlobal(inv.tail, 0 + parsed.stop)
    BY <1>1, <1>2, <2>2, WrappedIs
  <2>4. Innermost(<<"run">>) = CommandCaps("run")
    BY DEF Innermost
  <2> HIDE DEF child
  <2>5. inv.operands = <<>> =>
            \E k \in 0 .. Len(inv.args) :
                child.argv = SubSeq(inv.args, k + 1, Len(inv.args)) /\ ~AmbiguousTailGlobal(inv.tail, k)
    BY <1>2, <2>3
  <2>6. RightAnswer(Child(<<"run">>, child.argv, parsed.flags))
    BY <2>2, <2>3, <2>4, <2>5, ChildIsRight
  <2> QED
    BY <2>1, <2>6
<1> QED
  BY <1>3, <1>4

(* What is behind a place of the tail is behind the next of the whole. *)
LEMMA TailStretch ==
    ASSUME NEW s \in Seq(Tokens), s # <<>>, NEW n \in 0 .. Len(Tail(s))
    PROVE  SubSeq(Tail(s), n + 1, Len(Tail(s))) = SubSeq(s, n + 2, Len(s))
<1> DEFINE r == Tail(s)
           u == SubSeq(r, n + 1, Len(r))
           v == SubSeq(s, n + 2, Len(s))
<1>1. /\ r \in Seq(Tokens) /\ Len(r) = Len(s) - 1 /\ Len(r) \in Nat /\ Len(s) \in Nat
      /\ \A i \in 1 .. Len(r) : r[i] = s[i + 1]
  BY HeadTailProperties
<1> HIDE DEF r
<1>2. CASE n = Len(r)
  <2>1. n + 1 \in Int /\ n + 2 \in Int /\ Len(r) \in Int /\ Len(s) \in Int /\ Len(r) < n + 1 /\ Len(s) < n + 2
    BY <1>1, <1>2
  <2>2. u = <<>> /\ v = <<>>
    BY <2>1, SubSeqEmpty
  <2> QED
    BY <2>2 DEF r
<1>3. CASE n # Len(r)
  <2>1. /\ n + 1 \in Int /\ n + 2 \in Int /\ Len(r) \in Int /\ Len(s) \in Int
        /\ \A i \in n + 1 .. Len(r) : i \in 1 .. Len(r)
        /\ \A i \in n + 2 .. Len(s) : i \in 1 .. Len(s)
        /\ n + 1 <= Len(r) /\ n + 2 <= Len(s)
    BY <1>1, <1>3
  <2>2. /\ Len(r) - (n + 1) + 1 = Len(r) - n /\ Len(s) - (n + 2) + 1 = Len(r) - n
    BY <1>1
  <2>3. (\A i \in n + 1 .. Len(r) : r[i] \in Tokens) /\ (\A i \in n + 2 .. Len(s) : s[i] \in Tokens)
    BY <1>1, <2>1
  <2>4. u \in Seq(Tokens) /\ Len(u) = Len(r) - n /\ \A i \in 1 .. Len(r) - n : u[i] = r[(n + 1) + i - 1]
    BY <2>1, <2>2, <2>3, SubSeqProperties
  <2>5. v \in Seq(Tokens) /\ Len(v) = Len(r) - n /\ \A i \in 1 .. Len(r) - n : v[i] = s[(n + 2) + i - 1]
    BY <2>1, <2>2, <2>3, SubSeqProperties
  <2> HIDE DEF u, v
  <2>6. ASSUME NEW i \in 1 .. Len(r) - n PROVE u[i] = v[i]
    <3>1. (n + 1) + i - 1 \in 1 .. Len(r) /\ ((n + 1) + i - 1) + 1 = (n + 2) + i - 1
      BY <1>1
    <3> QED
      BY <1>1, <2>4, <2>5, <3>1
  <2>7. u = v
    BY <2>4, <2>5, <2>6, SeqEqual
  <2> QED
    BY <2>7 DEF u, v, r
<1> QED
  BY <1>2, <1>3

LEMMA ExplainIsRight ==
    ASSUME Shape, KeptInOrder, inv.args # <<>>, inv.given \subseteq Innermost(<<"run", "explain">>)
    PROVE  RightAnswer(RunExplain)
<1> DEFINE args == Tail(inv.args)
           parsed == LeadingFlags(args, ForExplain)
           child == Wrapped(parsed, args, 1)
<1>1. /\ inv.args \in Seq(Tokens) /\ Len(inv.args) \in Nat
      /\ args \in Seq(Tokens) /\ Len(args) = Len(inv.args) - 1 /\ Len(args) \in Nat
      /\ \A i \in 1 .. Len(args) : args[i] = inv.args[i + 1]
  <2>1. inv \in Invocations
    BY DEF Shape
  <2>2. inv.args \in Seq(Tokens)
    BY <2>1 DEF Invocations
  <2> QED
    BY <2>2, HeadTailProperties
<1> HIDE DEF args
<1>2. parsed.stop \in 0 .. Len(args)
  BY <1>1, LeadingStops
<1>3. CASE ~parsed.ok \/ ~child.ok \/ ConflictingExplain(parsed.flags, child.argv # <<>>)
  <2>1. RunExplain = Refused
    BY <1>3, Zenon DEF RunExplain, args
  <2> QED
    BY <2>1, RefusedIsRight
<1>4. CASE ~(~parsed.ok \/ ~child.ok \/ ConflictingExplain(parsed.flags, child.argv # <<>>))
  <2>1. RunExplain = IF child.argv = <<>> THEN Handler(<<"run", "explain">>)
                     ELSE Child(<<"run", "explain">>, child.argv, parsed.flags)
    BY <1>4, Zenon DEF RunExplain, args
  <2>2. child.ok
    BY <1>4, Zenon
  <2> HIDE DEF parsed
  <2>3. CASE child.argv = <<>>
    <3>1. inv.operands = <<>>
      <4> SUFFICES ASSUME inv.operands # <<>> PROVE FALSE
        OBVIOUS
      <4>1. child.argv = inv.operands
        BY Zenon DEF Wrapped
      <4> QED
        BY <2>3, <4>1
    <3>2. RightAnswer(Handler(<<"run", "explain">>))
      BY <3>1, HandlerIsRight, Zenon
    <3>3. RunExplain = Handler(<<"run", "explain">>)
      BY <2>1, <2>3, Zenon
    <3> QED
      BY <3>2, <3>3
  <2>4. CASE child.argv # <<>>
    <3>1. /\ inv.operands # <<>> => child.argv = inv.operands
          /\ inv.operands = <<>> =>
                /\ child.argv = SubSeq(args, parsed.stop + 1, Len(args))
                /\ ~AmbiguousTailGlobal(inv.tail, 1 + parsed.stop)
      BY <1>1, <1>2, <2>2, <2>4, WrappedIs
    <3> DEFINE k == 1 + parsed.stop
    <3>2. k \in 0 .. Len(inv.args) /\ SubSeq(args, parsed.stop + 1, Len(args)) = SubSeq(inv.args, k + 1, Len(inv.args))
      <4>1. k \in 0 .. Len(inv.args) /\ k + 1 = parsed.stop + 2
        BY <1>1, <1>2
      <4>2. SubSeq(args, parsed.stop + 1, Len(args)) = SubSeq(inv.args, parsed.stop + 2, Len(inv.args))
        BY <1>1, <1>2, TailStretch DEF args
      <4> QED
        BY <4>1, <4>2
    <3> HIDE DEF child, k
    <3>3. inv.operands = <<>> =>
              \E j \in 0 .. Len(inv.args) :
                  child.argv = SubSeq(inv.args, j + 1, Len(inv.args)) /\ ~AmbiguousTailGlobal(inv.tail, j)
      BY <3>1, <3>2 DEF k
    <3>4. RightAnswer(Child(<<"run", "explain">>, child.argv, parsed.flags))
      BY <2>4, <3>1, <3>3, ChildIsRight
    <3> QED
      BY <2>1, <2>4, <3>4, Zenon
  <2> QED
    BY <2>3, <2>4
<1> QED
  BY <1>3, <1>4
(* The subcommands there are, and the one that reads operands. *)
LEMMA SubReads ==
    ASSUME NEW caps, NEW operands \in BOOLEAN, NEW r, r = Sub(caps, operands)
    PROVE  r.operands => operands = TRUE
  BY SMT DEF Sub

LEMMA SubcommandsAre ==
    ASSUME NEW command, NEW sub \in DOMAIN SubcommandsOf(command), NEW r, r = SubcommandsOf(command)[sub]
    PROVE  /\ r.operands => command = "run" /\ sub = "explain"
           /\ sub = "explain" => command = "run"
<1>1. CASE command = "run"
  <2>1. SubcommandsOf(command) = RunSubcommands
    BY <1>1, Zenon DEF SubcommandsOf
  <2>2. sub \in {"ls", "log", "show", "rm", "audit", "explain"}
    BY <2>1 DEF RunSubcommands
  <2>3. CASE sub # "explain"
    <3>1. (sub = "explain") = FALSE
      BY <2>3
    <3>2. r = Sub(IF sub \in {"ls", "explain"} THEN Capabilities ELSE Stored, sub = "explain")
      BY <2>1, <2>2, Zenon DEF RunSubcommands
    <3>3. ~r.operands
      BY <3>1, <3>2, SubReads, Zenon
    <3> QED
      BY <1>1, <3>3
  <2> QED
    BY <1>1, <2>3
<1>3. CASE command = "config"
  <2>1. SubcommandsOf(command) = ConfigSubcommands
    BY <1>3, Zenon DEF SubcommandsOf
  <2>2. sub \in {"path", "show", "effective", "validate", "template", "init", "probes"}
    BY <2>1 DEF ConfigSubcommands
  <2>3. r = Sub((CASE sub = "effective" -> Capabilities
                       [] sub = "template" -> {}
                       [] sub = "init" -> {"root", "json"}
                       [] OTHER -> Stored), FALSE)
    BY <2>1, <2>2, Zenon DEF ConfigSubcommands
  <2>4. ~r.operands
    BY <2>3, SubReads, Zenon
  <2> QED
    BY <2>2, <2>4
<1>4. CASE command = "state"
  <2>1. SubcommandsOf(command) = StateSubcommands
    BY <1>4, Zenon DEF SubcommandsOf
  <2>2. sub \in {"resolve", "compare"}
    BY <2>1 DEF StateSubcommands
  <2>3. r = Sub(Capabilities, FALSE)
    BY <2>1, <2>2, Zenon DEF StateSubcommands
  <2>4. ~r.operands
    BY <2>3, SubReads, Zenon
  <2> QED
    BY <2>2, <2>4
<1>5. CASE command = "docs"
  <2>1. SubcommandsOf(command) = DocsSubcommands
    BY <1>5, Zenon DEF SubcommandsOf
  <2>2. sub \in {"export"}
    BY <2>1 DEF DocsSubcommands
  <2>3. r = Sub({}, FALSE)
    BY <2>1, <2>2, Zenon DEF DocsSubcommands
  <2>4. ~r.operands
    BY <2>3, SubReads, Zenon
  <2> QED
    BY <2>2, <2>4
<1>6. CASE command \notin {"run", "config", "state", "docs"}
  <2>1. SubcommandsOf(command) = [s \in {} |-> Sub({}, FALSE)]
    BY <1>6 DEF SubcommandsOf
  <2>2. DOMAIN SubcommandsOf(command) = {}
    BY <2>1, Zenon
  <2> QED
    BY <2>2
<1> QED
  BY <1>1, <1>3, <1>4, <1>5, <1>6

LEMMA SubcommandIsRight ==
    ASSUME Shape, KeptInOrder, NEW command, NamesSubcommand(command), "help" \notin inv.given
    PROVE  RightAnswer(DispatchSubcommand(command, Head(inv.args).name))
<1> DEFINE sub == Head(inv.args).name
           spec == SubcommandsOf(command)[sub]
<1>1. sub \in DOMAIN SubcommandsOf(command) /\ inv.args # <<>>
  BY DEF NamesSubcommand
<1>2. inv.given \subseteq Capabilities
  <2>1. inv \in Invocations
    BY DEF Shape
  <2> QED
    BY <2>1 DEF Invocations, Globals
<1>3. Innermost(<<command, sub>>) = spec.caps
  <2>1. Len(<<command, sub>>) = 2 /\ <<command, sub>>[1] = command /\ <<command, sub>>[2] = sub
    OBVIOUS
  <2> HIDE DEF sub
  <2> QED
    BY <2>1, Zenon DEF Innermost
<1>4. CASE ~Accepts(spec.caps) \/ (inv.operands # <<>> /\ ~spec.operands)
  <2>1. DispatchSubcommand(command, sub) = Refused
    BY <1>4, Zenon DEF DispatchSubcommand
  <2> QED
    BY <2>1, RefusedIsRight
<1>5. CASE Accepts(spec.caps) /\ ~(inv.operands # <<>> /\ ~spec.operands)
  <2>1. inv.given \subseteq spec.caps
    BY <1>2, <1>5 DEF Accepts
  <2>2. CASE sub = "explain"
    <3>1. DispatchSubcommand(command, sub) = RunExplain
      BY <1>5, <2>2, Zenon DEF DispatchSubcommand
    <3>2. command = "run"
      BY <1>1, <2>2, SubcommandsAre
    <3>3. Innermost(<<command, sub>>) = Innermost(<<"run", "explain">>)
      BY <2>2, <3>2
    <3>4. inv.given \subseteq Innermost(<<"run", "explain">>)
      BY <1>3, <2>1, <3>3
    <3> QED
      BY <1>1, <3>1, <3>4, ExplainIsRight
  <2>3. CASE sub # "explain"
    <3>1. DispatchSubcommand(command, sub) = Handler(<<command, sub>>)
      BY <1>5, <2>3, Zenon DEF DispatchSubcommand
    <3>2. inv.operands = <<>>
      <4> HIDE DEF spec
      <4>1. ~spec.operands
        BY <1>1, <2>3, SubcommandsAre DEF spec
      <4> QED
        BY <1>5, <4>1
    <3> HIDE DEF sub, spec
    <3>3. RightAnswer(Handler(<<command, sub>>))
      BY <1>3, <2>1, <3>2, HandlerIsRight
    <3> QED
      BY <3>1, <3>3 DEF sub
  <2> QED
    BY <2>2, <2>3
<1> QED
  BY <1>4, <1>5

LEMMA HelpIsRight == ASSUME NEW command PROVE RightAnswer(HelpOf(command))
<1>1. \/ HelpOf(command) = Refused \/ HelpOf(command) = RunWrapperHelp
      \/ \E of : HelpOf(command) = Page(of)
  BY Zenon DEF HelpOf
<1>2. RunWrapperHelp = Refused \/ \E of : RunWrapperHelp = Page(of)
  BY Zenon DEF RunWrapperHelp
<1> QED
  BY <1>1, <1>2, RefusedIsRight, PageIsRight

LEMMA DispatchIsRight ==
    ASSUME Shape, KeptInOrder, "help" \notin inv.given, NEW command, inv.given \subseteq CommandCaps(command),
           inv.operands # <<>> => command \in TakesOperands
    PROVE  RightAnswer(Dispatch(command))
<1>1. CASE NamesSubcommand(command)
  <2>1. Dispatch(command) = DispatchSubcommand(command, Head(inv.args).name)
    BY <1>1, Zenon DEF Dispatch
  <2> QED
    BY <1>1, <2>1, SubcommandIsRight
<1>2. CASE ~NamesSubcommand(command) /\ command = "run"
  <2>1. Dispatch(command) = RunChild
    BY <1>2, Zenon DEF Dispatch
  <2> QED
    BY <1>2, <2>1, RunIsRight
<1>3. CASE ~NamesSubcommand(command) /\ command # "run" /\ command \in OwnsHelp
  <2>1. Dispatch(command) = Refused
    BY <1>3, Zenon DEF Dispatch
  <2> QED
    BY <2>1, RefusedIsRight
<1>4. CASE ~NamesSubcommand(command) /\ command # "run" /\ command \notin OwnsHelp
  <2>1. Dispatch(command) = Handler(<<command>>)
    BY <1>4, Zenon DEF Dispatch
  <2>2. Innermost(<<command>>) = CommandCaps(command)
    BY DEF Innermost
  <2>3. inv.operands # <<>> => <<command>> \in ReadsOperands
    BY <1>4 DEF TakesOperands, ReadsOperands
  <2>4. RightAnswer(Handler(<<command>>))
    BY <2>2, <2>3, HandlerIsRight
  <2> QED
    BY <2>1, <2>4
<1> QED
  BY <1>1, <1>2, <1>3, <1>4

LEMMA RouteIsRight == ASSUME Shape, KeptInOrder PROVE RightAnswer(Route)
<1> DEFINE command == IF Named THEN inv.command ELSE "status"
           help == "help" \in inv.given
<1>1. CASE help \/ (~Named /\ inv.operands # <<>>) \/ command \notin Commands
  <2>1. \/ Route = Refused \/ Route = HelpOf(command) \/ \E of : Route = Page(of)
    BY <1>1, Zenon DEF Route
  <2> QED
    BY <2>1, RefusedIsRight, HelpIsRight, PageIsRight
<1>2. CASE ~(help \/ (~Named /\ inv.operands # <<>>) \/ command \notin Commands)
  <2>1. inv.given \subseteq Capabilities
    <3>1. inv \in Invocations
      BY DEF Shape
    <3> QED
      BY <1>2, <3>1 DEF Invocations, Globals
  <2>2. CASE (inv.operands # <<>> /\ command \notin TakesOperands) \/ ~Accepts(CommandCaps(command))
    <3>1. Route = Refused
      BY <1>2, <2>2, Zenon DEF Route
    <3> QED
      BY <3>1, RefusedIsRight
  <2>3. CASE ~((inv.operands # <<>> /\ command \notin TakesOperands) \/ ~Accepts(CommandCaps(command)))
    <3>1. Route = Dispatch(command)
      BY <1>2, <2>3, Zenon DEF Route
    <3>2. inv.given \subseteq CommandCaps(command)
      BY <2>1, <2>3 DEF Accepts
    <3> HIDE DEF command
    <3> QED
      BY <1>2, <2>3, <3>1, <3>2, DispatchIsRight
  <2> QED
    BY <2>2, <2>3
<1> QED
  BY <1>1, <1>2

LEMMA EndKeeps == ASSUME LineInv, End PROVE LineInv'
<1>1. /\ Answering /\ typed' = typed /\ inv' = inv /\ want' = want /\ over' = over
      /\ answer' = IF want # "none" THEN Refused ELSE Route
  BY DEF End
<1>2. Shape /\ (want = "none" => KeptInOrder)
  BY <1>1, Zenon DEF LineInv
<1>3. RightAnswer(answer')
  BY <1>1, <1>2, RefusedIsRight, RouteIsRight
<1>4. NothingIsStolen'
  BY <1>1, <1>3 DEF RightAnswer, NothingIsStolen, Claimed, LastDashes
<1>5. Shape' /\ (want' = "none" => KeptInOrder')
  BY <1>1, <1>2 DEF Shape, KeptInOrder, Named, LastDashes
<1> QED
  BY <1>4, <1>5, Zenon DEF LineInv

LEMMA SessionLeavesTheLine == ASSUME SessionNext PROVE UNCHANGED lineVars
  BY Zenon DEF SessionNext, Begin, Interrupt, Pass, Fail, Stop, AbandonWait, NoProject, GiveAnswer, LoseAnswer, Return,
     Exit, Reply, lineVars

LEMMA LineRests == ASSUME LineInv, UNCHANGED lineVars PROVE LineInv'
<1>1. typed' = typed /\ inv' = inv /\ want' = want /\ over' = over /\ answer' = answer
  BY DEF lineVars
<1>2. Answering' = Answering /\ NothingIsStolen' = NothingIsStolen
  BY <1>1 DEF Answering, NothingIsStolen, LastDashes
<1>3. Shape' = Shape /\ KeptInOrder' = KeptInOrder
  BY <1>1 DEF Shape, KeptInOrder, Named, LastDashes
<1> QED
  BY <1>1, <1>2, <1>3, Zenon DEF LineInv

(* However long the line: the child gets a stretch of what was typed, to    *)
(* the end, behind every option awa took for its own, and no command drops  *)
(* an option or an operand (run.go: ambiguousTailGlobal, runRun; router.go: *)
(* dispatchSubcommand, requireAccepted).                                    *)
THEOREM LinesAreHeard == LineInit /\ SessionSpec => []NothingIsStolen
<1>1. LineInit => LineInv
  <2> SUFFICES ASSUME LineInit PROVE LineInv
    OBVIOUS
  <2>1. typed = <<>> /\ want = "none" /\ ~over /\ answer = Unanswered /\ inv = NoInvocation
    BY DEF LineInit
  <2>2. /\ inv.given = {} /\ inv.command = "" /\ inv.args = <<>> /\ inv.operands = <<>> /\ inv.tail = <<>>
    BY <2>1 DEF NoInvocation
  <2>7. Len(inv.tail) = 0 /\ Len(inv.args) = 0
    BY <2>1 DEF NoInvocation
  <2>3. Shape
    <3>1. <<>> \in Seq(Tokens) /\ <<>> \in Seq(Marks)
      OBVIOUS
    <3>2. inv \in Invocations
      BY <2>1, <3>1 DEF NoInvocation, Invocations
    <3>3. Cardinality(ArgMarks(inv.tail, Len(inv.tail))) = Len(inv.args)
      <4>1. ArgMarks(inv.tail, Len(inv.tail)) = {}
        BY <2>7 DEF ArgMarks
      <4> QED
        BY <2>7, <4>1, FS_EmptySet
    <3>4. typed \in Seq(Tokens)
      BY <2>1
    <3> QED
      BY <2>1, <2>2, <3>2, <3>3, <3>4, Zenon DEF Shape
  <2>4. AsTyped(typed, inv, Len(typed))
    BY <2>7 DEF AsTyped
  <2>5. KeptInOrder
    BY <2>1, <2>4, Zenon DEF KeptInOrder
  <2>6. Answering
    BY <2>1 DEF Answering, Unanswered
  <2> QED
    BY <2>3, <2>5, <2>6, Zenon DEF LineInv
<1>2. ASSUME LineInv, [CommandNext]_vars PROVE LineInv'
  <2>1. CASE LineNext
    BY <1>2, <2>1, LineKeeps, EndKeeps DEF LineNext
  <2>2. CASE SessionNext \/ UNCHANGED vars
    BY <1>2, <2>2, SessionLeavesTheLine, LineRests DEF vars
  <2> QED
    BY <1>2, <2>1, <2>2 DEF CommandNext
<1>3. LineInv => NothingIsStolen
  BY Zenon DEF LineInv, NothingIsStolen, Answering
<1> QED
  BY <1>1, <1>2, <1>3, PTL DEF SessionSpec
=============================================================================
