---------------------------- MODULE MCDiagnosis ----------------------------
(* Two checkpoints that share a blob and one not begun; one thing wrong     *)
(* anywhere, or two that bear on one another.                               *)
EXTENDS Diagnosis, TLC

MCRefs == ("c1" :> <<"b1", "b2">>) @@ ("c2" :> <<"b1">>) @@ ("c3" :> <<>>)
MCRootFiles == <<"f1", "f2">>
MCCaptured == "u1" :> <<"b2">>
Usual(i) == IF i = <<"checkpoint", "c3">> THEN {"absent"} ELSE {}
Wrong(i) ==
    LET kind == i[1] IN
    CASE kind = "dir" -> {{"missing"}}
      [] kind \in {"checkpoints", "runs", "restores", "runs/tmp"} -> {{"unreadable"}}
      [] kind = "pointers" -> {{"dangling", "foreign"}}
      [] kind = "checkpoint" -> {{f} : f \in {"bad header", "other format", "no manifest", "torn", "bad frontier", "no header"}}
                                \cup {{"no header", "odd"}, {"no header", "opaque"}}
      [] kind = "blob" -> {{"missing"}, {"altered"}, {"opaque"}}
      [] kind = "run" -> {{"absent"}, {"other format"}, {"bad entry"}, {"stdout", "after"}}
      [] kind = "recovery" -> {{"other format"}, {"bad record"}, {"torn"}, {"bad scope"}}
      [] kind = "temp" -> {{"fresh"}, {"old"}}
      [] kind = "lock" -> {{"stale"}, {"unknown"}}
      [] kind = "index" -> {{"too new"}, {"unexpected"}, {"stale"}, {"corrupt"}, {"unsound"}, {"busy"}}
      [] kind = "guard" -> {{"missing"}, {"ineffective"}, {"opaque"}}
      [] kind = "file" -> {{"secret", "captured"}, {"secret", "opaque"}, {"secret"}}
      [] OTHER -> {{"git"}, {"markers", "permissions"}}
(* A third checkpoint is begun where a writer could matter to the fault. *)
With(i, f) == [j \in Items |-> IF j = i THEN f
                 ELSE IF i[1] \in {"checkpoint", "checkpoints", "runs/tmp", "temp", "lock"} THEN Usual(j) ELSE {}]
Singly == UNION {{With(i, f) : f \in Wrong(i)} : i \in Items}
(* A broken blob under a checkpoint that cannot be read, and so on. *)
Pairs == {<<<<"blob", "b1">>, <<"checkpoint", "c1">>>>, <<<<"blob", "b2">>, <<"recovery", "u1">>>>,
          <<One("checkpoints"), <<"checkpoint", "c2">>>>, <<<<"file", "f1">>, <<"file", "f2">>>>,
          <<<<"temp", "t1">>, One("runs/tmp")>>, <<<<"blob", "b1">>, <<"blob", "b2">>>>}
Doubly == UNION {{[With(p[1], f) EXCEPT ![p[2]] = g, ![<<"checkpoint", "c3">>] = {}] : f \in Wrong(p[1]), g \in Wrong(p[2])} : p \in Pairs}
MCFaults == {[i \in Items |-> Usual(i)]} \cup Singly \cup Doubly
DoctorDone == doc.phase \in {"reported", "interrupted", "timed out"}
(* What others do is put off to the next inspection that can tell: until    *)
(* then it makes no difference when it happened.                            *)
Sees(on, i) == on = i \/ (i[1] = "checkpoint" /\ (on[1] = "checkpoints" \/ on = <<"remnant", i[2]>>))
Timely == doc.phase = "checking" /\ doc.at <= Len(Inspection) =>
              \E i \in Items : store'[i] # store[i] /\ Sees(Inspection[doc.at], i)
(* BOUND: one checkpoint comes or goes meanwhile, by one writer. *)
OneCheckpoint == /\ Cardinality({i \in changed' : i[1] = "checkpoint"}) <= 1
                 /\ writer' # {} /\ writer = {} => changed = {}
DiagnosisNext == DoctorNext \/ (OthersNext /\ Timely /\ OneCheckpoint)
OneDiagnosis == /\ store = [i \in Items |-> Usual(i)]
                /\ doc = [at |-> 1, phase |-> "checking", strict |-> FALSE,
                          repairs |-> FALSE, listed |-> {}, closed |-> {},
                          verified |-> {}, findings |-> <<>>, last |-> 0,
                          withdrawn |-> {}]
=============================================================================
