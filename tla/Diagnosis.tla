----------------------------- MODULE Diagnosis -----------------------------
(***************************************************************************)
(* `awa doctor`: every part of the local evidence inspected, one item      *)
(* after another and without a lock, while other processes publish, die,   *)
(* collect and rescan; then, with --repair, the repairable findings acted  *)
(* on under exclusive access, and a report whose health is derived from    *)
(* what is left.                                                           *)
(*                                                                         *)
(* An item holds the set of things wrong with it.  A writer at work has a  *)
(* presence record, a temporary artifact and a checkpoint directory whose  *)
(* header is not there yet.                                                *)
(***************************************************************************)
EXTENDS Integers, Sequences, FiniteSets, SequencesExt

CONSTANTS
    Dirs, Checkpoints, Blobs, Runs, Records, Temps, Locks,  \* the items, by name
    Refs,        \* checkpoint |-> the blobs its manifest names, in order
    Captured,    \* recovery record |-> the blobs it captured
    RootFiles,   \* the project's top-level files, in listing order
    Exclusive,   \* the lock names that belong to gc and restore
    ReportsUnknown,  \* whether an exclusive lock nobody can read is in the way, as in the build without flock
    Faults,      \* the damaged stores a diagnosis may meet
    MaxChanged   \* BOUND: the items other processes touch during one diagnosis

VARIABLES
    store,       \* item |-> what is wrong with it
    writer,      \* the live writer's items, or {} when none is at work
    doc,         \* doctor's own state
    changed      \* the items other processes changed since doctor began

doctorVars == <<store, writer, doc, changed>>

Item(kind, names) == {<<kind, n>> : n \in names}
One(kind) == <<kind, "one">>
Items == Item("dir", Dirs) \cup Item("checkpoint", Checkpoints) \cup Item("blob", Blobs)
         \cup Item("run", Runs) \cup Item("recovery", Records) \cup Item("temp", Temps)
         \cup Item("lock", Locks) \cup Item("file", ToSet(RootFiles))
         \cup {One(k) : k \in {"checkpoints", "runs", "restores", "pointers", "index", "runs/tmp",
                               "guard", "advice"}}
(* What may be wrong with an item when doctor begins.  A checkpoint that is *)
(* not there has nothing else wrong, only one without a header holds what   *)
(* no publication leaves, and a lock whose holder lives is no writer's of   *)
(* the model.                                                               *)
CheckpointFaults == {"absent", "no header", "bad header", "other format", "no manifest", "torn", "bad frontier",
                     "odd", "opaque"}
FaultsFit(item, f) ==
    /\ IsFiniteSet(f)
    /\ "absent" \in f => item[1] \in {"checkpoint", "run"}
    /\ item[1] = "checkpoint" => /\ f \subseteq CheckpointFaults
                                 /\ "absent" \in f => f = {"absent"}
                                 /\ f \cap {"odd", "opaque"} # {} => "no header" \in f
    /\ item[1] = "recovery" => f \subseteq {"other format", "bad record", "torn", "bad scope"}
    /\ item[1] = "lock" => f \in {{}, {"stale"}, {"unknown"}}
ASSUME DiagnosisAssumption ==
    /\ \A names \in {Dirs, Checkpoints, Blobs, Runs, Records, Temps, Locks} : IsFiniteSet(names)
    /\ Refs \in [Checkpoints -> Seq(Blobs)] /\ Captured \in [Records -> Seq(Blobs)]
    /\ ReportsUnknown \in BOOLEAN
    /\ \A faults \in Faults :
         /\ faults \in [Items -> SUBSET STRING]
         /\ \A i \in Items : FaultsFit(i, faults[i])

Each(kind, names) == [i \in 1..Cardinality(names) |-> <<kind, SetToSeq(names)[i]>>]
Inspection ==
    Each("dir", Dirs)
    \o <<One("checkpoints")>> \o Each("checkpoint", Checkpoints) \o Each("remnant", Checkpoints)
    \o <<One("runs")>> \o Each("run", Runs) \o <<One("pointers"), One("restores")>> \o Each("recovery", Records)
    \o <<One("index"), One("runs/tmp")>> \o Each("temp", Temps) \o Each("lock", Locks)
    \o <<One("guard"), One("advice"), One("files")>>

(***************************************************************************)
(* Findings.                                                               *)
(***************************************************************************)
Finding(about, severity, repairable) ==
    [about |-> about, severity |-> severity, repairable |-> repairable, repaired |-> FALSE]
Error(about) == <<Finding(about, "error", FALSE)>>
Warning(about) == <<Finding(about, "warning", FALSE)>>
Repairable(about) == <<Finding(about, "warning", TRUE)>>
Passed == <<>>
Reference(holder, blob) == <<"reference", holder, blob>>
(* One finding for each of a list's places, in some order. *)
LostAt(item, refs, places) ==
    [k \in 1..Cardinality(places) |-> Finding(Reference(item, refs[SetToSeq(places)[k]]), "error", FALSE)]

NeedsAttention(findings) ==
    \E i \in DOMAIN findings : ~findings[i].repaired /\ (findings[i].severity = "error" \/ findings[i].repairable)
Health(findings) ==
    IF NeedsAttention(findings) THEN "failed"
    ELSE IF \E i \in DOMAIN findings : ~findings[i].repaired THEN "warning" ELSE "ok"

(***************************************************************************)
(* The checks.  Each yields findings from what the item is now.            *)
(***************************************************************************)
Headerless(c) == "no header" \in store[<<"checkpoint", c>>]
NotThere(item) == "absent" \in store[item]
(* A required directory, and the listing a walk begins with. *)
checkLayout(item) == IF store[item] = {} THEN Passed ELSE Error(item)

(* Presence is all the default asks of a blob; strict mode rehashes it. *)
Broken(b, strict) == store[<<"blob", b>>] \cap (IF strict THEN {"missing", "altered", "opaque"} ELSE {"missing", "opaque"}) # {}
Readable(c) == LET f == store[<<"checkpoint", c>>] IN
               IF "torn" \in f THEN SubSeq(Refs[c], 1, Len(Refs[c]) - 1) ELSE Refs[c]
(* Mutated: a hash once looked at is never looked at again, broken or not. *)
verifiedOnce(refs, strict, verified) == verified \cup ToSet(refs)
Verified(refs, strict, verified) == verified \cup {b \in ToSet(refs) : ~Broken(b, strict)}
verify(item, refs, strict, verified) ==
    LostAt(item, refs, {i \in DOMAIN refs : refs[i] \notin verified /\ Broken(refs[i], strict)})

Unopened == {"absent", "no header", "bad header", "other format", "no manifest"}
checkOneCheckpoint(c) ==
    LET item == <<"checkpoint", c>>  f == store[item] IN
    IF c \notin doc.listed THEN Passed
    ELSE IF f \cap Unopened # {} THEN Error(item)
    ELSE verify(item, Readable(c), doc.strict, doc.verified)
         \o (IF f \cap {"torn", "bad frontier"} # {} THEN Error(item) ELSE Passed)
remnantFinding(item) ==
    IF store[item] \cap {"odd", "opaque"} # {} THEN Warning(item) ELSE Repairable(item)
checkHeaderless(c) == IF Headerless(c) THEN remnantFinding(<<"checkpoint", c>>) ELSE Passed

(* One finding for each of a run's payloads that does not read back, and    *)
(* for each pointer that a lookup would stumble over.                       *)
verifyRunPayloads(item) == [i \in 1..Cardinality(store[item]) |-> Finding(item, "error", FALSE)]
checkRunPointers(item) == [i \in 1..Cardinality(store[item]) |-> Finding(item, "error", FALSE)]
checkRun(item) ==
    LET f == store[item] IN
    IF "absent" \in f THEN Passed
    ELSE IF "other format" \in f THEN Warning(item)
    ELSE IF "bad entry" \in f THEN Error(item)
    ELSE verifyRunPayloads(item)
(* What a recovery record's manifest still gives. *)
Drained(u) == LET f == store[<<"recovery", u>>] IN
              IF "torn" \in f THEN SubSeq(Captured[u], 1, Len(Captured[u]) - 1) ELSE Captured[u]
checkRestore(u) ==
    LET item == <<"recovery", u>>  f == store[item]
        lost == {i \in DOMAIN Drained(u) : Broken(Drained(u)[i], FALSE)} IN
    IF "other format" \in f THEN Warning(item)
    ELSE IF "bad record" \in f THEN Error(item)
    ELSE LostAt(item, Drained(u), lost)
         \o (IF f # {} THEN Error(item) ELSE Passed)

(* The rows of the index are checked against one another in strict mode only. *)
Visible(item) == IF item[1] = "index" /\ ~doc.strict THEN store[item] \ {"unsound"} ELSE store[item]
checkIndex(item) ==
    LET f == Visible(item) IN
    IF f = {} THEN Passed
    ELSE IF f \cap {"too new", "unexpected"} # {} THEN Error(item)
    ELSE IF f \cap {"stale", "corrupt", "unsound"} # {} THEN <<Finding(item, "error", TRUE)>>
    ELSE Warning(item)
checkTemp(item) ==
    IF store[item] = {} THEN Passed
    ELSE IF "old" \in store[item] THEN Repairable(item) ELSE Warning(item)
checkLock(item) ==
    LET f == store[item] IN
    IF item[2] \in Exclusive THEN (IF "unknown" \in f /\ ReportsUnknown THEN Warning(item) ELSE Passed)
    ELSE IF "unknown" \in f THEN Warning(item)
    ELSE IF "stale" \in f THEN Repairable(item)
    ELSE Passed
checkStateGitignore(item) ==
    IF store[item] = {} THEN Passed
    ELSE IF "opaque" \in store[item] THEN Warning(item) ELSE Repairable(item)
(* The first file whose contents a checkpoint would keep, and the first that *)
(* could not be told: neither hides the other.                               *)
secretCaptureCandidates ==
    LET Of(fault) == IF \E n \in ToSet(RootFiles) : {"secret", fault} \subseteq store[<<"file", n>>]
                     THEN Warning(<<"files", fault>>) ELSE Passed IN
    Of("captured") \o Of("opaque")
(* Tracked by git, broad permissions, names that carry secrets or code,      *)
(* patterns that never match, markers above or below: each its own warning.  *)
Advice(item) == [i \in 1..Cardinality(store[item]) |-> Finding(item, "warning", FALSE)]

Skipped(kind, doing) ==
    \/ kind \in {"checkpoint", "remnant"} /\ "checkpoints" \in doing.closed
    \/ kind \in {"run", "pointers"} /\ "runs" \in doing.closed
    \/ kind = "recovery" /\ "restores" \in doing.closed
    \/ kind = "temp" /\ "runs/tmp" \in doing.closed
Check(item) ==
    LET kind == item[1] IN
    CASE kind \in {"dir", "checkpoints", "runs", "restores", "runs/tmp"} -> checkLayout(item)
      [] kind = "pointers" -> checkRunPointers(item)
      [] kind = "checkpoint" -> checkOneCheckpoint(item[2])
      [] kind = "remnant" -> checkHeaderless(item[2])
      [] kind = "run" -> checkRun(item)
      [] kind = "recovery" -> checkRestore(item[2])
      [] kind = "index" -> checkIndex(item)
      [] kind = "temp" -> checkTemp(item)
      [] kind = "lock" -> checkLock(item)
      [] kind = "guard" -> checkStateGitignore(item)
      [] kind = "files" -> secretCaptureCandidates
      [] OTHER -> Advice(item)

(***************************************************************************)
(* Doctor.                                                                 *)
(***************************************************************************)
DoctorInit ==
    /\ store \in Faults /\ writer = {} /\ changed = {}
    /\ \E strict, repairs \in BOOLEAN :
         doc = [at |-> 1, phase |-> "checking", strict |-> strict, repairs |-> repairs,
                listed |-> {}, closed |-> {}, verified |-> {}, findings |-> <<>>, last |-> 0, withdrawn |-> {}]

Inspect ==
    /\ doc.phase = "checking" /\ doc.at <= Len(Inspection)
    /\ LET item == Inspection[doc.at]  kind == item[1] IN
       doc' = IF Skipped(kind, doc) THEN [doc EXCEPT !.at = @ + 1]
              ELSE [doc EXCEPT
                !.at = @ + 1,
                !.findings = @ \o Check(item),
                !.closed = IF kind \in {"checkpoints", "runs", "restores", "runs/tmp"} /\ store[item] # {}
                           THEN @ \cup {kind} ELSE @,
                !.listed = IF kind = "checkpoints"
                           THEN {c \in Checkpoints : ~Headerless(c) /\ ~NotThere(<<"checkpoint", c>>)} ELSE @,
                !.verified = IF kind = "checkpoint" /\ item[2] \in doc.listed /\ store[item] \cap Unopened = {}
                             THEN Verified(Readable(item[2]), doc.strict, @) ELSE @]
    /\ UNCHANGED <<store, writer, changed>>

(* A Ctrl+C during the checks cuts the walks short and is seen here. *)
Diagnosed ==
    /\ doc.phase = "checking" /\ doc.at > Len(Inspection)
    /\ \E phase \in {"interrupted", IF doc.repairs THEN "waiting" ELSE "reported"} :
         doc' = [doc EXCEPT !.phase = phase]
    /\ UNCHANGED <<store, writer, changed>>

(* Exclusive access waits out a writer at work, or gives up. *)
AcquireExclusive ==
    /\ doc.phase = "waiting"
    /\ \/ writer = {} /\ doc' = [doc EXCEPT !.phase = "repairing", !.at = 1, !.last = Len(doc.findings)]
       \/ writer # {} /\ doc' = [doc EXCEPT !.phase = "timed out"]
    /\ UNCHANGED <<store, writer, changed>>

Gone == {"absent"}
(* What a repair leaves of its target. *)
Cured(item) == IF item[1] = "checkpoint" THEN Gone ELSE {}
Repaired(i) == [doc EXCEPT !.at = @ + 1, !.findings[i] = [@ EXCEPT !.repaired = TRUE]]
RepairFailed(i) == [doc EXCEPT !.at = @ + 1, !.findings = Append(@, Finding(doc.findings[i].about, "error", FALSE))]

(* A checkpoint directory is looked at again, under the lock. *)
(* Mutated: what the unlocked diagnosis saw is trusted. *)
removeRemnantAsFound(i, item) ==
    \/ store' = [store EXCEPT ![item] = Gone] /\ doc' = Repaired(i)
    \/ store' = store /\ doc' = RepairFailed(i)
removeRemnant(i, item) ==
    IF NotThere(item) \/ ~Headerless(item[2])
         THEN store' = store /\ doc' = [doc EXCEPT !.at = @ + 1, !.withdrawn = @ \cup {i}]
    ELSE IF remnantFinding(item) # Repairable(item)
         THEN store' = store /\ doc' = [doc EXCEPT !.at = @ + 1, !.findings[i] = remnantFinding(item)[1]]
    ELSE \/ store' = [store EXCEPT ![item] = Gone] /\ doc' = Repaired(i)
         \/ store' = store /\ doc' \in {RepairFailed(i), [doc EXCEPT !.phase = "interrupted"]}
execute(i, item) ==
    \/ ~(item[1] = "guard" /\ "opaque" \in store[item])
       /\ store' = [store EXCEPT ![item] = Cured(item)] /\ doc' = Repaired(i)
    \/ store' = store /\ doc' = RepairFailed(i)

Repair ==
    /\ doc.phase = "repairing" /\ doc.at <= doc.last
    /\ LET f == doc.findings[doc.at] IN
       IF ~f.repairable THEN store' = store /\ doc' = [doc EXCEPT !.at = @ + 1]
       ELSE IF f.about[1] = "checkpoint" THEN removeRemnant(doc.at, f.about)
       ELSE execute(doc.at, f.about)
    /\ UNCHANGED <<writer, changed>>

Report ==
    /\ doc.phase = "repairing" /\ doc.at > doc.last
    /\ doc' = [doc EXCEPT !.phase = "reported",
                          !.findings = [i \in DOMAIN doc.findings \ doc.withdrawn |-> doc.findings[i]]]
    /\ UNCHANGED <<store, writer, changed>>

(***************************************************************************)
(* Everyone else.                                                          *)
(***************************************************************************)
Change(items, Into(_)) ==
    /\ Cardinality(changed \cup items) <= MaxChanged
    /\ store' = [i \in Items |-> IF i \in items THEN Into(i) ELSE store[i]]
    /\ changed' = changed \cup items
    /\ UNCHANGED doc
Unfinished == doc.phase \in {"checking", "waiting", "repairing"}
Excluded == doc.phase = "repairing"
Begun(item) == CASE item[1] = "checkpoint" -> {"no header"} [] item[1] = "temp" -> {"fresh"} [] OTHER -> {"held"}

WriterBegins ==
    /\ Unfinished /\ ~Excluded /\ writer = {}
    /\ \E c \in Checkpoints, t \in Temps, l \in Locks \ Exclusive :
         /\ NotThere(<<"checkpoint", c>>) /\ store[<<"temp", t>>] = {} /\ store[<<"lock", l>>] = {}
         /\ writer' = {<<"checkpoint", c>>, <<"temp", t>>, <<"lock", l>>}
         /\ Change(writer', Begun)
WriterCommits ==
    /\ Unfinished /\ writer # {} /\ writer' = {}
    /\ Change(writer, LAMBDA i : {})
WriterDies ==
    /\ Unfinished /\ writer # {} /\ writer' = {}
    /\ Change(writer, LAMBDA i : IF i[1] = "lock" THEN {"stale"} ELSE store[i])
(* A temporary artifact ages whoever owns it. *)
Age(t) ==
    /\ Unfinished /\ store[<<"temp", t>>] = {"fresh"}
    /\ Change({<<"temp", t>>}, LAMBDA i : {"old"}) /\ UNCHANGED writer
(* gc: needs the exclusive access a writer or a repair denies it. *)
Forget(c) ==
    /\ Unfinished /\ ~Excluded /\ writer = {} /\ store[<<"checkpoint", c>>] = {}
    /\ Change({<<"checkpoint", c>>}, LAMBDA i : Gone) /\ UNCHANGED writer
(* Any command that observes the worktree may rebuild the index. *)
Rescan ==
    /\ Unfinished /\ store[One("index")] \cap {"stale", "corrupt", "busy"} # {}
    /\ Change({One("index")}, LAMBDA i : {}) /\ UNCHANGED writer
InitAgain ==
    /\ Unfinished /\ store[One("guard")] \cap {"missing", "ineffective"} # {}
    /\ Change({One("guard")}, LAMBDA i : {}) /\ UNCHANGED writer

OthersNext ==
    \/ WriterBegins \/ WriterCommits \/ WriterDies \/ Rescan \/ InitAgain
    \/ (\E t \in Temps : Age(t)) \/ (\E c \in Checkpoints : Forget(c))
DoctorNext == Inspect \/ Diagnosed \/ AcquireExclusive \/ Repair \/ Report
DiagnosisSpec == DoctorInit /\ [][DoctorNext \/ OthersNext]_doctorVars

(***************************************************************************)
(* Properties.                                                             *)
(***************************************************************************)
(* What is wrong with the store now, by who suffers from it. *)
Reachable(c) == store[<<"checkpoint", c>>] \cap Unopened = {}
LostReferences ==
    (UNION {{Reference(<<"checkpoint", c>>, b) : b \in {x \in ToSet(Readable(c)) : Broken(x, doc.strict)}}
              : c \in {x \in Checkpoints : Reachable(x)}})
    \cup (UNION {{Reference(<<"recovery", u>>, b) : b \in {x \in ToSet(Drained(u)) : Broken(x, FALSE)}}
              : u \in {x \in Records : store[<<"recovery", x>>] \subseteq {"torn", "bad scope"}}})
Harmless(item) ==
    \/ Visible(item) = {} \/ item[1] \in {"blob", "file"} \/ NotThere(item)
    \/ item[1] = "lock" /\ (store[item] = {"held"}
                            \/ (item[2] \in Exclusive /\ ("unknown" \in store[item] => ~ReportsUnknown)))
Exposed == {<<"files", f>> : f \in {x \in {"captured", "opaque"} :
              \E n \in ToSet(RootFiles) : {"secret", x} \subseteq store[<<"file", n>>]}}
Defects == {i \in Items : ~Harmless(i)} \cup LostReferences \cup Exposed
Holder(d) == IF d[1] = "reference" THEN d[2] ELSE d
Settled(d) == Holder(d) \notin changed
Hidden(d) == Skipped(Holder(d)[1], doc)
Reported(d) == \E i \in DOMAIN doc.findings : doc.findings[i].about = d

(* A report leaves nothing out and makes nothing up: whatever is wrong with *)
(* something nobody touched meanwhile is reported once for everyone who     *)
(* suffers from it, a broken blob for each checkpoint and recovery record   *)
(* that names it; what is reported about such a thing is wrong with it, and *)
(* what is said to be repaired is; the verdict ok means there is nothing to *)
(* say (Run, verify, checkOneCheckpoint, repair, Health).                   *)
ReportIsTheDamage ==
    doc.phase = "reported" =>
        /\ \A d \in Defects : Settled(d) /\ ~Hidden(d) => Reported(d)
        /\ \A i \in DOMAIN doc.findings : LET f == doc.findings[i] IN
             Settled(f.about) =>
                /\ f.repaired => f.about \notin Defects
                /\ ~f.repaired => f.about \in Defects
        /\ Health(doc.findings) = "ok" => ~\E d \in Defects : Settled(d)

(* A repair takes nothing anyone needs: no committed checkpoint, nothing of *)
(* a writer still at work, no lock of gc or restore, whatever happened      *)
(* between the unlocked diagnosis and the repair (repair, removeRemnant).   *)
RepairTakesOnlyRemains ==
    [][\A i \in Items :
         Repair /\ store'[i] # store[i] =>
            /\ i \notin writer
            /\ i[1] = "checkpoint" => Headerless(i[2])
            /\ i[1] = "lock" => i[2] \notin Exclusive /\ "held" \notin store[i]
            /\ i[1] \in {"checkpoint", "temp", "lock", "index", "guard"}]_doctorVars
=============================================================================
