----------------------------- MODULE RunEntries ------------------------------
(* What awa run records of a run and how two of those records are compared.   *)
(* A key input is everything a result depends on; its canonical bytes are the *)
(* key.  The history commands never compare keys: they compare key inputs     *)
(* field by field, name the difference that explains most, and translate it   *)
(* into the reason a user reads.  A hash stands for what it hashes and an     *)
(* environment, a command or a place for one value.                          *)
EXTENDS Integers, Sequences, FiniteSets

CONSTANTS
    None,      \* the absent validation policy, observation or list of facts
    Prints     \* the fingerprints of what a probe printed

(* An external fact is a fingerprint or the reason there is none.  The nine  *)
(* ways in which a probe itself fails are one.                               *)
FactStatus == {"denied", "probe-failed", "skipped", "not-acquired"}
Unassessed == "unassessed"
ExternalFact == Prints \cup FactStatus

(* The facts of n probes are a function from 1..n; Go's nil slice is None.   *)
FactsComplete(facts) ==
    /\ facts # None
    /\ DOMAIN facts # {}
    /\ \A i \in DOMAIN facts : facts[i] \in Prints

factsUnassessed(facts) == \E i \in DOMAIN facts : facts[i] = Unassessed

SameFacts(a, b) == FactsComplete(a) /\ FactsComplete(b) /\ a = b

ValidateFacts(probes, facts) ==
    /\ DOMAIN facts = DOMAIN probes
    /\ \A i \in DOMAIN facts : facts[i] \in ExternalFact

(* A selected policy: its label, which is only shown, the directories it     *)
(* leaves unobserved, its probes and what they reported.                     *)
FactsUnassessed(v) == v # None /\ factsUnassessed(v.facts)
PolicyFactsComplete(v) == v = None \/ DOMAIN v.probes = {} \/ FactsComplete(v.facts)
probesDeclared(v) == v # None /\ DOMAIN v.probes # {}
WithFacts(v, facts) == [v EXCEPT !.facts = facts]

sameValidationSemantics(a, b) ==
    IF a = None \/ b = None
    THEN a = None /\ b = None
    ELSE a.dirs = b.dirs /\ a.probes = b.probes

-----------------------------------------------------------------------------
(* The key.                                                                  *)

Unavailable == "unavailable"

(* The code of a difference in each field compared on its own.               *)
FieldCode == [
    schema |-> "schema-changed", version |-> "awa-version-changed",
    invocation |-> "invocation-changed", command |-> "command-changed",
    executable |-> "executable-changed", cwd |-> "cwd-changed",
    tree |-> "input-tree-changed", scope |-> "scope-changed",
    trust |-> "trust-changed", runConfig |-> "run-config-changed",
    env |-> "env-changed", platform |-> "platform-changed",
    stdin |-> "stdin-changed", tty |-> "tty-changed",
    allowSkipped |-> "skipped-changed"]

PlainField == DOMAIN FieldCode
KeyField == PlainField \cup {"effect", "validation"}

(* Mutated: a policy is keyed without what its probes reported.               *)
putValidationWithoutFacts(v) == IF v = None THEN None ELSE <<v.dirs, v.probes>>

(* A policy's label is not keyed, and without probes nor are its facts.       *)
putValidation(v) ==
    IF v = None THEN None
    ELSE IF DOMAIN v.probes = {} THEN <<v.dirs>> ELSE <<v.dirs, v.probes, v.facts>>

canonical(in) ==
    [f \in KeyField |-> IF f = "validation" THEN putValidation(in.validation) ELSE in[f]]

(* An unassessed side proves nothing and adds no difference.                  *)
addFacts(old, new) ==
    IF \/ old = None \/ new = None \/ DOMAIN new.probes = {}
       \/ FactsUnassessed(old) \/ FactsUnassessed(new) \/ old.facts = new.facts
    THEN {}
    ELSE IF FactsComplete(old.facts) /\ FactsComplete(new.facts)
    THEN {"external-facts-changed"} ELSE {"external-facts-unavailable"}

EffectCodes(old, new) ==
    IF old.effect = new.effect THEN {}
    ELSE IF new.effect = Unavailable THEN {"effect-state-unavailable"} ELSE {"effect-state-changed"}

CompareKeyInputs(old, new) ==
    LET plain == {FieldCode[f] : f \in {g \in PlainField : old[g] # new[g]}}
        policy == IF sameValidationSemantics(old.validation, new.validation)
                  THEN addFacts(old.validation, new.validation) ELSE {"scope-changed"}
    IN  plain \cup EffectCodes(old, new) \cup policy

Priority == <<
    "schema-changed", "awa-version-changed", "invocation-changed", "command-changed",
    "executable-changed", "cwd-changed", "scope-changed", "trust-changed",
    "run-config-changed", "env-changed", "stdin-changed", "tty-changed",
    "skipped-changed", "platform-changed", "external-facts-unavailable",
    "external-facts-changed", "effect-state-unavailable", "effect-state-changed",
    "input-tree-changed">>

(* The difference that explains most, of a comparison that found one.         *)
PrimaryReason(codes) ==
    LET n == CHOOSE i \in DOMAIN Priority :
                /\ Priority[i] \in codes
                /\ \A j \in 1..(i - 1) : Priority[j] \notin codes
    IN  Priority[n]

(* The codes with a reason of their own.  Every other code, and no code at   *)
(* all, is a changed configuration.                                          *)
OwnReason == [c \in {"input-tree-changed", "effect-state-changed", "effect-state-unavailable",
                     "cwd-changed", "env-changed", "platform-changed",
                     "external-facts-changed", "external-facts-unavailable"} |->
    CASE c = "input-tree-changed" -> "input-tree-differs"
      [] c = "effect-state-changed" -> "effect-state-differs"
      [] c = "cwd-changed" -> "cwd-mismatch"
      [] c = "env-changed" -> "env-mismatch"
      [] c = "platform-changed" -> "platform-mismatch"
      [] OTHER -> c]

ReasonOf(codes) ==
    IF codes # {} /\ PrimaryReason(codes) \in DOMAIN OwnReason
    THEN OwnReason[PrimaryReason(codes)] ELSE "config-mismatch"

-----------------------------------------------------------------------------
(* A stored run.  Its reuse state is a kind with a reason; only a reusable    *)
(* one has none.  The cache decision beside it repeats it and is left out.    *)

disqualifiedReason == {"mutated-state", "effect-state-differs", "effect-state-unavailable",
    "failed-not-cached", "external-facts-changed", "external-facts-unavailable-post-run"}

policyReason == {"record-only", "no-cache", "stdin-not-keyed", "skipped-inputs",
    "capture-disabled", "non-cacheable-policy", "fast-trust-mode", "external-facts-unavailable"}

NoReason == "none"
Reusable == [kind |-> "reusable", reason |-> NoReason]
NonReusable(reason) == [kind |-> "non-reusable", reason |-> reason]
RecordOnly(reason) == [kind |-> "record-only", reason |-> reason]
UnknownPostState == [kind |-> "unknown-post-state", reason |-> "post-scan-failed"]

(* The pairs a record may hold; any other pair does not decode.               *)
ReuseStates ==
    {Reusable, UnknownPostState}
    \cup {NonReusable(r) : r \in disqualifiedReason}
    \cup {RecordOnly(r) : r \in policyReason}

(* The outcome of the two guards: what the second look at the inputs and at   *)
(* the watched output said of the first.                                     *)
MutationOutcome == {"unchanged", "changed", "scan-failed"}
EffectOutcome == {"unchanged", "changed", "unavailable"}

validateReuse(e) ==
    /\ e.reuse \in ReuseStates
    /\ e.mutation \in MutationOutcome /\ e.guard \in EffectOutcome
    /\ e.reuse.kind = "reusable" =>
        /\ e.mutation = "unchanged" /\ e.guard = "unchanged"
        /\ e.input.effect # Unavailable
        /\ e.input.trust # "fast"
    /\ e.reuse.kind = "unknown-post-state" => e.mutation = "scan-failed"
    /\ e.reuse.kind = "non-reusable" =>
        /\ e.reuse.reason = "mutated-state" => e.mutation = "changed"
        /\ e.reuse.reason = "effect-state-differs" => e.guard = "changed"
        /\ e.reuse.reason = "effect-state-unavailable" => e.guard = "unavailable"
        /\ e.reuse.reason = "failed-not-cached" => e.failed

validateRecordOnlyReason(e) ==
    e.reuse.kind = "record-only" =>
        /\ e.reuse.reason # "capture-disabled"
        /\ e.reuse.reason = "skipped-inputs" => e.skipped /\ ~e.input.allowSkipped
        /\ e.reuse.reason = "stdin-not-keyed" => e.input.stdin # "null"
        /\ e.reuse.reason = "fast-trust-mode" => e.input.trust = "fast"

validateFacts(e) ==
    LET v == e.input.validation
        reason == e.reuse.reason
    IN  IF ~probesDeclared(v)
        THEN /\ e.postRunFacts = None
             /\ reason \notin {"external-facts-unavailable", "external-facts-changed",
                               "external-facts-unavailable-post-run"}
        ELSE /\ e.postRunFacts # None =>
                 ValidateFacts(v.probes, e.postRunFacts) /\ FactsComplete(v.facts)
             /\ e.reuse.kind = "reusable" => SameFacts(v.facts, e.postRunFacts)
             /\ reason = "external-facts-unavailable" =>
                 /\ ~FactsComplete(v.facts)
                 /\ \A i \in DOMAIN v.facts : v.facts[i] # "not-acquired"
             /\ reason = "external-facts-changed" =>
                 FactsComplete(e.postRunFacts) /\ ~SameFacts(v.facts, e.postRunFacts)
             /\ reason = "external-facts-unavailable-post-run" =>
                 e.postRunFacts # None /\ ~FactsComplete(e.postRunFacts)

validateObservations(e) ==
    /\ e.before = e.input.tree
    /\ (e.after = None) <=> e.mutation = "scan-failed"
    /\ e.after # None => (e.after # e.before <=> e.mutation = "changed")

(* A key input holds what was assessed.                                       *)
validateKeyInput(in) ==
    in.validation # None => ValidateFacts(in.validation.probes, in.validation.facts)

Validate(e) ==
    /\ e.started <= e.finished
    /\ validateKeyInput(e.input)
    /\ validateReuse(e) /\ validateRecordOnlyReason(e)
    /\ validateFacts(e)
    /\ validateObservations(e)
    /\ e.reuse.kind = "reusable" /\ e.skipped => e.input.allowSkipped

-----------------------------------------------------------------------------
(* How near a stored run is to the present one.  The facts of a candidate     *)
(* that cannot be compared hide every other difference.                       *)

newCandidate(e, current) ==
    LET codes == CompareKeyInputs(e.input, current)
        hidden == "external-facts-unavailable" \in codes
    IN  [entry |-> e, reason |-> ReasonOf(codes), uncomputed |-> hidden,
         codes |-> IF hidden THEN {} ELSE codes]

setReasonOnly(c) == [c EXCEPT !.codes = {}, !.uncomputed = TRUE]

RankCategories == <<"command-changed", "executable-changed", "cwd-changed",
    "run-config-changed", "scope-changed", "env-changed", "platform-changed">>

rankBucket(c) == IF c.entry.reuse.kind = "reusable" /\ ~c.uncomputed THEN 0 ELSE 1

(* Whether candidate a ranks before candidate b.                              *)
Nearer(a, b) ==
    LET apart == {i \in DOMAIN RankCategories :
                    (RankCategories[i] \in a.codes) # (RankCategories[i] \in b.codes)}
    IN  IF rankBucket(a) # rankBucket(b) THEN rankBucket(a) < rankBucket(b)
        ELSE IF apart # {}
        THEN LET first == CHOOSE i \in apart : \A j \in apart : i <= j
             IN  RankCategories[first] \notin a.codes
        ELSE a.entry.id > b.entry.id

Nearest(cands) == CHOOSE c \in cands : \A d \in cands \ {c} : Nearer(c, d)
=============================================================================
