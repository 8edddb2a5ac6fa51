------------------------------ MODULE RunViews -------------------------------
(* What awa tells a user about the history of runs without running anything:  *)
(* run explain, run ls, and the line that follows a run that was not a hit.    *)
(* Each is an operator over a state of RunHistory; together they promise that *)
(* what they say of a run is what awa run would do, and say the same.         *)
EXTENDS RunHistory

Readable == {id \in DOMAIN store : Get(id) = "read"}

-----------------------------------------------------------------------------
(* awa run explain.                                                          *)

(* Mutated: the age of the entry is not looked at.                            *)
currentVerdictOfAnyAge(req, kc) ==
    LET says(outcome, reason) == [outcome |-> outcome, reason |-> reason]
        key == canonical(kc.input)
        found == Lookup(key)
    IN  IF kc.reason # NoReason
        THEN says(IF kc.reason = "no-cache" THEN "disabled" ELSE "uncached", kc.reason)
        ELSE IF req.refresh THEN says("miss", "refresh-requested")
        ELSE IF FactsUnassessed(kc.input.validation)
        THEN says("incomplete", "external-facts-unacquired")
        ELSE IF found = "corrupt" THEN says("corrupt", "stored-run-corrupt")
        ELSE IF found = "miss" THEN says("miss", NoReason)
        ELSE IF ~payloadHealth(pointers[key]) THEN says("corrupt", "exact-entry-unhealthy")
        ELSE IF req.noFailures /\ Entry(pointers[key]).failed THEN says("miss", "cached-failure-ignored")
        ELSE says("hit", "exact-key")

(* What the present state would mean for a run, without acquiring any fact.   *)
currentVerdict(req, kc) ==
    LET says(outcome, reason) == [outcome |-> outcome, reason |-> reason]
        key == canonical(kc.input)
        found == Lookup(key)
        entry == Entry(pointers[key])
    IN  IF kc.reason # NoReason
        THEN says(IF kc.reason = "no-cache" THEN "disabled" ELSE "uncached", kc.reason)
        ELSE IF req.refresh THEN says("miss", "refresh-requested")
        ELSE IF FactsUnassessed(kc.input.validation)
        THEN says("incomplete", "external-facts-unacquired")
        ELSE IF found = "corrupt" THEN says("corrupt", "stored-run-corrupt")
        ELSE IF found = "miss" THEN says("miss", NoReason)
        ELSE IF ~payloadHealth(pointers[key]) THEN says("corrupt", "exact-entry-unhealthy")
        ELSE IF req.noFailures /\ entry.failed THEN says("miss", "cached-failure-ignored")
        ELSE IF Expired(entry) THEN says("miss", "ttl-expired")
        ELSE says("hit", "exact-key")

Candidates(current) == {newCandidate(Entry(id), current) : id \in Readable}

(* A miss without a reason of its own takes the reason of the stored run that *)
(* is nearest, if that one could be compared and differs.                    *)
explainCommand(req) ==
    LET kc == buildKeyContext(req, FALSE)
        v == currentVerdict(req, kc)
        cands == Candidates(kc.input)
    IN  IF v.outcome # "miss" \/ v.reason # NoReason THEN v
        ELSE IF cands = {} THEN [v EXCEPT !.reason = "no-entry-for-key"]
        ELSE IF Nearest(cands).codes = {} THEN [v EXCEPT !.reason = "no-entry-for-key"]
        ELSE [v EXCEPT !.reason = Nearest(cands).reason]

(* The request a stored run answers, in the scope it recorded.                *)
requestFromEntry(e) ==
    [Ordinary EXCEPT !.command = e.input.command, !.scope = e.input.scope,
                     !.stdin = e.input.stdin, !.allowSkipped = e.input.allowSkipped]

(* explain of one stored run; without an operand, of the latest.              *)
explainStored(id) ==
    LET req == requestFromEntry(Entry(id))
        kc == buildKeyContext(req, FALSE)
        v == currentVerdict(req, kc)
        c == newCandidate(Entry(id), kc.input)
        cand == IF FactsUnassessed(kc.input.validation) THEN setReasonOnly(c) ELSE c
    IN  IF v.outcome = "miss" /\ v.reason = NoReason
        THEN [v EXCEPT !.reason = IF cand.codes = {} THEN "no-entry-for-key" ELSE cand.reason]
        ELSE v

-----------------------------------------------------------------------------
(* awa run ls.                                                               *)

(* Whether a stored run would replay now, or the reason why not.  A policy    *)
(* whose facts a listing does not acquire leaves an equal run unassessed.     *)
reusability(id) ==
    LET e == Entry(id)
        req == requestFromEntry(e)
        current == buildKeyInput(req, withPreRunFacts(req, selectValidation(req), FALSE))
        codes == CompareKeyInputs(e.input, current)
    IN  IF e.reuse.kind # "reusable" THEN e.reuse.reason
        ELSE IF Conflict(req) THEN "config-mismatch"
        ELSE IF codes # {} THEN ReasonOf(codes)
        ELSE IF Expired(e) THEN "expired"
        ELSE IF ~payloadHealth(id) THEN "payload-missing"
        ELSE IF FactsUnassessed(current.validation) THEN "unassessed" ELSE "reusable"

(* run log lists a window of what it shows, run ls shows part of a window of  *)
(* all runs.  A command filter drops what cannot be read, and nobody shows an *)
(* entry of another schema.                                                  *)
Shown(id, command) ==
    CASE Get(id) = "read" -> command \in {None, Entry(id).input.command}
      [] Get(id) = "corrupt" -> command = None
      [] OTHER -> FALSE

Newest(ids, limit) == {id \in ids : Cardinality({x \in ids : x > id}) < limit}

Log(limit, command) == Newest({id \in DOMAIN store : Shown(id, command)}, limit)
Ls(limit, command) == {id \in Newest(DOMAIN store, limit) : Shown(id, command)}

-----------------------------------------------------------------------------
(* run audit counts the newest runs by the reuse state stored with them.      *)

auditClasses == [
    reusable_when_stored |-> {Reusable},
    deliberate_recording |-> {RecordOnly("record-only"), RecordOnly("no-cache")},
    policy_blocker |-> {RecordOnly(r) : r \in
        {"stdin-not-keyed", "skipped-inputs", "fast-trust-mode", "non-cacheable-policy",
         "capture-disabled", "external-facts-unavailable"}},
    changed_state |-> {NonReusable(r) : r \in
        {"mutated-state", "effect-state-differs", "external-facts-changed"}},
    observation_unavailable |-> {UnknownPostState} \cup {NonReusable(r) : r \in
        {"effect-state-unavailable", "external-facts-unavailable-post-run"}},
    failure_cache_policy |-> {NonReusable("failed-not-cached")}]

(* The groups a run is counted in.  Once the budget, here a number of         *)
(* entries, is spent the rest of the window is not read.                     *)
auditRecorded(limit, budget) ==
    LET window == Newest(DOMAIN store, limit)
        read == Newest(window, budget)
    IN  [id \in window |->
            IF id \notin read THEN {"unread-budget"}
            ELSE IF Get(id) # "read" THEN {Get(id)}
            ELSE {g \in DOMAIN auditClasses : Entry(id).reuse \in auditClasses[g]}]

-----------------------------------------------------------------------------
(* The line after a run.                                                     *)

(* Mutated: the age of the entry is not looked at.                            *)
inlineReasonOfAnyAge(c) ==
    IF c.entry.reuse.kind # "reusable" THEN c.entry.reuse.reason
    ELSE IF c.uncomputed THEN c.reason
    ELSE IF c.codes # {} THEN ReasonOf(c.codes)
    ELSE IF ~payloadHealth(c.entry.id) THEN "payload-missing" ELSE NoReason

inlineReason(c) ==
    IF c.entry.reuse.kind # "reusable" THEN c.entry.reuse.reason
    ELSE IF c.uncomputed THEN c.reason
    ELSE IF c.codes # {} THEN ReasonOf(c.codes)
    ELSE IF Expired(c.entry) THEN "expired"
    ELSE IF ~payloadHealth(c.entry.id) THEN "payload-missing" ELSE NoReason

-----------------------------------------------------------------------------
(* What they promise.                                                        *)

(* The one disagreement: explain reports an entry whose payload is damaged    *)
(* even where a run would ignore it and execute again.                       *)
RunIgnores(req, fate) ==
    /\ fate = "execute"
    /\ LET key == canonical(buildKeyContext(req, TRUE).input)
       IN  Lookup(key) = "hit" /\ ~payloadHealth(pointers[key])

Foretold(req, says) ==
    LET kc == buildKeyContext(req, TRUE)
        fate == RunFate(req)
    IN  /\ says.outcome = "hit" => fate = "replay"
        /\ says.outcome = "corrupt" => fate = "error" \/ RunIgnores(req, fate)
        /\ says.outcome \in {"uncached", "disabled"} =>
            fate = "execute" /\ kc.status = says.outcome /\ kc.reason = says.reason
        /\ says.outcome = "miss" => fate = "execute"
        /\ says.outcome # "incomplete" =>
            /\ fate = "replay" => says.outcome = "hit"
            /\ fate = "error" => says.outcome = "corrupt"

(* What explain says of a command, and of a stored run, is what awa run would *)
(* do with it in the same state: it names a hit exactly when the run would    *)
(* replay, corruption whenever the run would fail, and the policy reason the  *)
(* run would record.  Only where facts are missing does it decline to say.    *)
ExplainForetells ==
    /\ \A req \in Requests : Conflict(req) \/ Foretold(req, explainCommand(req))
    /\ \A id \in Readable : LET req == requestFromEntry(Entry(id))
                            IN  Conflict(req) \/ Foretold(req, explainStored(id))

(* A run that ls lists as reusable is the one awa run would replay, as long   *)
(* as its key still leads to it; and every run that would be replayed is      *)
(* listed as reusable, or as unassessed where its facts were not acquired.    *)
ListMatchesReplay ==
    \A id \in Readable : LET req == requestFromEntry(Entry(id))
                             key == canonical(Entry(id).input)
                             leads == key \in DOMAIN pointers /\ pointers[key] = id
        IN  /\ reusability(id) = "reusable" /\ leads => RunFate(req) = "replay"
            /\ leads /\ RunFate(req) = "replay" /\ canonical(buildKeyContext(req, TRUE).input) = key
                => reusability(id) \in {"reusable", "unassessed"}

(* The reason the line after a run gives for the nearest stored run is the    *)
(* reason ls gives for it in the same state, when both speak of one request   *)
(* and no policy declares probes, whose facts only the run acquires.          *)
FooterAgrees ==
    \A req \in Requests : RunFate(req) = "execute" =>
        LET kc == buildKeyContext(req, TRUE)
            cands == Candidates(kc.input)
            near == Nearest(cands)
            same == requestFromEntry(near.entry)
        IN  \/ cands = {}
            \/ probesDeclared(kc.input.validation)
            \/ [req EXCEPT !.scope = Include(req)] # same
            \/ inlineReason(near) = reusability(near.entry.id)
            \/ inlineReason(near) = NoReason /\ reusability(near.entry.id) = "reusable"

(* What run ls shows of a window run log shows too, and audit counts every    *)
(* run of its window once: no stored reuse state is without a group.          *)
ListingsAgree ==
    \A limit \in 1..2 :
        /\ \A command \in {None} \cup {req.command : req \in Requests} :
            Ls(limit, command) \subseteq Log(limit, command)
        /\ \A budget \in 1..limit :
            \A id \in DOMAIN auditRecorded(limit, budget) :
                Cardinality(auditRecorded(limit, budget)[id]) = 1

(* What the listings and the line after a run say is true together.           *)
ListIsTrue == ListMatchesReplay /\ FooterAgrees /\ ListingsAgree

(* Replaying is telling the truth: everything a replayed run observed is      *)
(* still as it was when its command ran, except what its policy waives, and   *)
(* its probes report what they reported then.                                *)
ReplayIsFaithful ==
    \A req \in Requests : RunFate(req) = "replay" =>
        LET e == Entry(pointers[canonical(buildKeyContext(req, TRUE).input)])
            v == selectValidation(req)
        IN  /\ \A p \in Observed(req) : e.made.tree[p] = world.tree[p]
            /\ e.made.effect = world.effect /\ e.made.env = world.env
            /\ e.made.executable = world.executable
            /\ e.input.command = req.command /\ ~(req.noFailures /\ e.failed)
            /\ e.skipped => req.allowSkipped
            /\ probesDeclared(v) => \A i \in DOMAIN v.probes :
                    e.made.reports[v.probes[i]] = world.reports[v.probes[i]]

(* What explain, the listings and the line after a run say of a command or a  *)
(* stored run is what awa run would do with it.                              *)
ViewsForetell == ExplainForetells /\ ListIsTrue

(* A command that ran while output was captured leaves its entry in the       *)
(* history whatever it did, unless the clock stepped back under it: no        *)
(* combination of request, outcome and policy makes an entry that the store   *)
(* refuses after the command has had its effects.                            *)
EveryRunIsKept == last # "rejected"

(* The history has every run, and what is replayed from it is still true. *)
HistoryIsFaithful == EveryRunIsKept /\ ReplayIsFaithful
=============================================================================
