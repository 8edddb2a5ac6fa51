----------------------------- MODULE RunHistory ------------------------------
(* The history awa run keeps.  One run after another meets what is left of    *)
(* the runs before it while the worktree, the environment, the policy and the *)
(* clock change between them and entries are removed, damaged or written by   *)
(* another version.  RunValidity models what happens during one run, RunStore *)
(* how two processes share the store: here a run is one step, and what it     *)
(* observes, decides, stores and reports is complete.                         *)
EXTENDS RunEntries

CONSTANTS
    Root,      \* the whole project as an include operand
    Places,    \* the directories directly under it
    Contents,  \* what a place, the watched output or the environment can hold
    Configs,   \* the configurations a project may start with
    Policies,  \* the validation policies it may select
    Requests,  \* what awa run may be asked
    Ordinary,  \* the request that needs no option
    Endings,   \* what a command may do
    Harmless,  \* the ending that changes nothing
    MaxClock, MaxOdd  \* bound the clock and the departures from the ordinary

(* The probes somebody's policy declares. *)
Probes == UNION {{p.probes[i] : i \in DOMAIN p.probes} : p \in Policies \ {None}}

Unreadable == "unreadable"
ProbeFailed == "probe-failed"
Seen == Contents \cup {Unreadable}

(* A policy as a run selects it. *)
Selected(p, facts) == [label |-> p.label, dirs |-> p.dirs, probes |-> p.probes, facts |-> facts]

IsConfig(c) ==
    /\ c = [capture |-> c.capture, trust |-> c.trust, cacheFailed |-> c.cacheFailed, ttl |-> c.ttl,
            policy |-> c.policy, scope |-> c.scope, version |-> c.version]
    /\ {c.capture, c.cacheFailed} \subseteq BOOLEAN /\ c.ttl \in Nat
    /\ c.trust \in {"fast", "normal"} /\ c.policy \in Policies /\ c.scope # None

IsRequest(r) ==
    /\ r = [command |-> r.command, stdin |-> r.stdin, record |-> r.record, noCache |-> r.noCache,
            refresh |-> r.refresh, noFailures |-> r.noFailures, allowSkipped |-> r.allowSkipped,
            scope |-> r.scope]
    /\ {r.record, r.noCache, r.refresh, r.noFailures, r.allowSkipped} \subseteq BOOLEAN

IsEnding(end) ==
    /\ {end.failed, end.scanFails} \subseteq BOOLEAN /\ end.elapsed \in Int
    /\ \A p \in DOMAIN end.tree : end.tree[p] \in Seen
    /\ end.report \in Prints \cup {ProbeFailed, None}

(* None is none of the values it stands in for, nor is a print a status.     *)
ASSUME HistoryAssumption ==
    /\ MaxClock \in Nat /\ MaxOdd \in Nat
    /\ \A c \in Configs : IsConfig(c)
    /\ \A r \in Requests : IsRequest(r)
    /\ IsRequest(Ordinary)
    /\ ~Ordinary.record /\ ~Ordinary.noCache /\ ~Ordinary.refresh /\ ~Ordinary.noFailures
    /\ \A end \in Endings : IsEnding(end)
    /\ Prints \cap (FactStatus \cup {Unassessed}) = {}
    /\ None \notin UNION {[places -> Seen] : places \in SUBSET Places}
    /\ None # {Root} /\ \A p \in Places : None # {p}
    /\ \A p \in Policies \ {None} : p.probes = [i \in DOMAIN p.probes |-> p.probes[i]]
    /\ \A p \in Policies \ {None} : \A facts \in [DOMAIN p.probes -> ExternalFact \cup {Unassessed}] :
          /\ None # facts /\ None # Selected(p, facts)
          /\ None # <<p.dirs>> /\ None # <<p.dirs, p.probes, facts>>

VARIABLES
    world,     \* what can be observed: files, watched output, probes, grants
    config,    \* the configuration and the version of awa
    store,     \* the entries by id, each with the health of its files
    pointers,  \* the id each key leads to
    clock,     \* an id is the instant its run started
    last,      \* history: how the last run ended
    odd        \* history: how many departures from the ordinary there were

historyVars == <<world, config, store, pointers, clock, last, odd>>

-----------------------------------------------------------------------------
(* What a run sees.                                                          *)

Covered(include) == IF Root \in include THEN Places ELSE include \cap Places

(* The policy of the configuration applies to one command.                   *)
selectValidation(req) ==
    LET p == config.policy
    IN  IF p = None THEN None
        ELSE IF p.command # req.command THEN None
        ELSE Selected(p, [i \in DOMAIN p.probes |-> Unassessed])

waivedDirs(v) == IF v = None THEN {} ELSE v.dirs

Include(req) == IF req.scope = None THEN config.scope ELSE req.scope

(* A waived directory may not be named as an input.                          *)
Conflict(req) == Include(req) \cap waivedDirs(selectValidation(req)) # {}

Observed(req) == Covered(Include(req)) \ waivedDirs(selectValidation(req))

(* The manifest names skipped inputs too.                                    *)
TreeHash(w, places) == [p \in places |-> w.tree[p]]
HasSkipped(w, places) == \E p \in places : w.tree[p] = Unreadable

(* Mutated: a refresh is granted before the trust mode is looked at.          *)
cacheabilityRefreshFirst(req, hasSkipped) ==
    LET refused(status, reason) ==
            [read |-> FALSE, write |-> FALSE, status |-> status, reason |-> reason]
    IN  IF ~config.capture THEN refused("uncached", "capture-disabled")
        ELSE IF req.record THEN refused("uncached", "record-only")
        ELSE IF req.stdin # "null" THEN refused("uncached", "stdin-not-keyed")
        ELSE IF req.noCache THEN refused("disabled", "no-cache")
        ELSE IF hasSkipped /\ ~req.allowSkipped THEN refused("uncached", "skipped-inputs")
        ELSE IF req.refresh THEN [read |-> FALSE, write |-> TRUE, status |-> "miss", reason |-> NoReason]
        ELSE IF config.trust = "fast" THEN refused("uncached", "fast-trust-mode")
        ELSE [read |-> TRUE, write |-> TRUE, status |-> "miss", reason |-> NoReason]

cacheability(req, hasSkipped) ==
    LET refused(status, reason) ==
            [read |-> FALSE, write |-> FALSE, status |-> status, reason |-> reason]
    IN  IF ~config.capture THEN refused("uncached", "capture-disabled")
        ELSE IF req.record THEN refused("uncached", "record-only")
        ELSE IF req.stdin # "null" THEN refused("uncached", "stdin-not-keyed")
        ELSE IF req.noCache THEN refused("disabled", "no-cache")
        ELSE IF hasSkipped /\ ~req.allowSkipped THEN refused("uncached", "skipped-inputs")
        ELSE IF config.trust = "fast" THEN refused("uncached", "fast-trust-mode")
        ELSE [read |-> ~req.refresh, write |-> TRUE, status |-> "miss", reason |-> NoReason]

AllFacts(v, status) == [i \in DOMAIN v.probes |-> status]

(* The probes run in order, and none after the first that fails.  A grant     *)
(* is checked each time.                                                     *)
acquire(w, v) ==
    IF ~w.granted THEN AllFacts(v, "denied")
    ELSE [i \in DOMAIN v.probes |->
            IF \E j \in 1..(i - 1) : w.reports[v.probes[j]] = ProbeFailed
            THEN "skipped" ELSE w.reports[v.probes[i]]]

(* A run that can neither read nor write asks no probe; a diagnosis asks none *)
(* at all, but a missing grant is known without asking.                      *)
withPreRunFacts(req, v, acquiring) ==
    IF ~probesDeclared(v) THEN v
    ELSE IF cacheability(req, FALSE).reason # NoReason
    THEN WithFacts(v, AllFacts(v, "not-acquired"))
    ELSE IF acquiring THEN WithFacts(v, acquire(world, v))
    ELSE IF ~world.granted THEN WithFacts(v, AllFacts(v, "denied"))
    ELSE v

buildKeyInput(req, v) ==
    [schema |-> 1, version |-> config.version, invocation |-> "argv",
     command |-> req.command, executable |-> world.executable, cwd |-> ".",
     tree |-> TreeHash(world, Observed(req)), effect |-> world.effect,
     scope |-> Include(req), validation |-> v, trust |-> config.trust,
     runConfig |-> <<config.capture, config.cacheFailed>>, env |-> world.env,
     platform |-> "host", stdin |-> req.stdin, tty |-> FALSE,
     allowSkipped |-> req.allowSkipped]

buildKeyContext(req, acquiring) ==
    LET v == withPreRunFacts(req, selectValidation(req), acquiring)
        skipped == HasSkipped(world, Observed(req))
        may == cacheability(req, skipped)
        short == may.reason = NoReason /\ ~PolicyFactsComplete(v) /\ ~FactsUnassessed(v)
    IN  [input |-> buildKeyInput(req, v), skipped |-> skipped,
         read |-> may.read /\ ~short, write |-> may.write /\ ~short,
         status |-> IF short THEN "uncached" ELSE may.status,
         reason |-> IF short THEN "external-facts-unavailable" ELSE may.reason]

-----------------------------------------------------------------------------
(* The store as one process sees it.                                         *)

Get(id) ==
    IF id \notin DOMAIN store THEN "missing"
    ELSE IF store[id].health \in {"corrupt", "incompatible"} THEN store[id].health ELSE "read"

Entry(id) == store[id].entry
Key(id) == canonical(Entry(id).input)

(* A pointer is only an index: what it leads to must carry the key and be     *)
(* reusable.  An entry of another schema is no hit and no damage.            *)
Lookup(key) ==
    IF key \notin DOMAIN pointers THEN "miss"
    ELSE CASE Get(pointers[key]) = "incompatible" -> "miss"
           [] Get(pointers[key]) \in {"missing", "corrupt"} -> "corrupt"
           [] OTHER -> IF /\ Key(pointers[key]) = key
                          /\ Entry(pointers[key]).reuse.kind = "reusable"
                       THEN "hit" ELSE "corrupt"

Expired(e) == config.ttl > 0 /\ clock - e.finished > config.ttl
payloadHealth(id) == store[id].health # "payload"

(* What Run does before it executes anything.                                *)
Fate(req, kc) ==
    LET key == canonical(kc.input)
        found == Lookup(key)
    IN  IF ~kc.read THEN "execute"
        ELSE IF found = "corrupt" THEN "error"
        ELSE IF found = "miss" THEN "execute"
        ELSE IF req.noFailures /\ Entry(pointers[key]).failed THEN "execute"
        ELSE IF Expired(Entry(pointers[key])) THEN "execute"
        ELSE IF payloadHealth(pointers[key]) THEN "replay" ELSE "error"

RunFate(req) == IF Conflict(req) THEN "conflict" ELSE Fate(req, buildKeyContext(req, TRUE))

-----------------------------------------------------------------------------
(* A run.                                                                    *)

After(w, end) ==
    [w EXCEPT !.tree = [p \in Places |-> IF p \in DOMAIN end.tree THEN end.tree[p] ELSE w.tree[p]],
              !.effect = IF end.effect = None THEN @ ELSE end.effect,
              !.reports = [p \in DOMAIN @ |-> IF end.report = None THEN @[p] ELSE end.report]]

observeMutation(req, pre, w, end) ==
    IF end.scanFails THEN "scan-failed"
    ELSE IF TreeHash(w, Observed(req)) # pre THEN "changed" ELSE "unchanged"

observeEffectMutation(pre, w) ==
    IF pre = Unavailable \/ w.effect = Unavailable THEN "unavailable"
    ELSE IF w.effect # pre THEN "changed" ELSE "unchanged"

postRunFactsReason(pre, post) ==
    IF ~FactsComplete(post) THEN "external-facts-unavailable-post-run"
    ELSE IF ~SameFacts(pre.facts, post) THEN "external-facts-changed" ELSE NoReason

(* Why a run is not reusable, the first that applies.  One that policy kept   *)
(* from caching keeps policy's reason whatever the command did.              *)
reuseFromOutcome(kc, publish, failedUncached, mutation, guard, factsReason) ==
    IF publish THEN Reusable
    ELSE IF ~kc.write THEN RecordOnly(kc.reason)
    ELSE IF mutation = "scan-failed" THEN UnknownPostState
    ELSE IF mutation = "changed" THEN NonReusable("mutated-state")
    ELSE IF guard = "changed" THEN NonReusable("effect-state-differs")
    ELSE IF guard = "unavailable" THEN NonReusable("effect-state-unavailable")
    ELSE IF factsReason # NoReason THEN NonReusable(factsReason)
    ELSE IF failedUncached THEN NonReusable("failed-not-cached")
    ELSE RecordOnly(kc.reason)

(* The entry of a command that ended so, in the world it left.               *)
Executed(req, kc, end) ==
    LET w == After(world, end)
        v == kc.input.validation
        failedUncached == end.failed /\ (~config.cacheFailed \/ req.noFailures)
        post == IF probesDeclared(v) /\ kc.write /\ ~failedUncached THEN acquire(w, v) ELSE None
        factsReason == IF post = None THEN NoReason ELSE postRunFactsReason(v, post)
        mutation == observeMutation(req, kc.input.tree, w, end)
        guard == observeEffectMutation(kc.input.effect, w)
        publish == /\ config.capture /\ kc.write /\ ~failedUncached
                   /\ mutation = "unchanged" /\ guard = "unchanged" /\ factsReason = NoReason
    IN  [id |-> clock, input |-> kc.input, started |-> clock, finished |-> clock + end.elapsed,
         failed |-> end.failed, skipped |-> kc.skipped,
         reuse |-> reuseFromOutcome(kc, publish, failedUncached, mutation, guard, factsReason),
         mutation |-> mutation, guard |-> guard, postRunFacts |-> post,
         before |-> kc.input.tree,
         after |-> IF end.scanFails THEN None ELSE TreeHash(w, Observed(req)),
         made |-> world]

With(f, k, v) == [x \in DOMAIN f \cup {k} |-> IF x = k THEN v ELSE f[x]]

(* Commit validates the finished entry before it publishes anything.         *)
Commit(e) ==
    IF Validate(e)
    THEN /\ store' = With(store, e.id, [entry |-> e, health |-> "ok"])
         /\ pointers' = IF e.reuse.kind = "reusable"
                        THEN With(pointers, canonical(e.input), e.id) ELSE pointers
         /\ last' = "stored"
    ELSE /\ UNCHANGED <<store, pointers>>
         /\ last' = IF e.finished < e.started THEN "outrun" ELSE "rejected"

Execute(req, end) ==
    LET e == Executed(req, buildKeyContext(req, TRUE), end)
    IN  /\ RunFate(req) = "execute"
        /\ clock \notin DOMAIN store
        /\ clock + end.elapsed \in 0..MaxClock
        /\ world' = After(world, end)
        /\ clock' = clock + end.elapsed
        /\ IF config.capture THEN Commit(e)
           ELSE UNCHANGED <<store, pointers>> /\ last' = "uncached"

-----------------------------------------------------------------------------
(* awa run rm.                                                               *)

Without(f, gone) == [k \in DOMAIN f \ gone |-> f[k]]

(* A pointer that a later run of the same key took over stays.               *)
pointerIsLiveRefresh(id, key) == Get(id) = "read" /\ canonical(Entry(id).input) = key

DeletedPointers(id) ==
    IF Get(id) # "read" THEN {k \in DOMAIN pointers : pointers[k] = id}
    ELSE {k \in {Key(id)} \cap DOMAIN pointers :
            pointers[k] = id \/ ~pointerIsLiveRefresh(pointers[k], k)}

(* An entry whose key another schema's entry took over is not removed.       *)
RmFails(id) ==
    /\ Get(id) = "read" /\ Key(id) \in DOMAIN pointers
    /\ pointers[Key(id)] # id /\ Get(pointers[Key(id)]) = "incompatible"

Rm(id) ==
    /\ id \in DOMAIN store /\ ~RmFails(id)
    /\ pointers' = Without(pointers, DeletedPointers(id))
    /\ store' = Without(store, {id})
    /\ UNCHANGED <<world, config, clock, last>>

(* With a filter, newest first; one entry that cannot be read stops it all.   *)
RmOlder(age) ==
    LET old == {id \in DOMAIN store : Entry(id).started < clock - age}
    IN  /\ \A id \in DOMAIN store : Get(id) = "read"
        /\ old # {}
        /\ pointers' = Without(pointers, {k \in DOMAIN pointers : \E id \in old :
                           /\ Key(id) = k
                           /\ pointers[k] \in old \/ ~pointerIsLiveRefresh(pointers[k], k)})
        /\ store' = Without(store, old)
        /\ UNCHANGED <<world, config, clock, last>>

-----------------------------------------------------------------------------
(* What happens between two runs.                                            *)

(* A file becomes unreadable, an entry of another version appears, a          *)
(* directory is deleted by hand.                                             *)
Damage(id, health) ==
    /\ id \in DOMAIN store /\ store[id].health = "ok"
    /\ store' = IF health = "missing" THEN Without(store, {id})
                ELSE [store EXCEPT ![id].health = health]
    /\ UNCHANGED <<world, config, pointers, clock, last>>

Edit ==
    /\ \/ \E p \in Places, c \in Contents \cup {Unreadable} : world' = [world EXCEPT !.tree[p] = c]
       \/ \E c \in Contents \cup {Unavailable} : world' = [world EXCEPT !.effect = c]
       \/ \E p \in DOMAIN world.reports, f \in Prints \cup {ProbeFailed} :
            world' = [world EXCEPT !.reports[p] = f]
       \/ \E c \in Contents : world' = [world EXCEPT !.env = c]
       \/ \E c \in Contents : world' = [world EXCEPT !.executable = c]
       \/ world' = [world EXCEPT !.granted = ~@]
    /\ world' # world
    /\ UNCHANGED <<config, store, pointers, clock, last>>

Reconfigure ==
    /\ \/ config' = [config EXCEPT !.capture = ~@]
       \/ config' = [config EXCEPT !.cacheFailed = ~@]
       \/ \E t \in {"fast", "normal"} : config' = [config EXCEPT !.trust = t]
       \/ \E t \in {0, 1} : config' = [config EXCEPT !.ttl = t]
       \/ \E p \in Policies : config' = [config EXCEPT !.policy = p]
       \/ \E s \in {{Root}} \cup {{p} : p \in Places} : config' = [config EXCEPT !.scope = s]
       \/ config' = [config EXCEPT !.version = "next"]
    /\ config' # config
    /\ UNCHANGED <<world, store, pointers, clock, last>>

Tick ==
    /\ clock < MaxClock /\ clock' = clock + 1
    /\ UNCHANGED <<world, config, store, pointers, last, odd>>

Plain(w) == CHOOSE c \in w : TRUE

HistoryInit ==
    /\ config \in Configs
    /\ \E c \in Contents, f \in Prints :
        /\ c = Plain(Contents) /\ f = Plain(Prints)
        /\ world = [tree |-> [p \in Places |-> c], effect |-> c, env |-> c, executable |-> c,
                    granted |-> TRUE,
                    reports |-> [p \in Probes |-> f]]
    /\ store = << >> /\ pointers = << >>
    /\ clock = 0 /\ last = "none" /\ odd = 0

(* Everything but an ordinary run of a harmless command is a departure.       *)
Departing(n) == odd + n <= MaxOdd /\ odd' = odd + n

Options(req) == Cardinality({f \in DOMAIN req : req[f] # Ordinary[f]})
Effects(end) == Cardinality({f \in DOMAIN end : end[f] # Harmless[f]})

Run == \E req \in Requests, end \in Endings :
    Departing(Options(req) + Effects(end)) /\ Execute(req, end) /\ UNCHANGED config

Remove == Departing(1) /\ \E id \in DOMAIN store : Rm(id)
RemoveOlder == Departing(1) /\ \E age \in 0..1 : RmOlder(age)
Decay == Departing(1) /\ \E id \in DOMAIN store,
    h \in {"payload", "corrupt", "incompatible", "missing"} : Damage(id, h)
Change == Departing(1) /\ Edit
Configure == Departing(1) /\ Reconfigure
ClockBack == Departing(1) /\ clock > 0 /\ clock' = clock - 1
             /\ UNCHANGED <<world, config, store, pointers, last>>

HistoryNext == Run \/ Remove \/ RemoveOlder \/ Decay \/ Change \/ Configure \/ Tick \/ ClockBack

HistorySpec == HistoryInit /\ [][HistoryNext]_historyVars
=============================================================================
