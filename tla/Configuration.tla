--------------------------- MODULE Configuration ---------------------------
(***************************************************************************)
(* The configuration a command runs under: three optional files read one   *)
(* after another while an editor may be rewriting them, folded key by key  *)
(* onto the product defaults, parsed, validated, and sealed together with  *)
(* where every value came from.                                            *)
(*                                                                         *)
(* A text is what the parsers of value.go tell apart: a number and a unit, *)
(* a word, a path by its components, a list element by its defect.         *)
(***************************************************************************)
EXTENDS Integers, Sequences, FiniteSets, SequencesExt

CONSTANTS
    Scale,      \* unit |-> how many of the smallest one it stands for
    MaxInt,     \* the largest number a size or a duration holds
    Contents,   \* what an editor may leave in a configuration file
    Rewrites,   \* what it writes while a load runs
    MaxEdits    \* BOUND: how many times a file changes during one load

VARIABLES
    files,      \* layer |-> what its file holds now
    explicitFile,      \* whether --config names a file
    trustFlag,       \* what --trust-mode says, or "none"
    reading,    \* the layers still to be read, in order
    overlays,   \* the layers read: <<[layer, wire], ...>>
    seen,       \* layer |-> what its file held when the load read it
    edits, loaded

configVars == <<files, explicitFile, trustFlag, reading, overlays, seen, edits, loaded>>

FileLayers == <<"shared", "local", "config">>
Precedence == <<"default">> \o FileLayers \o <<"flag">>
NoSuchFile == [kind |-> "absent"]
Unreadable == [kind |-> "unreadable"]
Malformed == [kind |-> "malformed"]
Overlay(wire) == [kind |-> "overlay", wire |-> wire]

(* Sizes and durations *)
Text(num, unit) == [num |-> num, unit |-> unit]
Garbled == Text(-1, "B")    \* no number, or a negative one
(* A parser yields one value, or none when it refuses. *)
NotParsed == <<>>
byteUnits == <<"TiB", "GiB", "MiB", "KiB", "B">>
durationUnits == <<"d", "h", "m", "s">>
(* Mutated: the product is not checked before it is taken. *)
ParseNumberUnchecked(text, units) ==
    IF text.unit \notin ToSet(units) \/ text.num < 0 THEN NotParsed
    ELSE <<((text.num * Scale[text.unit] + MaxInt + 1) % (2 * (MaxInt + 1))) - (MaxInt + 1)>>
ParseNumber(text, units) ==
    IF text.unit \notin ToSet(units) \/ text.num < 0 THEN NotParsed
    ELSE IF text.num > MaxInt \div Scale[text.unit] THEN NotParsed
    ELSE <<text.num * Scale[text.unit]>>
Bare(text) == IF text.unit = "" THEN [text EXCEPT !.unit = "B"] ELSE text
ParseByteSize(text) == ParseNumber(Bare(text), byteUnits)
ParseDuration(text) == ParseNumber(text, durationUnits)
(* A threshold is one size, or none when it is switched off. *)
Off == Text(0, "off")
ThresholdOff == <<>>
ParseByteThreshold(text) ==
    IF text = Off THEN <<ThresholdOff>>
    ELSE LET size == ParseByteSize(text) IN IF size \in {NotParsed, <<0>>} THEN NotParsed ELSE <<size>>
(* The coarsest unit that divides the value. *)
Rendered(v, units) ==
    IF v = 0 THEN Text(0, Last(units))
    ELSE LET fits == {i \in DOMAIN units : v % Scale[units[i]] = 0} IN
         IF fits = {} THEN Garbled
         ELSE LET i == CHOOSE i \in fits : \A j \in fits : i <= j IN
              Text(v \div Scale[units[i]], units[i])

(* The keys, by what can be wrong with their values. *)
Words == [trust |-> {"normal", "strict", "fast"}, policy |-> {"hash-only", "store", "skip"},
          algorithm |-> {"myers", "histogram"}, time |-> {"relative", "local", "utc"}]
WordKeys == ("hashing.trust_mode" :> "trust") @@ ("hashing.large_file_policy" :> "policy")
            @@ ("diff.algorithm" :> "algorithm") @@ ("ui.time" :> "time")
SizeKeys == {"hashing.max_file_size", "run.max_stdout_size", "run.max_stderr_size"}
ThresholdKeys == {"doctor.store_warning_size", "doctor.watched_root_warning_size"}
DurationKeys == {"run.ttl", "gc.keep_runs_for", "gc.keep_restores_for", "locks.timeout"}
ParsedKeys == DOMAIN WordKeys \cup SizeKeys \cup ThresholdKeys \cup DurationKeys
CountKeys == {"scope.symlink_max_depth", "checkpoint.diff_context", "gc.keep_last_checkpoints"}
SwitchesOn == {"scope.use_awaignore", "run.use_awaignore", "run.capture_output",
               "run.cache_failed_runs", "checkpoint.store_file_contents",
               "checkpoint.rename_detection"}
SwitchesOff == {"scope.use_gitignore", "scope.follow_symlinks",
                "scope.allow_symlink_root_escape", "run.use_gitignore"}
IncludeKeys == {"scope.include", "run.default_scope"}
ExcludeKeys == {"scope.extra_excludes", "history.extra_excludes", "run.extra_excludes"}
HashOnly == "checkpoint.hash_only_patterns"
ListKeys == IncludeKeys \cup ExcludeKeys
            \cup {HashOnly, "run.env_allowlist", "run.extra_effect_roots", "run.validation"}
Keys == ParsedKeys \cup CountKeys \cup SwitchesOn \cup SwitchesOff \cup ListKeys

Dir(parts) == [abs |-> FALSE, parts |-> parts, marks |-> {}]
EnvName(word, spelled) == [word |-> word, spelled |-> spelled]
DefaultWords == [trust |-> "normal", policy |-> "hash-only", algorithm |-> "histogram", time |-> "relative"]
Defaults == [k \in Keys |->
    CASE k \in DOMAIN WordKeys -> DefaultWords[WordKeys[k]]
      [] k = "doctor.watched_root_warning_size" -> ThresholdOff
      [] k = "doctor.store_warning_size" -> <<MaxInt \div 2>>
      [] k \in SizeKeys \cup DurationKeys -> MaxInt \div 2
      [] k \in CountKeys -> 3
      [] k \in SwitchesOn -> TRUE
      [] k \in SwitchesOff -> FALSE
      [] k \in IncludeKeys -> <<Dir(<<".">>)>>
      [] k = HashOnly -> <<"pattern">>
      [] k = "run.env_allowlist" -> <<EnvName("ci", "CI")>>
      [] OTHER -> <<>>]
DefaultOrigins == [k \in Keys |-> "default"]

Parsed(k, v) ==
    CASE k \in DOMAIN WordKeys -> IF v \in Words[WordKeys[k]] THEN <<v>> ELSE NotParsed
      [] k \in SizeKeys -> ParseByteSize(v)
      [] k \in ThresholdKeys -> ParseByteThreshold(v)
      [] k \in DurationKeys -> ParseDuration(v)
      [] OTHER -> <<v>>

(***************************************************************************)
(* Validation of the composed configuration.                               *)
(***************************************************************************)
Protected == {".git", ".awa"}
Cleaned(parts) ==
    FoldLeft(LAMBDA done, c :
        IF c \in {".", "empty"} THEN done
        ELSE IF c = ".." /\ done # <<>> /\ Last(done) # ".." THEN Front(done)
        ELSE Append(done, c), <<>>, parts)
escapesRoot(dir) == Cleaned(dir.parts) # <<>> /\ Cleaned(dir.parts)[1] = ".."
pathProblems(dirs) ==
    {i \in DOMAIN dirs : "blank" \in dirs[i].marks \/ dirs[i].abs \/ escapesRoot(dirs[i])}
NotClean(dir) ==
    \/ dir.abs \/ dir.marks # {}
    \/ \E i \in DOMAIN dir.parts : dir.parts[i] \in {"empty", ".", ".."} \cup Protected
effectRootSelectorProblem(dir) ==
    IF Len(dir.parts) = 1 /\ ~dir.abs /\ "slash" \notin dir.marks
    THEN dir.marks # {} \/ dir.parts[1] \in {".", ".."}
    ELSE NotClean(dir)
ValidationDirProblem(dir) == NotClean(dir)
validationCWDProblem(dir) == dir # Dir(<<".">>) /\ ValidationDirProblem(dir)
CarrierProblem(element, strict) == element = "linefeed" \/ (strict /\ element = "return")

Baseline == {"path", "home"}
OwnEnvName == "awa"
envAllowlistProblems(names) ==
    {i \in DOMAIN names :
        \/ names[i].word \in {"", "name=value", OwnEnvName} \cup Baseline
        \/ \E j \in 1..(i - 1) : names[j].word = names[i].word}

PathWithin(p, dir) == IsPrefix(dir.parts, p.parts)
MaxIdentityProbes == 2    \* BOUND: 8 in the source
Repeats(list, Value(_)) == \E i, j \in DOMAIN list : i < j /\ Value(list[i]) = Value(list[j])
Misnamed(name) == name \in {"", "padded"}
NoCommand(argv) == argv = <<>> \/ argv[1] = "" \/ "NUL" \in ToSet(argv)
identityProbeProblems(probes) ==
    \/ Len(probes) > MaxIdentityProbes
    \/ \E i \in DOMAIN probes : Misnamed(probes[i].name) \/ NoCommand(probes[i].argv)
    \/ Repeats(probes, LAMBDA p : p.name) \/ Repeats(probes, LAMBDA p : p.argv)
OverlappingDirs(dirs) ==
    \E i, j \in DOMAIN dirs : i < j /\ (PathWithin(dirs[i], dirs[j]) \/ PathWithin(dirs[j], dirs[i]))
(* Mutated: only the policies' names have to differ. *)
validationProblemsByName(policies) ==
    \/ \E i \in DOMAIN policies : LET p == policies[i] IN
        \/ Misnamed(p.name) \/ NoCommand(p.argv) \/ validationCWDProblem(p.cwd)
        \/ p.dirs = <<>> \/ \E j \in DOMAIN p.dirs : ValidationDirProblem(p.dirs[j])
        \/ OverlappingDirs(p.dirs) \/ identityProbeProblems(p.probes)
    \/ Repeats(policies, LAMBDA p : p.name)
validationProblems(policies) ==
    \/ \E i \in DOMAIN policies : LET p == policies[i] IN
        \/ Misnamed(p.name) \/ NoCommand(p.argv) \/ validationCWDProblem(p.cwd)
        \/ p.dirs = <<>> \/ \E j \in DOMAIN p.dirs : ValidationDirProblem(p.dirs[j])
        \/ OverlappingDirs(p.dirs) \/ identityProbeProblems(p.probes)
    \/ Repeats(policies, LAMBDA p : p.name)
    \/ Repeats(policies, LAMBDA p : <<p.cwd, p.argv>>)

Problem(k, v) ==
    CASE k \in DOMAIN WordKeys -> v \notin Words[WordKeys[k]]
      [] k \in SizeKeys -> v <= 0
      [] k \in ThresholdKeys -> v # ThresholdOff /\ v[1] <= 0
      [] k \in DurationKeys \cup CountKeys -> v < 0
      [] k \in IncludeKeys -> v = <<>> \/ pathProblems(v) # {}
      [] k \in ExcludeKeys -> \E i \in DOMAIN v : v[i] = "blank" \/ CarrierProblem(v[i], FALSE)
      [] k = HashOnly -> \E i \in DOMAIN v : v[i] = "blank" \/ CarrierProblem(v[i], TRUE)
      [] k = "run.extra_effect_roots" -> \E i \in DOMAIN v : effectRootSelectorProblem(v[i])
      [] k = "run.env_allowlist" -> envAllowlistProblems(v) # {}
      [] k = "run.validation" -> validationProblems(v)
      [] OTHER -> FALSE
Validate(cfg) == {k \in Keys : Problem(k, cfg[k])}
CheckPatterns(elements) == {i \in DOMAIN elements : elements[i] = "never"}

(***************************************************************************)
(* Composition.                                                            *)
(***************************************************************************)
Loaded(cfg, origins, layers) == [kind |-> "loaded", cfg |-> cfg, origins |-> origins, layers |-> layers]
Failure(what, layer, keys) == [kind |-> what, layer |-> layer, keys |-> keys]
NotYet == [kind |-> "not yet"]

(* One layer: the first key in the order of the source that does not parse  *)
(* ends it, whichever that is.                                              *)
(* Mutated: a key the layer below set keeps its origin. *)
applyOverlayLate(acc, o) ==
    LET bad == {k \in DOMAIN o.wire \cap ParsedKeys : Parsed(k, o.wire[k]) = NotParsed} IN
    IF acc.kind # "loaded" THEN acc
    ELSE IF bad # {} THEN Failure("not parsed", o.layer, bad)
    ELSE Loaded([k \in Keys |-> IF k \in DOMAIN o.wire THEN Parsed(k, o.wire[k])[1] ELSE acc.cfg[k]],
                [k \in Keys |-> IF k \in DOMAIN o.wire /\ acc.origins[k] = "default"
                                THEN o.layer ELSE acc.origins[k]], {})
applyOverlay(acc, o) ==
    LET bad == {k \in DOMAIN o.wire \cap ParsedKeys : Parsed(k, o.wire[k]) = NotParsed} IN
    IF acc.kind # "loaded" THEN acc
    ELSE IF bad # {} THEN Failure("not parsed", o.layer, bad)
    ELSE Loaded([k \in Keys |-> IF k \in DOMAIN o.wire THEN Parsed(k, o.wire[k])[1] ELSE acc.cfg[k]],
                [k \in Keys |-> IF k \in DOMAIN o.wire THEN o.layer ELSE acc.origins[k]], {})
Compose(list) ==
    LET composed == FoldLeft(applyOverlay, Loaded(Defaults, DefaultOrigins, {}), list) IN
    IF composed.kind # "loaded" THEN composed
    ELSE LET bad == Validate(composed.cfg) IN
         IF bad = {} THEN composed ELSE Failure("invalid", "none", bad)

layerFacts == [l \in {FileLayers[i] : i \in IF explicitFile THEN 1..3 ELSE 1..2} |->
                  \E i \in DOMAIN overlays : overlays[i].layer = l]
changedKeys(cfg) == {k \in Keys : cfg[k] # Defaults[k]}
NewResolvedConfig(cfg, origins, facts) ==
    IF \/ Validate(cfg) # {}
       \/ \E k \in Keys : \/ origins[k] \in ToSet(FileLayers)
                             /\ ~(origins[k] \in DOMAIN facts /\ facts[origins[k]])
                          \/ origins[k] = "default" /\ k \in changedKeys(cfg)
    THEN Failure("inconsistent", "none", {})
    ELSE Loaded(cfg, origins, facts)
Resolved ==
    LET c == Compose(overlays) IN
    IF c.kind # "loaded" THEN c
    ELSE IF CheckPatterns(c.cfg[HashOnly]) # {} THEN Failure("never matches", "none", {HashOnly})
    ELSE IF trustFlag = "none" THEN NewResolvedConfig(c.cfg, c.origins, layerFacts)
    ELSE NewResolvedConfig([c.cfg EXCEPT !["hashing.trust_mode"] = trustFlag],
                           [c.origins EXCEPT !["hashing.trust_mode"] = "flag"], layerFacts)

(***************************************************************************)
(* The load, and the editor beside it.                                     *)
(***************************************************************************)
LoadInit ==
    /\ explicitFile \in BOOLEAN /\ trustFlag \in {"none", "strict"}
    /\ files \in [ToSet(FileLayers) -> Contents]
    /\ explicitFile \/ files["config"] = NoSuchFile
    /\ reading = (IF explicitFile THEN FileLayers ELSE Front(FileLayers))
    /\ overlays = <<>> /\ seen = <<>> /\ edits = 0 /\ loaded = NotYet

Edit(l) ==
    /\ edits < MaxEdits /\ loaded = NotYet /\ edits' = edits + 1
    /\ explicitFile \/ l # "config"
    /\ \E c \in Rewrites \ {files[l]} : files' = [files EXCEPT ![l] = c]
    /\ UNCHANGED <<explicitFile, trustFlag, reading, overlays, seen, loaded>>

(* One file; an optional one may be missing, the one --config names may not. *)
ReadOverlay ==
    /\ loaded = NotYet /\ reading # <<>>
    /\ LET l == Head(reading)  c == files[l] IN
       /\ seen' = Append(seen, [layer |-> l, held |-> c])
       /\ reading' = Tail(reading)
       /\ overlays' = IF c.kind = "overlay" THEN Append(overlays, [layer |-> l, wire |-> c.wire])
                      ELSE overlays
       /\ loaded' = IF c.kind \in {"unreadable", "malformed"} THEN Failure(c.kind, l, {})
                    ELSE IF c = NoSuchFile /\ l = "config" THEN Failure("missing", l, {})
                    ELSE NotYet
    /\ UNCHANGED <<files, explicitFile, trustFlag, edits>>

LoadLayered ==
    /\ loaded = NotYet /\ reading = <<>>
    /\ loaded' = Resolved
    /\ UNCHANGED <<files, explicitFile, trustFlag, reading, overlays, seen, edits>>

LoadNext == (\E l \in ToSet(FileLayers) : Edit(l)) \/ ReadOverlay \/ LoadLayered

(***************************************************************************)
(* Properties.                                                             *)
(***************************************************************************)
(* What the file of a layer held when it was read, and who speaks last.     *)
Held(l) == LET i == CHOOSE i \in DOMAIN seen : seen[i].layer = l IN seen[i].held
ReadLayers == {seen[i].layer : i \in DOMAIN seen}
Says(l, k) == l \in ReadLayers /\ Held(l).kind = "overlay" /\ k \in DOMAIN Held(l).wire
Speakers(k) == (IF k = "hashing.trust_mode" /\ trustFlag # "none" THEN {"flag"} ELSE {})
               \cup {l \in ReadLayers : Says(l, k)} \cup {"default"}
Rank(l) == CHOOSE i \in DOMAIN Precedence : Precedence[i] = l
LastSpeaker(k) == CHOOSE l \in Speakers(k) : \A m \in Speakers(k) : Rank(m) <= Rank(l)
(* The number a text stands for, were numbers unbounded. *)
Worth(text, units) == text.num * Scale[text.unit]
Meant(k, text) ==
    CASE k \in SizeKeys -> Worth(Bare(text), byteUnits)
      [] k \in ThresholdKeys -> IF text = Off THEN ThresholdOff ELSE <<Worth(Bare(text), byteUnits)>>
      [] k \in DurationKeys -> Worth(text, durationUnits)
      [] OTHER -> text
Written(k, l) ==
    IF l = "default" THEN Defaults[k]
    ELSE IF l = "flag" THEN trustFlag ELSE Meant(k, Held(l).wire[k])

(* A loaded configuration holds, for every key, exactly what the last layer *)
(* that speaks of it said when it was read (sizes and durations to the      *)
(* number), says so in its provenance, and what `config effective` prints   *)
(* of it reads back as the same value; a refused one names a layer or a key *)
(* that is really at fault, and the sealing constructor never has to refuse *)
(* what the loader composed (LoadLayered, Compose, NewResolvedConfig).      *)
ConfigurationIsWhatWasWritten ==
    /\ loaded.kind = "loaded" =>
        /\ \A k \in Keys : loaded.origins[k] = LastSpeaker(k)
                           /\ loaded.cfg[k] = Written(k, LastSpeaker(k))
        /\ \A l \in DOMAIN loaded.layers : loaded.layers[l] = (Held(l).kind = "overlay")
        /\ \A k \in SizeKeys : ParseByteSize(Rendered(loaded.cfg[k], byteUnits)) = <<loaded.cfg[k]>>
        /\ \A k \in DurationKeys \ {k \in Keys : loaded.origins[k] = "default"} :
               ParseDuration(Rendered(loaded.cfg[k], durationUnits)) = <<loaded.cfg[k]>>
    /\ loaded.kind \in {"unreadable", "malformed"} => Held(loaded.layer).kind = loaded.kind
    /\ loaded.kind = "missing" => explicitFile /\ Held("config") = NoSuchFile
    /\ loaded.kind \in {"not parsed", "invalid", "never matches"} => loaded.keys # {}
    /\ loaded.kind = "not parsed" => \A k \in loaded.keys : Says(loaded.layer, k)
    /\ loaded.kind \in {"invalid", "never matches"} =>
        \A k \in loaded.keys : LastSpeaker(k) # "default"
    /\ loaded.kind # "inconsistent"

Selected(argv, cwd) ==
    {i \in DOMAIN loaded.cfg["run.validation"] :
        loaded.cfg["run.validation"][i].argv = argv /\ loaded.cfg["run.validation"][i].cwd = cwd}
(* How far below the root a walk along the components ends. *)
DepthWanted(parts) == FoldLeft(LAMBDA d, c : IF c \in {".", "empty"} THEN d ELSE IF c = ".." THEN d - 1 ELSE d + 1, 0, parts)

(* Of an accepted configuration no choice is left open: a command line and  *)
(* a directory select at most one validation policy, no path is waived      *)
(* twice by it, no two allowed environment names are one on a platform that *)
(* folds case, and no included path leads out of the project                *)
(* (SelectValidation, validationProblems, envAllowlistProblems,             *)
(* pathProblems).                                                           *)
AcceptedIsUnambiguous ==
    loaded.kind = "loaded" =>
        LET policies == loaded.cfg["run.validation"]  names == loaded.cfg["run.env_allowlist"] IN
        /\ \A i \in DOMAIN policies :
            /\ Selected(policies[i].argv, policies[i].cwd) = {i}
            /\ \A d, e \in DOMAIN policies[i].dirs :
                 d # e => ~IsPrefix(policies[i].dirs[d].parts, policies[i].dirs[e].parts)
        /\ \A i, j \in DOMAIN names : names[i].word = names[j].word => i = j
        /\ \A k \in IncludeKeys : \A i \in DOMAIN loaded.cfg[k] :
            LET dir == loaded.cfg[k][i] IN
            ~dir.abs /\ \A n \in DOMAIN dir.parts : DepthWanted(SubSeq(dir.parts, 1, n)) >= 0

(* What was loaded is what was written, and leaves no choice open. *)
ConfigurationIsSound == ConfigurationIsWhatWasWritten /\ AcceptedIsUnambiguous
=============================================================================
