-------------------------- MODULE CommandSession --------------------------
(* One awa process from the words it was typed to its exit status           *)
(* (internal/cli: Run of router.go and the command handlers; output.Writer; *)
(* main's context).  A handler is a sequence of steps; each may fail with   *)
(* the exit codes its error classifier gives, may be stopped by Ctrl+C, and *)
(* may leave something changed.  What is on stdout and what the exit status *)
(* says must agree, at whatever step the process is stopped and whenever    *)
(* stdout breaks.                                                           *)
EXTENDS CommandLine

CONSTANTS
    ChildCodes,   \* exit statuses of a wrapped command
    MaxRouted     \* bound of the run: longest line that is also executed

ASSUME SessionAssumption == ChildCodes \subseteq 0 .. 255 /\ MaxRouted \in Nat

VARIABLES
    req,        \* the request being executed
    at,         \* the step the handler is at
    result,     \* the code the handler returned, or Pending
    cause,      \* why it stopped early: "none", "failed" or "interrupted"
    cancelled,  \* the root context is cancelled: Ctrl+C
    did,        \* what has been changed
    printed,    \* of the answer on stdout: "none", "part" or "whole"
    werr,       \* the writer has seen stdout fail
    exit        \* the exit status, or Pending

sessionVars == <<req, at, result, cause, cancelled, did, printed, werr, exit>>
vars == <<lineVars, sessionVars>>

Pending == 0 - 1
Interrupted == 130
LockTimeout == 6
Killed == 137

(******************************* the steps ********************************)
(* codes: the exit codes a failure of the step can give; 130 is among them  *)
(* when the step watches the context.  changes: what it leaves changed.     *)
(* effect: "whole" leaves its changes when it passes and some of them when  *)
(* it fails, "atomic" none when it fails, "perhaps" may find nothing to do. *)
Step(act, codes, changes, effect) ==
    [act |-> act, codes |-> codes, changes |-> changes, effect |-> effect]
Do(act, codes) == Step(act, codes, {}, "whole")
Doing(act, codes, changes) == Step(act, codes, changes, "whole")
Atomically(act, codes, changes) == Step(act, codes, changes, "atomic")
Perhaps(act, codes, changes) == Step(act, codes, changes, "perhaps")
When(condition, step) == IF condition THEN <<step>> ELSE <<>>

Arguments == Do("read the arguments", {2})
Resolve == Do("resolve the project", {1})
Override(r) == When(r.override, Do("find the --config file", {1, 3}))
Load == Do("load the layers", {1, 3, 4})
ProjectLayers(r) == Override(r) \o <<Load>>
ProjectConfig(r) == <<Resolve>> \o ProjectLayers(r)

(* A command that writes refuses to grow an unguarded directory; one that   *)
(* only reads warns.  Both restore a guard that is merely missing.          *)
Guard(strict) ==
    Perhaps("guard the state directory", IF strict THEN {1} ELSE {}, {"guard"})

WaitForLock == Do("wait for the lock", {1, LockTimeout})
WorkingDirectory == Do("find the current directory", {1})
PathFilters == Do("normalise the paths", {1, 2})
StateCodes == {1, 2, 3, 5, Interrupted}
RunCodes == StateCodes
KeyCodes == RunCodes \cup {4}
Answer == Do("answer", {})
AnswerStream == Do("answer", StateCodes)

(****************************** the handlers *******************************)
InitProject(r) ==
    <<Arguments, Do("find the root", {1}), Doing("create the project", {1}, {"project"}), Answer>>

(* The dashboard's review is best effort: what cannot be had is left out.   *)
Status(r) ==
    <<Arguments>> \o ProjectConfig(r) \o
    <<Guard(FALSE), Do("collect the durable facts", {1, 3, 4, Interrupted}), Do("review", {}),
      Answer>>

Checkpoint(r) ==
    <<Arguments, Resolve, Guard(TRUE)>> \o ProjectLayers(r) \o
    <<Perhaps("open the worktree index", {5}, {"index"}), WorkingDirectory, WaitForLock,
      Doing("scan and store the contents", {1, 5, Interrupted}, {"index", "blobs"}),
      Doing("publish the checkpoint", {1, 5}, {"checkpoint"}), Answer>>

(* log reads its two layers itself and calls every failure a config error.  *)
Log(r) ==
    <<Arguments, Resolve, Do("load the layers", {4}),
      Do(IF r.mode = "timeline" THEN "merge the histories" ELSE "walk the headers",
         {1, 5, Interrupted}), Answer>>

(* Both stream: what cannot be compared may show after half of the answer.  *)
Comparison(r) ==
    <<Arguments>> \o ProjectConfig(r) \o
    <<PathFilters, Do("resolve and compare", StateCodes), AnswerStream>>

Restore(r) ==
    LET apply == r.mode = "apply"
    IN <<Arguments>> \o ProjectConfig(r) \o <<Guard(apply), PathFilters>>
       \o When(apply, WaitForLock) \o When(apply, WaitForLock)
       \o <<Do("observe and plan", StateCodes)>>
       \o When(apply, Doing("record the recovery observation", {1, 5}, {"blobs", "recovery"}))
       \o When(apply, Perhaps("apply the operations", {}, {"worktree"})) \o <<Answer>>

(* Mutated: the document is written before the stored output is replayed.   *)
HastyReplayHit(r) == <<Answer, Do("replay the output", {1, 5})>>

(* A hit replays the stored output, both streams opened, and so verified,   *)
(* before a byte of either is copied; in JSON nothing is replayed.          *)
ReplayHit(r) == When(~r.json, Do("replay the output", {1, 5})) \o <<Answer>>

(* An interrupted child is recorded like any other: only what must not be   *)
(* taken for a finished run is refused.                                     *)
RunMiss(r) ==
    <<Doing("begin the run", {1}, {"run dir"}), Do("see whether to start", {Interrupted}),
      Doing("execute the command", {1}, {"child"}), Do("finish the capture", {1}),
      Perhaps("observe again", {1, Interrupted}, {"index"}),
      Do("stage the manifests", {1, 5, Interrupted}), Doing("publish the run", {1, 5}, {"run"}),
      Do("diagnose", {}), Answer>>

Run(r) ==
    ProjectConfig(r) \o
    <<Guard(TRUE), WorkingDirectory, Do("resolve the child's directory", {1, 2}),
      Do("resolve the scope", {1, 2}), WaitForLock,
      Perhaps("observe and derive the key", KeyCodes, {"index"}),
      Do("look up", {1, 5, Interrupted})>>
    \o IF r.mode = "hit" THEN ReplayHit(r) ELSE RunMiss(r)

RunExplainOf(r) ==
    ProjectConfig(r) \o
    (IF r.mode = "command"
       THEN <<WorkingDirectory, Do("resolve the child's directory", {1, 2}),
              Do("resolve the scope", {1, 2})>>
       ELSE <<>>)
    \o <<Do("explain", KeyCodes), Answer>>

RunLs(r) == <<Arguments>> \o ProjectConfig(r) \o <<Do("list and assess", KeyCodes), Answer>>
RunLog(r) == <<Arguments>> \o ProjectConfig(r) \o <<Do("list", RunCodes), Answer>>
RunAudit(r) == <<Arguments>> \o ProjectConfig(r) \o <<Do("audit", RunCodes), Answer>>

(* run show never loads a configuration, and what it copies comes from a    *)
(* stream verified when it was opened.                                      *)
RunShow(r) ==
    <<Arguments, Resolve, Do("resolve the run", RunCodes), Do("read the record", RunCodes)>>
    \o When(r.mode # "metadata", Do("open the stored output", {1, 5})) \o <<Answer>>

(* Mutated: each reference is resolved only when its turn to go comes.      *)
HastyRunRm(r) ==
    <<Arguments>> \o ProjectConfig(r) \o
    IF r.mode = "dry-run" THEN <<Do("resolve every target", RunCodes), Answer>>
    ELSE <<WaitForLock, Perhaps("delete the targets", RunCodes, {"removed"}), Answer>>

(* Every target is resolved before the first is deleted.  One that another  *)
(* process deletes meanwhile is not found, with some already gone.          *)
RunRm(r) ==
    <<Arguments>> \o ProjectConfig(r) \o <<Do("resolve every target", RunCodes)>> \o
    IF r.mode = "dry-run" THEN <<Answer>>
    ELSE <<WaitForLock, Perhaps("delete the targets", {1, 3, 5}, {"removed"}), Answer>>

(* What a lock or a damaged store forbids is a plan with blocked candidates *)
(* and no failure; the verdict says so.                                     *)
Gc(r) ==
    <<Arguments>> \o ProjectConfig(r) \o
    IF r.mode = "dry-run" THEN <<Do("plan", {1, 5, Interrupted}), Answer>>
    ELSE <<WaitForLock, Do("plan", {1, 5, Interrupted}), Perhaps("sweep", {}, {"removed"}), Answer>>

Doctor(r) ==
    <<Arguments, Resolve>> \o ProjectLayers(r) \o <<Do("check", {1, Interrupted})>>
    \o (IF r.mode = "repair"
          THEN <<WaitForLock, Perhaps("repair", {Interrupted}, {"guard", "repaired"})>> ELSE <<>>)
    \o <<Answer>>

(* With a --config file of its own a config subcommand needs no project.    *)
ConfigLayerFiles(r) == Override(r) \o When(~r.override, Resolve)
ConfigPath(r) == <<Arguments>> \o ConfigLayerFiles(r) \o <<Answer>>
ConfigShow(r) == ConfigLayerFiles(r) \o <<Arguments, Do("read the layer", {1}), Answer>>
ConfigEffective(r) ==
    <<Arguments>> \o ConfigLayerFiles(r) \o <<Load, Do("inspect the grant", {}), Answer>>
ConfigValidate(r) ==
    <<Arguments>> \o ConfigLayerFiles(r) \o <<Load, Do("compile the patterns", {1}), Answer>>
ConfigTemplate(r) == <<Arguments, Answer>>
ConfigInit(r) ==
    <<Arguments, Resolve, Doing("write the scaffold", {1}, {"config"}), Answer>>
ConfigProbes(r) ==
    <<Arguments, Resolve>> \o
    IF r.mode = "revoke" THEN <<Perhaps("remove the grant", {1}, {"grant"}), Answer>>
    ELSE ConfigLayerFiles(r) \o <<Load, Doing("record the grant", {1}, {"grant"}), Answer>>

(* Where there is no project the external provider says so in its document. *)
(* Only a "now" side needs a configuration.                                 *)
StateQuery(r) ==
    <<Arguments>> \o
    IF ~r.inside THEN <<Answer>>
    ELSE (IF r.mode = "now" THEN ProjectLayers(r) ELSE <<>>) \o
         <<Do("assess", {1, Interrupted}), Answer>>

(* The destination must not exist and is made in one step; the manifest     *)
(* that marks the bundle complete comes last.                               *)
DocsExport(r) ==
    <<Arguments, Do("render the bundle", {1}), Do("check the destination", {1, 2, Interrupted}),
      Atomically("reserve the destination", {1, 2}, {"bundle"}),
      Do("write the documents", {1, Interrupted}),
      Atomically("install the manifest", {1, Interrupted}, {"manifest"}), Answer>>

Steps(r) ==
    LET h == r.handler
    IN CASE h = <<"init">> -> InitProject(r)
         [] h = <<"status">> -> Status(r)
         [] h = <<"checkpoint">> -> Checkpoint(r)
         [] h = <<"log">> -> Log(r)
         [] h \in {<<"changes">>, <<"diff">>} -> Comparison(r)
         [] h = <<"restore">> -> Restore(r)
         [] h = <<"run">> -> Run(r)
         [] h = <<"run", "explain">> -> RunExplainOf(r)
         [] h = <<"run", "ls">> -> RunLs(r)
         [] h = <<"run", "log">> -> RunLog(r)
         [] h = <<"run", "audit">> -> RunAudit(r)
         [] h = <<"run", "show">> -> RunShow(r)
         [] h = <<"run", "rm">> -> RunRm(r)
         [] h = <<"gc">> -> Gc(r)
         [] h = <<"doctor">> -> Doctor(r)
         [] h = <<"config", "path">> -> ConfigPath(r)
         [] h = <<"config", "show">> -> ConfigShow(r)
         [] h = <<"config", "effective">> -> ConfigEffective(r)
         [] h = <<"config", "validate">> -> ConfigValidate(r)
         [] h = <<"config", "template">> -> ConfigTemplate(r)
         [] h = <<"config", "init">> -> ConfigInit(r)
         [] h = <<"config", "probes">> -> ConfigProbes(r)
         [] h \in {<<"state", "resolve">>, <<"state", "compare">>} -> StateQuery(r)
         [] h = <<"docs", "export">> -> DocsExport(r)
         [] OTHER -> <<Arguments, Answer>>   \* help, version

(* The flags of a command that change its course. *)
Modes(h) ==
    CASE h = <<"log">> -> {"headers", "timeline"}
      [] h = <<"restore">> -> {"preview", "apply"}
      [] h = <<"run">> -> {"hit", "miss"}
      [] h = <<"run", "show">> -> {"metadata", "raw", "tail"}
      [] h = <<"run", "rm">> -> {"dry-run", "remove"}
      [] h = <<"gc">> -> {"dry-run", "collect"}
      [] h = <<"doctor">> -> {"check", "repair"}
      [] h = <<"config", "probes">> -> {"allow", "revoke"}
      [] h \in {<<"state", "resolve">>, <<"state", "compare">>} -> {"stored", "now"}
      [] OTHER -> {"plain"}

(* What a handler that got through returns. *)
Verdicts(r) ==
    CASE r.handler = <<"run">> ->
            ChildCodes \cup (IF r.mode = "miss" /\ cancelled THEN {Killed} ELSE {})
      [] r.handler = <<"doctor">> -> {0, 5}
      [] r.handler = <<"gc">> ->
            {0} \cup (IF "removed" \in did THEN {} ELSE {5})
                \cup (IF r.mode = "collect" THEN {1} ELSE {})
      [] r.handler = <<"restore">> /\ r.mode = "apply" ->
            {0, 1} \cup (IF cancelled /\ "worktree" \notin did THEN {Interrupted} ELSE {})
      [] OTHER -> {0}

(****************************** the process ********************************)
NoRequest == [handler |-> <<>>]
SessionInit ==
    /\ req = NoRequest /\ at = 1 /\ result = Pending /\ cause = "none" /\ cancelled = FALSE
    /\ did = {} /\ printed = "none" /\ werr = FALSE /\ exit = Pending

Executing == req # NoRequest /\ result = Pending
More == at <= Len(Steps(req))
AtStep(act) == Executing /\ More /\ Steps(req)[at].act = act

(* The routed line becomes a request; the flags of the command itself and   *)
(* whether there is a project are chosen.                                   *)
Begin ==
    /\ answer.kind \in {"command", "child"} /\ req = NoRequest /\ Len(typed) <= MaxRouted
    /\ \E mode \in IF answer.handler = <<"run", "explain">>
                     THEN {IF answer.kind = "child" THEN "command" ELSE "stored"}
                     ELSE Modes(answer.handler), inside \in BOOLEAN :
          req' = [handler |-> answer.handler, json |-> "json" \in answer.given,
                  override |-> "config" \in answer.given, mode |-> mode, inside |-> inside]
    /\ UNCHANGED <<lineVars, at, result, cause, cancelled, did, printed, werr, exit>>

Interrupt ==
    /\ Executing /\ ~cancelled /\ cancelled' = TRUE
    /\ UNCHANGED <<lineVars, req, at, result, cause, did, printed, werr, exit>>

Left(step, passed) ==
    CASE step.effect = "atomic" -> {IF passed THEN step.changes ELSE {}}
      [] step.effect = "whole" /\ passed -> {step.changes}
      [] OTHER -> SUBSET step.changes

Pass ==
    /\ Executing /\ More
    /\ LET step == Steps(req)[at]
       IN /\ step.act # "answer"
          /\ step = Resolve => req.inside
          /\ \E left \in Left(step, TRUE) : did' = did \cup left
    /\ at' = at + 1
    /\ UNCHANGED <<lineVars, req, result, cause, cancelled, printed, werr, exit>>

Stop(code, why) ==
    /\ result' = code /\ cause' = why
    /\ UNCHANGED <<lineVars, req, at, cancelled, exit>>

Fail ==
    /\ Executing /\ More
    /\ LET step == Steps(req)[at]
       IN /\ step.act # "answer"
          /\ \E code \in step.codes :
                /\ code = Interrupted => cancelled
                /\ Stop(code, IF code = Interrupted THEN "interrupted" ELSE "failed")
          /\ \E left \in Left(step, FALSE) : did' = did \cup left
    /\ UNCHANGED <<printed, werr>>

(* The lock library calls every abandoned wait a timeout; only the acquirer *)
(* of doctor's repair asks whether the root context was cancelled.          *)
AbandonWait ==
    /\ AtStep("wait for the lock") /\ cancelled
    /\ Stop(IF req.handler = <<"doctor">> THEN Interrupted ELSE LockTimeout, "interrupted")
    /\ UNCHANGED <<did, printed, werr>>

(* Every command says "not found" where there is no project, but run show   *)
(* takes that error for one of the run store.                               *)
NoProject ==
    /\ AtStep("resolve the project") /\ ~req.inside
    /\ Stop(IF req.handler = <<"run", "show">> THEN 1 ELSE 3, "failed")
    /\ UNCHANGED <<did, printed, werr>>

(* The writer keeps the first failed write and goes on; a stream stops at   *)
(* the element it cannot read and leaves its document open.                 *)
GiveAnswer ==
    /\ AtStep("answer")
    /\ LET step == Steps(req)[at]
       IN \/ /\ printed' = "whole" /\ werr' = werr
             /\ UNCHANGED <<result, cause>>
          \/ /\ printed' \in {"none", "part"} /\ werr' = TRUE
             /\ UNCHANGED <<result, cause>>
          \/ \E code \in step.codes :
                /\ code = Interrupted => cancelled
                /\ result' = code
                /\ cause' = IF code = Interrupted THEN "interrupted" ELSE "failed"
                /\ printed' \in {"none", "part"} /\ werr' \in BOOLEAN
    /\ at' = at + 1
    /\ UNCHANGED <<lineVars, req, cancelled, did, exit>>

(* What goes to stdout past the writer fails unseen: the tail of a stored   *)
(* stream, and a wrapped command's own lines.                               *)
PastTheWriter(r) ==
    ~r.json /\ <<r.handler, r.mode>> \in {<<<<"run">>, "hit">>, <<<<"run">>, "miss">>,
                                         <<<<"run", "show">>, "tail">>}
LoseAnswer ==
    /\ AtStep("answer") /\ PastTheWriter(req)
    /\ printed' \in {"none", "part"} /\ at' = at + 1
    /\ UNCHANGED <<lineVars, req, result, cause, cancelled, did, werr, exit>>

Return ==
    /\ Executing /\ ~More
    /\ result' \in Verdicts(req)
    /\ UNCHANGED <<lineVars, req, at, cause, cancelled, did, printed, werr, exit>>

(* An error of awa's own is its code; a success, or a verdict whose answer  *)
(* could not be written, is a failure.                                      *)
Exit ==
    /\ req # NoRequest /\ result # Pending /\ exit = Pending
    /\ LET error == cause # "none" \/ (req.handler = <<"restore">> /\ result # 0)
       IN exit' = IF werr /\ ~error THEN 1 ELSE result
    /\ UNCHANGED <<lineVars, req, at, result, cause, cancelled, did, printed, werr>>

(* A refused line exits 2 with nothing on stdout; a page is help. *)
Reply ==
    /\ answer.kind \in {"refused", "page"} /\ exit = Pending
    /\ printed' \in IF answer.kind = "refused" THEN {"none"} ELSE {"part", "whole"}
    /\ werr' = (printed' = "part")
    /\ exit' = IF answer.kind = "refused" THEN 2 ELSE IF werr' THEN 1 ELSE 0
    /\ UNCHANGED <<lineVars, req, at, result, cause, cancelled, did>>

SessionNext ==
    \/ Begin \/ Interrupt \/ Pass \/ Fail \/ AbandonWait \/ NoProject
    \/ GiveAnswer \/ LoseAnswer \/ Return \/ Exit \/ Reply

(* A session begins with nothing done; its line may be half typed, or have  *)
(* come to any answer.                                                      *)
CommandNext == (LineNext /\ UNCHANGED sessionVars) \/ SessionNext
SessionSpec == SessionInit /\ [][CommandNext]_vars

(******************************* properties ********************************)
(* What the exit status says is what happened.  0 means that nothing failed *)
(* and the whole answer is on stdout (but for what is written past the      *)
(* writer).  A complete JSON document is never followed by a failure of     *)
(* awa: its exit is the command's own verdict.  And 130 means that nothing  *)
(* authoritative was published or deleted (router.go: Run; output.go;       *)
(* exit-codes.md: 130).                                                     *)
Published == {"checkpoint", "run", "removed", "manifest"}
ExitTellsWhatHappened ==
    exit # Pending =>
      /\ exit = 0 =>
            /\ cause = "none"
            /\ printed = "whole" \/ (req # NoRequest /\ PastTheWriter(req))
      /\ req # NoRequest /\ req.json /\ printed = "whole" => cause = "none" /\ exit = result
      /\ req # NoRequest /\ cause = "interrupted" => did \cap Published = {}

(* A command awa refuses, for its words, for what it names or for its       *)
(* configuration, has changed nothing but the guard it restores and the     *)
(* index it opens.  The one that can find out late that something it names  *)
(* is gone is run rm, when another process removes the run under it         *)
(* (run_subcommands.go: runRunRm; rm.go: Rm; docsexport.go: Publish).       *)
RefusalsChangeNothing ==
    cause = "failed" /\ result \in {2, 3, 4} =>
        \/ did \subseteq {"guard", "index"}
        \/ result = 3 /\ req.handler = <<"run", "rm">>

(* The exit status tells what happened, and a refusal that nothing did. *)
ExitIsHonest == ExitTellsWhatHappened /\ RefusalsChangeNothing

(* Ctrl+C while waiting for a lock is an interruption (locking.go: the      *)
(* acquirers; exit-codes.md: "Non-awa run commands exit 130").              *)
InterruptedWaitExits130 ==
    exit # Pending /\ req # NoRequest /\ cause = "interrupted" /\ req.handler # <<"run">> =>
        exit = Interrupted

(* A missing project root is a thing that does not exist, whatever command  *)
(* needed it (commands.go: resolveProject; exit-codes.md: 3).               *)
MissingProjectExits3 ==
    exit # Pending /\ req # NoRequest /\ ~req.inside /\ cause = "failed"
      /\ More /\ Steps(req)[at] = Resolve => exit = 3
=============================================================================
