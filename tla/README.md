# Verification of awarer

awarer (`awa`) records checkpoints of a worktree, restores them, and caches the
results of commands. It has no server: everything durable lives in a directory
`.awa` (and in the worktree) that several short-lived processes share, beside an
editor, build tools and a file system that know nothing of awa. What can go
wrong goes wrong between two of these, or between a process and the one that
finds its remains. This directory models those parts in TLA+, checks them with
TLC on small instances, and proves the most important properties with TLAPS for
every value of the constants.

Paths below are relative to `src/internal/`. `PROJECT.json` maps each definition
to the lines it models and lists runs, mutants, hazards, findings and theorems.

## 1. Inventory

| Part | State it keeps | Operations | What is hard |
|---|---|---|---|
| lockfile (`infra/lockfile`, `cli/locking.go`), in two builds | `.awa/locks`: presence tokens, `gc.lock`, `restore.lock` | acquire and release as a writer, a restore, a collector; scan; classify; reclaim | no atomic test of "is anybody there", crashes, waiting |
| checkpoint store (`infra/checkpointjson`, `app/checkpointcmd`) | `checkpoints/<id>`: manifest, frontier, header | publish in that order, list, delete, headerless remnants | partial publications and deletions |
| blob store (`infra/blobstore`) | `store/blobs`, `store/tmp` | materialize, open, delete | blobs shared by records, reuse beside a sweep |
| recovery store (`infra/restorestore`) | `restores/<id>` | stage, publish by rename, withdraw, delete | ordering with the change of the worktree |
| gc (`app/gc`, `domain/gc`) | none of its own | lock, plan, recheck, sweep records, then blobs, then temps | a plan made earlier than its deletions, partial failure |
| record streams (`infra/manifestsort`, `infra/frontierjsonl`, `infra/restorespool`) | temporary run files, spools, copies in the stores | sort, spill, merge, copy, read back | a part taken for the whole |
| doctor (`app/doctor`, `domain/doctor`) | none | unlocked diagnosis, drain, repair, capacity | acting on what was seen without a lock |
| run store (`infra/runstore`, `app/run/rm.go`) | `runs/entries/<id>`, `runs/keys/<key>`, `runs/tmp` | lookup, commit entry then pointer, roll back, delete pointer then entry | pointers and entries written by different processes |
| run (`app/run/run.go`, `probes.go`, `app/effectobserve`, `infra/effectfs`) | none of its own | probe, scan, observe, key, look up, execute, observe again, publish | everything it observes may change meanwhile |
| run history (`domain/runcache`, `app/run` views) | the entries of earlier runs | explain, ls, log, audit, rm, the line after a run | a prediction and what then happens |
| scanner and walker (`app/scanner`, `infra/worktreefs`, `domain/worktree`) | none | walk, follow links, apply ignore rules, hash or reuse, prove absence | an editor beside it, torn reads, links |
| worktree index (`infra/sqliteindex`) | `index.db` | look up, replace in one transaction, rebuild | staleness |
| state comparison (`domain/compare`, `app/changes`) | none | merge two ordered streams, explain the missing side, pair renames | a silence that is not a proof |
| state provider (`app/stateprovider`, `app/state`) | none | resolve references, observe now, verify, classify | no lock, records that go while they are read |
| restore (`app/restore`, `domain/restore`, `infra/worktreemut`) | the worktree, one recovery record | plan, preflight, stage, capture, revalidate, commit, finish; the undo | an editor at any time, failures between paths |
| configuration (`domain/config`, `infra/configfile`, `app/configcmd`) | files of the user | read, layer, parse, validate, write | two ways to be refused, provenance, overflow |
| probe grants (`infra/probegrants`) | one record per root in the user's directory | allow, revoke, check | the record and what it approves change apart |
| project files (`infra/projfs`, `app/initcmd`) | `.awa`, its layout, guard and configuration | init, discover, guard, roll back | several inits, deaths half way |
| command line (`cli`, `output`) | one process | parse, route, run a handler, exit | three parsers on one line, Ctrl+C, a broken stdout |
| path-safe file operations (`infra/fsx`) | | publish, link, remove a tree, make parents | the steps others see |
| codecs, hashing, help, git evidence, child processes, site, tools | | | outside the shared state, or pure |

How they interact: writers (checkpoint, run, `run rm`, `restore --apply`) hold a
presence token for as long as they touch `.awa`; gc and `doctor --repair` hold
`gc.lock` and must find no token; a restore takes `restore.lock` first. Behind
that, the stores are shared only through files: gc reads what writers publish,
a run reads pointers another run or `run rm` writes, every scan reads the index
the last one left, an undo reads the record of the restore before it, and the
provider reads what all of them leave without any lock. There are no callbacks
between processes and no messages; every interaction is a file appearing,
changing or going away between two steps of somebody else.

What makes each part correct, in a sentence:

* locks: a destructive pass is alone; nothing leaks; no acquisition waits for ever.
* stores and gc: what is retained is readable, what is garbage goes, the newest stay.
* run store: a pointer leads to a whole entry of its key; only chosen runs go.
* run and scanner: a replay is the result of a command that saw this very state.
* history: what is foretold is what happens, and what is told is what happened.
* observation and comparison: a path said to be absent was absent, a report is the difference.
* provider: now is a moment, and a verdict is true of it.
* restore: nothing unrecorded is destroyed, the outcome is true, the undo works.
* streams: a reader gets the whole stream or an error.
* doctor: the report is the damage, and a repair takes only remains.
* before a command: a word goes to the parser it belongs to, the exit status says
  what happened, configurations are sound, consent is given, a project begins whole.

## 2. Modules

| Module | Models | Its place |
|---|---|---|
| `StoreAccess` | abstract: writers share the store, a keeper has it alone, one restore at a time | the contract of `.awa/locks` |
| `LockProtocol` | the flock build of lockfile, step by system call | refines `StoreAccess` |
| `LockFallback` | the build without flock: `gc.lock` as a published file, reclaimed by rename | beside it in `MCLocks` |
| `StoreGC` | checkpoint, blob and recovery stores with gc and doctor's remnants | INSTANCEs `StoreAccess` for its entry and exit |
| `RunStore` | entries and pointers, `awa run` around them, `run rm`, gc's deletions | INSTANCEs `StoreAccess` |
| `RunValidity` | observation, key, reuse and the index during one run | what `RunStore` has as one bit and one key |
| `RunEntries`, `RunHistory`, `RunViews` | the key input and its comparison; a run as one step of a history; explain, ls and the footer as operators over it | each extends the one before |
| `RestoreApply` | `restore --apply` and its undo against an editor | one restore at a time, by `StoreAccess` |
| `RecordStreams` | the sorts, spools, copies and cursors behind manifests and plans | in `MCRestoreApply` |
| `Absence` | what frontier and records prove of a path not listed | operators |
| `StateComparison` | the merge, the missing side, the rename stage | extends `Absence` |
| `WorktreeWalk` | one scan beside an editor | |
| `Observation` | a scan, then its comparison with a stored state | composes the two |
| `NowObservation`, `StateAssessment` | the two scans of now; the provider's operands, verification and verdict | the second extends and implements the first |
| `CommandLine`, `CommandSession` | the three parsers; the handlers as steps with exit statuses | the second extends the first |
| `Configuration` | three files layered, parsed, validated and sealed beside an editor | in `MCCommands` |
| `ProbeGrants` | the operator's consent, beside moves, checkouts and damage | in `MCCommands` |
| `Diagnosis`, `CapacityAudit` | doctor's checks and repairs; its walks under budgets | in `MCCommands` |
| `ProjectInit` | several processes bring a project into being | in `MCCommands` |
| `LockProtocolProofs`, `StoreGCProofs`, `RunStoreProofs`, `RunValidityProofs`, `RestoreApplyProofs`, `StateAssessmentProofs`, `ObservationProofs`, `ProjectProofs` | the theorems (section 4) | the first is about both builds of the lock directory, `StoreGCProofs` also about `CapacityAudit`, `RunStoreProofs` about `RunHistory` and `RunViews`, the last about `ProjectInit`, `ProbeGrants`, `Diagnosis` and `CommandSession` |
| `MC*` | instances: values, symmetry, bounds, and hosts of parts that share no state | |

`LockProtocol` is proved to implement `StoreAccess`; the stores use `StoreAccess`
instead of the protocol, which is what makes their state spaces small.

**LockProtocol.** `tmp`, `token` and `lockFile` are the files of `.awa/locks`;
`ex`, `sh`, `restoreEx` the flocks; `todo`, `verdict`, `stale` what a scan has
read. A writer publishes its token (temp, link, removal of the temp), then
probes `gc.lock`: no file or no exclusive holder admits it, otherwise it stands
down, removes its token and waits. A keeper locks first and scans afterwards;
the names it lists may be gone or renamed when it reads them. `Classify` has
the four answers of `Record.Classify` (active, stale, remote and aged, not
readable by this build). Dying (`CrashWriter`, `CrashKeeper`) is possible at
every step: the kernel drops flocks and keeps files.

**LockFallback.** `lock` is the published `gc.lock` and who it says holds it,
`snatched` what a reclaim has renamed to its private claim. A collector that
meets a stale record renames it, looks again, and discards or restores what it
got; the writers' probe reads the same file. The source admits a residual race of
three processes; the model has it, and states what remains true around it.

**StoreGC.** `files` holds what exists at a record's address, `blobs` the
published blobs, `staged` and `hand` the temps, `born` the order of createdAt.
Publication, capture and both kinds of removal go file by file, in any order
where the code follows the directory's order. `GcPlan` is one step because gc
is alone while it plans; its deletions are single steps that may fail
(`Faulty`) or be the last one (`Crashing`).

**RunStore.** `files` and `pointer` are the entry and key directories. Reading
the pointer, resolving the entry, verifying payloads, publishing and removing
are steps of their own, so `run rm` interleaves with a commit exactly as it can
under the presence lock they share. `quiet` says that nothing has failed and
nobody has run `run rm` so far: the premise of what the code promises of the index.

**RunValidity.** Each thing has a content, numbered by the write that made it,
and a timestamp; a rewrite in place keeps size, inode and mode, so the timestamp
is all of the stat that can tell. `Look`, `Open`, `Read`, `Skip`, `Reuse` are
the visit of one file; between any two of them anybody may write. A run goes
through probe, scan, effect, lookup, child, reprobe, rescan, reeffect, publish,
in the order of `Run` and `execute`; the policies (`--refresh`, `--no-cache`,
`--no-cache-failures`, `--allow-skipped-inputs`) are its `mode`. The watched
output is observed by its stat only, as effectfs does.

**RunHistory and RunViews.** Here a run is one step and the interleaving is in
the history: what earlier runs left, what changed between runs, entries removed,
damaged or of another version, and a clock that may step back. A near miss is
ranked and named as `domain/runcache` does, so that explain's prediction, ls's
reuse column and the line after a run are three computations over one history
that must agree.

**RestoreApply.** `tree` is the worktree, `saved` the checkpoint, `record` the
recovery records, `log` what each restore found, meant and left. The plan comes
from one observation, the record from the plan, and each path is committed behind
a guard that compares the present node with the planned one; `Edit` is anybody
else writing between any two steps. The ranks of a commit (`Rank`, `Precedes`)
order deletions, directories and writes. A restore whose source is another one's
record is the undo.

**RecordStreams.** A sorter adds, spills, merges and finishes; a spool is written
and read in as many passes as a plan needs; copies are published in the stores
and read by cursors. Reads and writes may fail, gc may sweep the temporary
directory of a command without a lock, a stored file may be damaged once.

**WorktreeWalk, Absence, StateComparison, Observation.** A path is a sequence of
names, a directory's ignore rules are part of its node, followed links open
virtual directories. The walk leaves a frontier where it did not look; `Absence`
says what frontier and records prove of a path; the comparison asks it for every
one-sided path. An editor changes the tree between any two steps of a walk. A link is
followed as the code does it, by name and in steps of their own: each hop, the
resolution of the end, a second look at it, the stat, the verification of the chain and
the opening; each of these alone (a path resolved, a chain verified) is one moment.

**NowObservation and StateAssessment.** Two scans that must agree are what the
provider takes for the present. Operands resolve separately, a record may be
condemned or damaged at any point before or after verification, and the verdict
(`equal`, `different`, not assessable) follows from evidence and coverage.

**CommandLine and CommandSession.** Every line of a few tokens is parsed by the
top-level parser, the command's own and the wrapper's; a handler is the sequence
of its steps, each with the failures its classifier knows, Ctrl+C before or during
it, and stdout that may break.

**Configuration, Diagnosis, CapacityAudit, ProbeGrants, ProjectInit** are small
systems of their own: an editor beside a reader, processes beside an unlocked
look, an operator beside a run, several inits beside each other. `MCCommands`
hosts them: `part` is chosen initially, and only that part moves.

## 3. Runs

A run asks one question of one instance; parts that share no state share a run
(`MCLocks`, `MCRestoreApply`, `MCCommands`), each from initial states of its own.

| Run | States | Instance | Shows |
|---|---|---|---|
| `lock_safety` | 1.6 M | flock: two restoring writers (one remote), gc, doctor; fallback: a writer, two gc, doctor, a foreign stale lock | exclusion, no leaks, the refinement, no reclaim destroys a holder's record |
| `lock_live` | 13 k | two restores (one unreadable here, one remote that ages), gc, `FairSpec` | every acquisition ends |
| `gc` | 1.3 M | three checkpoints of one blob, or a checkpoint and a restore of two with crashes; keep-last 0 and 2, failures | readability, reclamation, retention, undo before mutation, work in flight |
| `runs` | 3.3 M | three runs of one key, gc; or two runs, `run rm`, gc, failures; crashes | index, refreshes, lookups, survivors |
| `run_history` | 84 k | three configurations, 11 requests, 12 endings, clock to 3, two departures from the ordinary | views foretell, history is faithful |
| `restore_apply` | 4.3 M | four paths, one hidden, budget 4; three stream records, one fault | outcomes, undo, no loss, whole reads |
| `run_validity` | 2.0 M | a runner, a reader, one input, one write, two timestamps | results are faithful, nothing is stale |
| `observation` | 0.6 M | 11 worktrees, 6 configurations, one edit, link budget 4 | absence, scope, links, reports |
| `assessment` | 3.6 M | two files, three checkpoints, one run's observations, nine questions, two events | now is a moment, publication, verdicts, operands |
| `commands` | 1.3 M | six parts, below | the eight properties of what is before and beside the stores |
| `runs_dangling`, `interrupted_wait` | | | violated: section 6 |

Why these instances are enough:

* `lock_safety`. Two writers show every race of the token protocol, since a
  keeper treats writers one by one; gc and doctor exclude each other by `gc.lock`
  alone. Without flock two collectors and one writer suffice for the overlap the
  source describes, and a third keeper for one to meet the restored lock.
* `lock_live` has no repairer, to keep the liveness graph small; its draining of
  writers is covered for safety only.
* `gc`. Three records of one blob are enough for it to lose one referrer and keep
  another and for two passes to disagree on keep-last; two blobs are enough for a
  capture that has stored one and not yet the other. `FewAtOnce` keeps the two apart.
* `runs`. A hit, a refresh and a miss of one key meet in three runs; `FewAtOnce`
  has two runs beside `run rm` and failures, three otherwise.
* `run_validity`. A stale hit needs a write, a result stored before it and a run
  after it. Three processes and two writes, without failures and probes, were also
  explored (3 million states); the theorems hold for all bounds.
* `restore_apply`. Every kind of replacement (file, link, directory, nothing by
  each other), parents to be made, directories to be emptied and a hidden child
  appear in four paths. Budget 4 is two restores, or one and two foreign writes;
  writes before the first restore would only choose another initial worktree, and
  all are initial. Budget 5 was explored on smaller trees (5.7 million states).
  A sorter with a buffer of two spills and merges with three records; four records,
  and two faults, were explored as well.
* `observation`. The worktrees have a followed link, a link out, a cycle, nested
  rules with a negation, a hidden and a protected directory. Two edits were
  explored on a part of them (1.7 million states).
* `assessment`. Two files are enough for two scans to disagree about one and agree
  about the other, two events for a change and its reversal or for a publication
  and a removal; three checkpoints for a position that shifts.
* `commands`. Lines: 11 tokens, at most five of them, executed up to two (400 k
  states); a twelfth token, the empty word, was explored. Configuration: a layer
  says one or two things, right or wrong in every way the loader tells apart (182 k).
  Diagnosis: two checkpoints that share a blob and one not begun, one or two things
  wrong, what strict mode alone sees in the index and torn recovery manifests among
  them; a writer moves between items (129 k; every interleaving was explored, 3.3 M).
  `ReportsUnknown` is TRUE, the build without flock, which has more to report; the
  theorem is about both builds.
  Capacity: walks that budgets end early or not at all, two disappearances (90 k).
  Consent: two roots, one path, three sets of policies, two moves (247 k; a fourth
  set and all initial choices were explored, 1.5 M). Init: three processes of
  which up to two initialise (279 k; three unrestricted were explored, 3.5 M).

`CHECK_DEADLOCK FALSE` stands in each configuration whose processes may all have
ended or died; where the bounds end a behaviour nothing more can happen either.

### Bounds

`Budget` (RestoreApply), `MaxRecords`, `MaxFaults` (RecordStreams), `MaxStarts`,
`MaxWrites`, `MaxClock` (RunValidity), `MaxClock`, `MaxOdd` (RunHistory),
`MaxEdits` and `LinkBudget` (WorktreeWalk; the second is the code's limit made
small), `MaxEvents` (StateAssessment), `MaxTokens`, `MaxRouted` (the command line),
`MaxChanged` (Diagnosis), `MaxVanished` (CapacityAudit) and `MaxMoves`
(ProbeGrants) bound behaviours by guards; the other modules are finite by their
sets. In `LockProtocol` a process may be started again and again, in `StoreGC` and
`RunStore` each id is one invocation while gc runs any number of times.

### Fairness

`LockProtocol` states fairness for its liveness property (`FairSpec`): every live
process goes on taking its steps (WF per process), and a waiting process that waits
again and again times out (SF of its timeout), for the context of a wait is done after
`[locks].timeout` however often it is retried, and from then on each `select`
finds it ready. Nothing is assumed of starts, crashes, or the ageing of
records. Elsewhere there is nothing to wait for: every operation ends by itself.

## 4. Proofs

All are for any finite or infinite sets of processes, records, keys, files and
paths, within the assumptions named in each module. Each theorem about an
invariant has the same shape: the initial states satisfy an inductive invariant,
every action preserves it (one lemma per action), and it implies the property.

* `LockProtocolProofs`: `IInv` = `TypeOK` + `FlockInv` (an exclusive lock
  excludes shared ones, and who holds what follows from where it is), `FileInv`
  (which files a live writer has follows from where it is), `RestoreInv`,
  `ScanInv` and `StaleInv`. The heart is `ScanInv`: a writer that works while a
  keeper scans is still on the keeper's list or already in its verdict.
  `KeeperIsAlone` alone is not inductive: it says nothing of a scan half done.
  From it: exclusion, protection (`WorkIsProtected`, proved only), no leaks, live
  files (`StaleInv`: what was stale once stays stale), and `Refinement`, step by
  step to `StoreAccess`.
  For the build without flock: exclusion until a reclaim has renamed away
  a holder's lock, for any number of processes (`HolderInv`, `PlainScanInv`).
  `ReclaimSpares`: every step of a keeper is one of a few kinds (`KeeperSteps`), and
  a keeper has a claim only between its rename and its end (`ClaimInv`), so a
  rename overwrites no claim and a discard none of a holder's.
* `StoreGCProofs`: `IInv` adds to the exclusion what each writer has published
  (`PublicationInv`), that a writer stored what it refers to (`CaptureInv`), and
  that no blob of a record gc keeps is on its list (`SweepInv`); the last holds
  because nobody publishes while gc is alone. It gives `RetainedIsReadable`
  and `UndoBeforeMutation` with failures and crashes. `NothingIsLeftBehind`
  strengthens it with what the sweep has still to do (`SweepProgress`: a blob
  that is neither marked nor on the list is gone). `NewestSurvive` has
  two parts. `AgeInv`: what gc condemned is older than every checkpoint it spared and
  every one still on its way, since nobody is on the way while gc plans. `Sparing`: a
  plan that condemns something has seen as many newer ones as it was to keep, and at
  least one; the newest of a finite set (`Newest`) are those it spares. It uses the
  induction theorems only through facts about finite sets. `PublicationsAreLeftAlone` is the action property of the
  same invariant: with a writer inside, gc and doctor have nothing they may
  delete, and other writers only add.
  `AuditsAreHonest` (`AuditIsHonest` of `CapacityAudit`) is from `AuditInv`. What a walk
  has still to do is what is `Ahead` of its frontier: an entry yet to be taken, or
  something below a directory yet to be listed. So a scan that has met no marker and a
  search that has left no gap have every other marker and root ahead of them
  (`ScanInv`, `SearchInv`). A figure counts a set of files, each once and none of them
  ahead, and without a gap every file still there is counted or ahead (`SizeInv`,
  `Counted`); what disappears only makes a figure a better upper bound
  (`FigureLater`). The figures told are true and their sums are sums of them
  (`FoundInv`), and the detail rows are ranked, with nothing left out before them
  (`DetailInv`): the rows that a new one comes after are the first ones (`GrownIs`).
  That a sum grows by what is added needs an induction over a finite set, which follows
  from the least element (`EverySubset`). Assumed is `AuditAssumption`: worktrees are
  finite, each path is below a directory of it, and no two paths have one place in the
  order of paths.
* `RunStoreProofs`: `IInv` for all behaviours (survival, and `PointersAreTyped`,
  proved only); `QuietInv` adds exclusion with gc and what a lookup relies on, and
  gives `IndexIsSound` and `LookupSucceeds`, which say what holds while the store
  is `quiet`; `runs_dangling` shows that the premise is needed. `RefreshesSurvive`
  adds `RefreshInv`: a removal that has read a pointer holds the name it read, and
  its unlink is for that name only.
  `HistoriesAreFaithful` is about RunHistory, and its invariant about every entry of
  the history: the store's own validation accepts it, and if it is reusable it
  tells what its command saw (`EntryOk`, `Tells`). `ExecutedIsOk` goes through every
  reuse state a request, an outcome and a policy combine to; `HitIs`, `SameKeyIs`,
  `SamePolicyIs` and `AskedIs` lead from an equal key back to what was observed. It
  assumes of the constants their types, that a print is no status, and that `None`
  is none of the values it stands in for (`HistoryAssumption`).
  `ViewsAreRight` follows from the same invariant: a view that asks no probe has the
  context the run will have or says that it has not (`ContextsAgree`), the verdict is
  the run's decision case by case (`VerdictForetells`), a listing that finds no
  difference has found the key (`NoDifferenceIs`, `EqualPoliciesAre`), and the
  ranking has a first, because it is by a number and then by the id (`NearerIs`).
* `RunValidityProofs`: contents and timestamps only grow (`Ordered`), and each
  phase of a run observes after the one before (`KeyIsFresh`,
  `ReadsAreBracketed`). So what is equal before and after the command was the
  same when the command read it (`CleanIsFaithful`): hence `ReusableIsFaithful`.
  A hit is for a key no older than the run's start, so the entry's own reading
  is no older either: `HitsAreFresh`. `ScansAreCurrent` needs the two
  premises it states: `StampsTell` carries the first, `AloneIsCurrent` the second.
  `NeverStale` puts both together.
* `RestoreApplyProofs`: from its publication the record is what the plan was
  made from (`RecordCoversPlan`), and past its guard a path holds what was planned
  from, nothing, or what somebody raced in (`GuardHolds`): hence `NothingLost`.
  `OutcomesRight` needs to know what every operation has done so far: `OutcomeInv`
  relates the present tree to the one observed, path by path and by how far the
  passes have come (`TreeInv`), the plan to what it was made from (`PlanInv`), the
  operations still to do to those done (`OrderInv`: the ranks), and what cannot stop
  a restore nobody interferes with (`CalmInv`). The key lemmas say why no operation
  of a plan stands in another's way: nothing lies above what is to be written
  (`NothingAbove`), its parents have been made (`ParentsAreMade`), a directory to be
  removed is empty when its turn comes (`CalmRemovable`), and what is to be put can
  be put (`CalmPuttable`). `UndoesBringBack` adds `UndoInv`: a record is whole and
  says what was there (`RecordIsWhole`), and a plan was right and complete for what
  it was made from (`PlanWasRight`, `PlanIsWhole`); then an undo's plan is the
  inverse of what the restore did before it ended, failed or died
  (`FilledIsRecorded`, `UndoNotBlocked`, `UndoneIsBack`).
* `StateAssessmentProofs`: two scans that agree have recorded the worktree as it
  was between them (`ScansAgreeOnAMoment`); an assessment implements the
  specification of the two scans, so its now is a moment; `AssessmentInv` says what
  each stage has established of its operands, which gives publication and verdicts.
  `OperandsResolve` follows the enumeration: some set of committed checkpoints has
  been read, the window is its newest n (`WindowInv`; `WindowIsKept`: evicting the
  oldest of a full window loses nothing, a minimality argument over the finitely
  many checkpoints), every unreadable header was counted (`HealthInv`), and whoever
  is left out or read too late was touched. Soundness only shrinks (`SoundBefore`),
  so a sound reference was sound all along and each stage answers for it.
* `ObservationProofs`: `FollowingIsSafe` gives `LinksStayInside` for any worktrees,
  scopes and edits. The property alone says nothing of a visit half done, so `IInv`
  says what each stage knows. `World`: a worktree is well-formed and stays so, whatever
  is put or moved (`PutKeeps`, `MoveKeeps`: paths as functions, prefix by prefix), and
  `inside` holds every file now within the root. `Nested`: every frame is within the
  root and what it still has to list is there until somebody edits; a frame entered
  by a link has its real directory on the chain, and every frame above it too, which is why
  no link leads back (`Apart`). `OpenOk` counts: a file
  reached through a link that was never the root's took an edit to be met at all, and
  its chain, crossing a link by then, is refused unless a second edit undid the first
  (`Linked`, `Crosses`). Of resolving a path with links, a recursion,
  it uses only that a path without links is its own and what the code checks afterwards
  (`SameParent`, `WithinRoot`).
  `ReportsAreRight` gives `ReportIsTheDifference` for any two recorded states and any
  scan, from `MergeInv`: both cursors stand in strictly ordered records (`CursorsFit`;
  that sorting gives such a sequence is `SortedIs`, by counting the records before each
  place), the paths passed are those before both heads, and what was reported is, change
  for change, what all the evidence says of them (`Reported`). The tracker has forgotten
  most of that evidence by then: `TrackersFit` says that it still holds every boundary
  that reaches the next path or a later one, because between a string and one it is a
  prefix of, only strings it is a prefix of sort. A buffered report is paired by keys
  that occur once on each side (`PairedApart`, `PairedWhole`, `PairedAlone`), so no
  change is used twice and every half is accounted for. `QuietMeansSameTree` then says
  that an empty report means equal records (`NothingDiffers`).
  `AbsencesAreTrue` gives `AbsentIsTrue` for every scan that follows no links, whoever
  edits beside it. `AbsentInv`: whatever is there all the time
  (`steady`) is `Covered` — recorded, left out, or below something left out with its
  subtree — or still `Pending`: a frame has the next name on the way to it to visit
  (`Awaits`), or it is the very file being opened. It holds because a listing names every
  way on and calls it a directory (`Straight`), and because leaving out again what was
  left out takes nothing back (`OmittedCovers`): a node does not replace a subtree. When
  the walk ends no frame is left, so all that is steady is covered, and what is covered
  never counts as absent (`CoveredIsNotAbsent`). `Reporting` carries this through the
  comparison: what it says of a missing path is what the known paths and boundaries say.
* `ProjectProofs`: `InitsAreAllOrNothing` from `ProjectInv` — whoever made the
  marker is alone with it until it has ended (`BuilderIsAlone`), what it reported
  stays until somebody tampers, rolls back or forces (`ProjectIsWhole`), and
  where there is a project somebody answers for it (`SomebodyAnswers`).
  `ProbesConsented` from `GrantInv` — a record that counts says what the operator
  last approved at its root (`RecordsAreApproved`), what allow and revoke answered
  is true until something is moved (`OperatorKnows`), and the probes of a phase run
  once each, in an order without repetition, until one fails (`ProbesInOrder`).
  `RepairsTakeRemains` from `DiagnosisInv` — every finding keeps the shape its check
  gave it, and only what is a remnant is called repairable (`CheckIsTyped`, `Noted`);
  a held lock is a live writer's (`HeldByTheWriter`) and no writer is at work while
  a repair is (`RepairIsAlone`); a header is looked at again under the lock.
  `ReportIsFaithful` (`ReportIsTheDamage`) says of anything a finding may be about
  whether it is wrong now, where doctor meets it and whether doctor has been there
  (`Amiss`, `PlaceOf`, `Looked`; `DefectsAreAmiss`: this is the property's damage).
  `ReportInv`: of what nobody touched, all that is wrong where doctor has been is told,
  what is told is wrong unless it is called repaired, a walk that was cut short is
  told as an error or a warning, a blob once verified is whole, and no two findings are
  about one thing that a repair may act on, so that repairing one makes no other untrue.
  Each check is shown to tell what is so where it looks (`Tells`), the order of
  inspection to list everything once (`InspectionLists`), what others do to reach only
  what they are then said to have changed (`OthersLeave`), and each of the six outcomes
  of a repair to keep the report true (`NotedKeeps`, `RepairKeeps`).
  `ExitsAreHonest` from `SessionInv` — what has been changed comes from the steps passed
  (`ChangedBefore`) — and from `Orderly`, which each of the 25 handlers is shown to be:
  a step that may refuse comes before anything but the guard and the index is changed,
  one that Ctrl+C may stop before anything is published, and the answer is last. Only
  `run rm` may find a target gone late.
  `LinesAreHeard` (`NothingIsStolen`) from `LineInv`: of the arguments, every stretch up
  to the end that no global is among is a stretch of the line, up to its end, and every
  option taken stands before it (`AsTyped`); so are the operands. A global that is read
  spoils every stretch (`GlobalRead`), an argument lengthens those there are
  (`ArgumentRead`), and where a wrapper's own flags stop is a place in the line
  (`LeadingStops`). That needs an induction over the line: `EveryNumber` (a set that
  holds 0 and, with a number, the next one holds all) follows from the least element of
  a set (`SmallestIn`), and with it the recursive function that reads the flags is shown
  to exist and to satisfy its equation (`ReadingsAre`).

Only model-checked: the liveness of acquisitions (liveness under fairness is beyond
the prover); `ConfigurationIsSound` and `ReadsAreWhole`, whose sorted runs and layered
folds are inductions over data; `ScopeIsExact`, which compares a traversal with a
recursive definition of what it should find; and `AbsentIsTrue` when links are
followed (in a worktree nobody edits: otherwise `steady` is empty), where what a path
names is a recursion too.

## 5. Assumptions of the models

* A process does not fail to remove its own lock files, except by dying (in the
  flock build; the fallback has failing calls).
* Each write makes a content that never was before. A file that is changed and
  changed back between the two observations of a run is invisible to any
  comparison of both ends; the code has this limit and so has the guarantee.
  `NowObservation` allows it and names it (`returned`).
* A rewrite changes at most the timestamp of the stat, and timestamps of later
  writes are not smaller. `touch -d` into the past is outside.
* Standard output, environment, arguments and the executable are fixed in
  RunValidity: one command, always keyed alike. RunHistory varies them.
* Hashes do not collide; in StoreGC stored blobs do not rot; a stored stream is
  damaged at most once; what doctor finds damaged was so when it began (in one of the
  ways `FaultsFit` allows: what is not there has nothing else wrong), except what
  others do while it looks, and a writer beside it begins while it looks.
  Directory entries survive a crash of a process (not of the machine).
* In a worktree that a scan starts in (`WellFormed`), what is on the way to something
  is a directory. The editor keeps it so, which is proved.
  Names contain no slash: what is below a path begins with it and a slash
  (`BelowAssumption`, which ties paths as sequences of names to their spelling).
* The directories of a sorter and of a spool are its own until it is closed, unless gc
  or doctor sweeps them, which they do only to commands without a lock.
* A policy declares finitely many probes, and the user's configuration directory
  does not move while the operator decides.

## 6. Findings

* `runs_dangling`: `run rm` (`runstore/repo.go:712`) reads the pointer, the run
  publishes it, rm removes the entry: the pointer dangles, contrary to the
  comment at 708, and every later lookup of that key reports corruption.
* `interrupted_wait`: Ctrl+C while a checkpoint or a restore waits for a lock exits
  with the timeout's status 6 (`cli/locking.go:47`), where `locking.go:89` and
  `exit-codes.md:68` ask for 130.

Seen while modelling, without a run:

*Stores, locks and gc*

* A deletion that dies after the metadata leaves an entry that neither `run rm` nor
  gc lists; the comment at `repo.go:749` calls it reclaimable.
* A failed deletion leaves a listed record whose blobs are swept in the same pass;
  `executor.go:35` says the store stays consistent. The sweep ignores Ctrl+C
  (`executor.go:20`, `exit-codes.md:66`), and so does `run rm`, which does not report
  what it removed before it failed.
* gc leaves and meets half-deleted records: a header without manifest, or half a
  recovery record, makes every later blob sweep stand down.
* A temp of a writer that died while writing its token counts as unrecognized
  for ever and blocks gc (`lease.go:328-330` says a stale lock never counts).
* Without flock, Release unlinks `gc.lock` by name (`lease.go:376`, 397) and may
  unlink another process's; a holder that releases while its lock is renamed away
  gets a ghost lock restored; a claim that cannot be read is discarded like a stale
  one; a lock released between a failed publication and the read is reported as unknown.
* `checkpoint.go:41` opens the index before the presence lock, under which
  `run.go:1149-1157` says it must be.

*Runs*

* `run.go:349-353` says that the two index writes around a command "cannot be
  interleaved with another writer's"; the presence lock is shared, so a
  checkpoint's may come between them. It matters only when two writes fall into one tick.
* A finished run is lost when the clock steps back; an orphaned entry is listed as
  reusable although run does not find it; explain reports a corrupt or unhealthy
  entry where run executes again (`RunIgnores`); the line after a run and ls give
  different reasons when a probe's facts have changed.
* An interrupted `awa run` whose manifest was spilled exits 130 and is not recorded
  (`exit.go:56-61`, `exit-codes.md:69-72`); `Runner.Run` sets no WaitDelay.

*Restore and streams*

* After a restore that puts a link where an inhabited directory was, the printed
  undo is always refused (`plan.go:461`, `restore.md:128-134`); a restore that creates a
  file where the rules hide it cannot be undone either, and the undo reports success
  (both excepted by `OutOfReach`).
* A plan is called ready and ends in a conflict when a covered file lies below what
  is now a regular file inside the selection but outside the record's coverage, or
  above it (`currentAbsence`, `plan.go:452-466`; `Obstructed`).
* Parents are made before the guard looks, so a restore that ends in conflict, or in
  an error with its record withdrawn, may leave directories behind, although
  `restore.md:177` says nothing was touched.
* A run file of a sort that is cut at a line boundary by anything but a failing read
  is not noticed; temporary directories of read-only commands can be swept by gc or
  doctor, which ends in an error; a recovery manifest's hash does not cover the storage
  class; a checkpoint's manifest and a recovery record's scope are held to their count
  and order only, so that a line which is another record in its place reads clean. What
  reads a checkpoint through a state reference, as comparisons and restore do, folds a
  second check of the tree hash over this cursor (`state/resolve.go:424-471`); gc and
  doctor do not. `RecordStreams` models the store's cursor alone.
* A named operand below a regular file that neither side knows makes the whole plan
  fail (`plan.go:569`): the stat answers ErrNotDirectory, which is neither absence nor
  a link, although the case above it reads "Absent on both sides and absent on disk:
  nothing to say" (`plan.go:563`) and `currentAbsence` takes the same error for
  absence. `OutcomesAreRight` excepts it (`AskedBelowFile`).

*Observation and assessment*

* Directories of the walk's base are not in the chain that stops cycles
  (`walker.go:450-455`); a followed link to `.git` or `.awa` is scanned; a link target
  `dir/../f` is cleaned lexically and then reported as changed; below followed links a
  path that existed throughout can be proved absent; an entry listed as a file and
  replaced before its stat is recorded as special.
* A file reached through links is resolved (`walker.go:378`), looked at (394), stat'ed
  (405) and later verified and opened by name, and is bound to what its own stat found;
  a link put in the way before the stat and taken away before the verification has
  content from outside the root recorded. `NothingFromOutside` excepts files reached
  through links once more than one edit happened beside the scan; one edit, or any
  number beside other files, lets nothing in.
* `reasonFor` (`assess.go:301-345`) has no case for an incompatible run entry and says
  "io-error", where `reason.go:57` has a reason; a file deleted between listing and
  stat fails now with "not-found", where `reason.go:72` has "observation-unstable";
  one deleted between stat and open is a skip, even in strict mode; a change and its
  reversal between the scans is not seen.

*Commands*

* A missing project exits 3 for `run` subcommands (`run_subcommands.go:554-557`, against
  `exit-codes.md:9`); `log` maps every error of a configuration to 4; `awa "" version`
  ignores the empty word; `awa run tool --` drops the dashes; `awa run --scope --json
  tool` gives `--json` to the top-level parser; the tails of displayed output ignore
  errors of stdout; a second Ctrl+C is swallowed.
* A value that does not parse refuses a load even when overridden, one out of range
  does not; `Compose` names the key and not the layer, though `layered.go:265-271` says so.
* Doctor reports a checkpoint gc deletes under its eyes as corrupt, where runs
  allow for the race; a repair removes the index on an unlocked diagnosis, though a newer
  awa may have upgraded it meanwhile.
* A crashed init leaves a half-built `.awa` that a retry calls initialized, and the
  profile's configuration is never written; a rollback removes evidence another process
  wrote meanwhile; an atomic write may recreate `.awa` after a rollback.
* Only the project whose root is the user's configuration directory is kept from
  supplying its own consent, not one that encloses it.

## 7. Not modelled, and the plan

Not modelled because it is read-only, pure or external: presentation of states and
the read-only views' documents, codecs, hashing, git evidence, child processes, help,
site, tools (each with its reason in `PROJECT.json`). Parts of modelled components
left out: permission bits, links a restore's scan follows, coverage-less records, byte
accounting of gc, index schema changes, sizes and samples in reports.
