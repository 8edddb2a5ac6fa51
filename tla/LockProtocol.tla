---------------------------- MODULE LockProtocol ----------------------------
(* The writer/collector protocol of internal/infra/lockfile, in its flock    *)
(* build (darwin, linux, freebsd).  A writer publishes a presence token and  *)
(* then probes gc.lock; gc and doctor --repair lock gc.lock exclusively and  *)
(* then scan the directory for tokens.  Every system call another process    *)
(* can observe is a step of its own, and a process may die between any two.  *)
EXTENDS FiniteSets, Naturals

CONSTANTS Writers,      \* one awa process each: checkpoint, run, run rm, restore
          Restorers,    \* the writers that run "awa restore --apply"
          Remote,       \* writers on another host: their pid cannot be probed here
          Newer,        \* writers whose record this build cannot parse
          Collectors,   \* processes of "awa gc"
          Repairers,    \* processes of "awa doctor --repair"
          Nobody        \* no process

ASSUME ProcAssumption ==
    /\ Restorers \subseteq Writers
    /\ Remote \subseteq Writers
    /\ Newer \subseteq Writers
    /\ Writers \cap Collectors = {}
    /\ Writers \cap Repairers = {}
    /\ Collectors \cap Repairers = {}
    /\ Nobody \notin Writers \cup Collectors \cup Repairers

Keepers == Collectors \cup Repairers
Procs == Writers \cup Keepers

(* Names in .awa/locks other than the two exclusive lock files: a writer's   *)
(* token and the ".tmp-" file its publication goes through.  Both are unique *)
(* to one process, as the random suffix of the code makes them.              *)
Names == {"token", "tmp"} \X Writers

VARIABLES
    pc,         \* what each process is about to do
    tmp,        \* writer -> its publication temp: absent, created, or written
    token,      \* writers whose token is in the directory
    lockFile,   \* gc.lock exists (it is never unlinked)
    ex,         \* the holder of LOCK_EX on gc.lock
    sh,         \* the holders of LOCK_SH on gc.lock
    restoreEx,  \* the holder of LOCK_EX on restore.lock
    todo,       \* keeper -> listed names it has not read yet (or not removed)
    verdict,    \* keeper -> what the names read so far amount to
    stale,      \* repairer -> names its unlocked diagnosis found stale
    aged        \* remote writers whose record is older than the stale threshold

files == <<tmp, token>>
locks == <<lockFile, ex, sh, restoreEx>>
scan == <<todo, verdict, stale>>
vars == <<pc, files, locks, scan, aged>>

WriterPC == {"idle", "dead", "rtry", "rwait", "create", "write", "link", "drop", "probe",
             "shared", "standdown", "wait", "work"}
CollectorPC == {"idle", "dead", "try", "wait", "list", "read", "plan", "relist",
                "reread", "sweep"}
RepairerPC == {"idle", "dead", "diaglist", "diagread", "try", "wait", "list", "read",
               "drain", "repair"}

TypeOK ==
    /\ pc \in [Procs -> WriterPC \cup CollectorPC \cup RepairerPC]
    /\ \A w \in Writers : pc[w] \in WriterPC
    /\ \A c \in Collectors : pc[c] \in CollectorPC
    /\ \A r \in Repairers : pc[r] \in RepairerPC
    /\ tmp \in [Writers -> {"absent", "empty", "full"}]
    /\ token \subseteq Writers
    /\ lockFile \in BOOLEAN
    /\ ex \in Keepers \cup {Nobody}
    /\ sh \subseteq Writers
    /\ restoreEx \in Restorers \cup {Nobody}
    /\ todo \in [Keepers -> SUBSET Names]
    /\ verdict \in [Keepers -> {"none", "active", "unknown"}]
    /\ stale \in [Repairers -> SUBSET Names]
    /\ aged \subseteq Remote

Init ==
    /\ pc = [p \in Procs |-> "idle"]
    /\ tmp = [w \in Writers |-> "absent"]
    /\ token = {}
    /\ lockFile = FALSE
    /\ ex = Nobody
    /\ sh = {}
    /\ restoreEx = Nobody
    /\ todo = [k \in Keepers |-> {}]
    /\ verdict = [k \in Keepers |-> "none"]
    /\ stale = [r \in Repairers |-> {}]
    /\ aged = {}

Goto(p, from, to) == pc[p] = from /\ pc' = [pc EXCEPT ![p] = to]

-----------------------------------------------------------------------------
(* Writers: AcquirePresence and Release.                                     *)

StartWriter(w) ==
    /\ Goto(w, "idle", IF w \in Restorers THEN "rtry" ELSE "create")
    /\ UNCHANGED <<files, locks, scan, aged>>

(* restore --apply serializes on restore.lock before it becomes a writer. *)
LockRestore(w) ==
    /\ w \in Restorers
    /\ Goto(w, "rtry", IF restoreEx = Nobody THEN "create" ELSE "rwait")
    /\ restoreEx' = IF restoreEx = Nobody THEN w ELSE restoreEx
    /\ UNCHANGED <<files, lockFile, ex, sh, scan, aged>>

RetryRestore(w) ==
    /\ Goto(w, "rwait", "rtry")
    /\ UNCHANGED <<files, locks, scan, aged>>

TimeoutRestore(w) ==
    /\ Goto(w, "rwait", "idle")
    /\ UNCHANGED <<files, locks, scan, aged>>

(* PublishBytesAt: create a temp, write it, link it to the name, remove it. *)
CreateTemp(w) ==
    /\ Goto(w, "create", "write")
    /\ tmp' = [tmp EXCEPT ![w] = "empty"]
    /\ UNCHANGED <<token, locks, scan, aged>>

WriteTemp(w) ==
    /\ Goto(w, "write", "link")
    /\ tmp' = [tmp EXCEPT ![w] = "full"]
    /\ UNCHANGED <<token, locks, scan, aged>>

LinkToken(w) ==
    /\ Goto(w, "link", "drop")
    /\ token' = token \cup {w}
    /\ UNCHANGED <<tmp, locks, scan, aged>>

DropTemp(w) ==
    /\ Goto(w, "drop", "probe")
    /\ tmp' = [tmp EXCEPT ![w] = "absent"]
    /\ UNCHANGED <<token, locks, scan, aged>>

(* An acquisition that fails gives back what it holds. *)
GiveUp(w) == restoreEx' = IF restoreEx = w THEN Nobody ELSE restoreEx

(* A step of the publication failed: the temp is removed, the error returned. *)
(* A directory sync that fails after the link leaves the token and ends the   *)
(* command: that is CrashWriter at "probe".  Bound: a process never fails to  *)
(* remove its own files.                                                      *)
PublishFails(w) ==
    /\ pc[w] \in {"create", "write", "link"}
    /\ Goto(w, pc[w], "idle")
    /\ tmp' = [tmp EXCEPT ![w] = "absent"]
    /\ GiveUp(w)
    /\ UNCHANGED <<token, lockFile, ex, sh, scan, aged>>

(* Mutated: a refused probe is taken for the absence of a collector. *)
ProbeIgnoringRefusal(w) ==
    /\ Goto(w, "probe", IF lockFile /\ ex = Nobody THEN "shared" ELSE "work")
    /\ sh' = IF lockFile /\ ex = Nobody THEN sh \cup {w} ELSE sh
    /\ UNCHANGED <<files, lockFile, ex, restoreEx, scan, aged>>

(* collectorActive: no file, or an exclusive holder, decides at once; else   *)
(* the probe itself holds LOCK_SH until it unlocks.                          *)
Probe(w) ==
    /\ Goto(w, "probe", IF ~lockFile THEN "work"
                        ELSE IF ex # Nobody THEN "standdown" ELSE "shared")
    /\ sh' = IF lockFile /\ ex = Nobody THEN sh \cup {w} ELSE sh
    /\ UNCHANGED <<files, lockFile, ex, restoreEx, scan, aged>>

Unprobe(w) ==
    /\ Goto(w, "shared", "work")
    /\ sh' = sh \ {w}
    /\ UNCHANGED <<files, lockFile, ex, restoreEx, scan, aged>>

(* The probe failed: the token is removed and the error returned. *)
ProbeFails(w) ==
    /\ Goto(w, "probe", "idle")
    /\ token' = token \ {w}
    /\ GiveUp(w)
    /\ UNCHANGED <<tmp, lockFile, ex, sh, scan, aged>>

StandDown(w) ==
    /\ Goto(w, "standdown", "wait")
    /\ token' = token \ {w}
    /\ UNCHANGED <<tmp, locks, scan, aged>>

RetryPresence(w) ==
    /\ Goto(w, "wait", "create")
    /\ UNCHANGED <<files, locks, scan, aged>>

(* Mutated: the timed-out writer keeps restore.lock. *)
TimeoutKeepingRestore(w) ==
    /\ Goto(w, "wait", "idle")
    /\ UNCHANGED <<files, locks, scan, aged>>

(* Mutated: the wait for a collector ignores its context. *)
NoTimeoutPresence(w) == pc[w] = "wait" /\ FALSE /\ UNCHANGED vars

TimeoutPresence(w) ==
    /\ Goto(w, "wait", "idle")
    /\ GiveUp(w)
    /\ UNCHANGED <<files, lockFile, ex, sh, scan, aged>>

(* Release of the presence lease, then of restore.lock. *)
ReleaseWriter(w) ==
    /\ Goto(w, "work", "idle")
    /\ token' = token \ {w}
    /\ GiveUp(w)
    /\ UNCHANGED <<tmp, lockFile, ex, sh, scan, aged>>

-----------------------------------------------------------------------------
(* The directory scan of ScanDir: one listing, then one read per name.       *)

Present == {n \in Names : IF n[1] = "token" THEN n[2] \in token
                                            ELSE tmp[n[2]] # "absent"}

(* Parse and Classify.  A temp whose bytes are not written yet is no record. *)
Classify(n) ==
    LET w == n[2] IN
    IF n \notin Present THEN "released"
    ELSE IF w \in Newer \/ (n[1] = "tmp" /\ tmp[w] = "empty") THEN "unknown"
    ELSE IF w \in Remote THEN (IF w \in aged THEN "stale" ELSE "active")
    ELSE IF pc[w] = "dead" THEN "stale" ELSE "active"

ListFrom(k, from, to) ==
    /\ Goto(k, from, to)
    /\ todo' = [todo EXCEPT ![k] = Present]
    /\ verdict' = [verdict EXCEPT ![k] = "none"]
    /\ UNCHANGED <<files, locks, stale, aged>>

(* WriterPresent: unknown outranks active, stale and released count nothing. *)
ReadIn(k, at) ==
    /\ Goto(k, at, at)
    /\ \E n \in todo[k] :
         /\ todo' = [todo EXCEPT ![k] = @ \ {n}]
         /\ verdict' = [verdict EXCEPT ![k] =
                IF Classify(n) = "unknown" \/ @ = "unknown" THEN "unknown"
                ELSE IF Classify(n) = "active" THEN "active" ELSE @]
    /\ UNCHANGED <<files, locks, stale, aged>>

Scanned(k, at) == pc[k] = at /\ todo[k] = {}

-----------------------------------------------------------------------------
(* Keepers: acquireCollector, then gc's Collect or doctor's Run.             *)

(* A keeper that leaves closes gc.lock and drops what it scanned. *)
Leave(k) ==
    /\ ex' = IF ex = k THEN Nobody ELSE ex
    /\ todo' = [todo EXCEPT ![k] = {}]
    /\ verdict' = [verdict EXCEPT ![k] = "none"]
    /\ stale' = [r \in Repairers |-> IF r = k THEN {} ELSE stale[r]]
    /\ UNCHANGED <<files, lockFile, sh, restoreEx, aged>>

StartCollector(c) ==
    /\ Goto(c, "idle", "try")
    /\ lockFile' = TRUE
    /\ UNCHANGED <<files, ex, sh, restoreEx, scan, aged>>

(* flock(LOCK_EX | LOCK_NB) is refused by any other hold, shared or not. *)
LockCollector(k) ==
    LET free == ex = Nobody /\ sh = {} IN
    /\ Goto(k, "try", IF free THEN "list" ELSE "wait")
    /\ ex' = IF free THEN k ELSE ex
    /\ UNCHANGED <<files, lockFile, sh, restoreEx, scan, aged>>

RetryCollector(k) ==
    /\ Goto(k, "wait", "try")
    /\ UNCHANGED <<files, locks, scan, aged>>

TimeoutCollector(k) == Goto(k, "wait", "idle") /\ Leave(k)

(* inspectLocks: a scan that finds anything blocks the plan; nothing is      *)
(* deleted and the lease is released.                                        *)
InspectLocks(c) ==
    /\ Scanned(c, "read")
    /\ \/ /\ verdict[c] = "none"
          /\ Goto(c, "read", "plan")
          /\ UNCHANGED <<files, locks, scan, aged>>
       \/ /\ verdict[c] # "none"
          /\ Goto(c, "read", "idle")
          /\ Leave(c)

(* The rest of the plan reads the store.  A plan that fails or is blocked by *)
(* a record ends here, any other is followed by the writer recheck.          *)
Plan(c) ==
    \/ Goto(c, "plan", "relist") /\ UNCHANGED <<files, locks, scan, aged>>
    \/ Goto(c, "plan", "idle") /\ Leave(c)

WriterLockAppeared(c) ==
    /\ Scanned(c, "reread")
    /\ \/ /\ verdict[c] = "none"
          /\ Goto(c, "reread", "sweep")
          /\ UNCHANGED <<files, locks, scan, aged>>
       \/ /\ verdict[c] # "none"
          /\ Goto(c, "reread", "idle")
          /\ Leave(c)

ReleaseCollector(c) == Goto(c, "sweep", "idle") /\ Leave(c)

StartRepairer(r) ==
    /\ Goto(r, "idle", "diaglist")
    /\ UNCHANGED <<files, locks, scan, aged>>

(* Mutated: doctor remembers every lock that is not active. *)
DiagnoseInactive(r) ==
    /\ Goto(r, "diagread", "diagread")
    /\ \E n \in todo[r] :
         /\ todo' = [todo EXCEPT ![r] = @ \ {n}]
         /\ stale' = [stale EXCEPT ![r] =
                IF Classify(n) # "active" THEN @ \cup {n} ELSE @]
    /\ UNCHANGED <<files, locks, verdict, aged>>

(* doctor diagnoses without any lock: it remembers the names it saw stale. *)
Diagnose(r) ==
    /\ Goto(r, "diagread", "diagread")
    /\ \E n \in todo[r] :
         /\ todo' = [todo EXCEPT ![r] = @ \ {n}]
         /\ stale' = [stale EXCEPT ![r] =
                IF Classify(n) = "stale" THEN @ \cup {n} ELSE @]
    /\ UNCHANGED <<files, locks, verdict, aged>>

(* The diagnosis is complete and --repair asks for exclusive access. *)
Diagnosed(r) ==
    /\ Scanned(r, "diagread")
    /\ Goto(r, "diagread", "try")
    /\ lockFile' = TRUE
    /\ UNCHANGED <<files, ex, sh, restoreEx, scan, aged>>

(* Mutated: only an unrecognized lock keeps doctor from repairing. *)
DrainUnknownOnly(r) ==
    /\ Scanned(r, "read")
    /\ \/ /\ verdict[r] # "unknown"
          /\ Goto(r, "read", "repair")
          /\ todo' = [todo EXCEPT ![r] = stale[r]]
          /\ UNCHANGED <<files, locks, verdict, stale, aged>>
       \/ /\ verdict[r] = "unknown"
          /\ Goto(r, "read", "idle")
          /\ Leave(r)

(* AcquireCollectorExclusive: wait active writers out, fail on unknown. *)
DrainWriters(r) ==
    /\ Scanned(r, "read")
    /\ \/ /\ verdict[r] = "none"
          /\ Goto(r, "read", "repair")
          /\ todo' = [todo EXCEPT ![r] = stale[r]]
          /\ UNCHANGED <<files, locks, verdict, stale, aged>>
       \/ /\ verdict[r] = "active"
          /\ Goto(r, "read", "drain")
          /\ UNCHANGED <<files, locks, scan, aged>>
       \/ /\ verdict[r] = "unknown"
          /\ Goto(r, "read", "idle")
          /\ Leave(r)

RetryDrain(r) ==
    /\ Goto(r, "drain", "list")
    /\ UNCHANGED <<files, locks, scan, aged>>

TimeoutDrain(r) == Goto(r, "drain", "idle") /\ Leave(r)

(* One repair: unlink a file the unlocked diagnosis called stale.  A removal *)
(* that fails is recorded and the next one is tried.                         *)
RemoveStale(r) ==
    /\ Goto(r, "repair", "repair")
    /\ \E n \in todo[r] :
         /\ todo' = [todo EXCEPT ![r] = @ \ {n}]
         /\ \/ UNCHANGED files
            \/ /\ token' = token \ {w \in Writers : n = <<"token", w>>}
               /\ tmp' = [w \in Writers |->
                            IF n = <<"tmp", w>> THEN "absent" ELSE tmp[w]]
    /\ UNCHANGED <<locks, verdict, stale, aged>>

ReleaseRepairer(r) ==
    /\ Scanned(r, "repair")
    /\ Goto(r, "repair", "idle")
    /\ Leave(r)

-----------------------------------------------------------------------------
(* The environment.                                                          *)

(* A process dies, or ends without its cleanup: the kernel drops its flocks, *)
(* its files stay.                                                           *)
CrashWriter(w) ==
    /\ pc[w] \notin {"idle", "dead"}
    /\ pc' = [pc EXCEPT ![w] = "dead"]
    /\ sh' = sh \ {w}
    /\ restoreEx' = IF restoreEx = w THEN Nobody ELSE restoreEx
    /\ UNCHANGED <<files, lockFile, ex, scan, aged>>

CrashKeeper(k) ==
    /\ pc[k] \notin {"idle", "dead"}
    /\ pc' = [pc EXCEPT ![k] = "dead"]
    /\ Leave(k)

(* A remote record passes the stale threshold.  Bound: no awa process lives  *)
(* as long as the threshold (24 hours), so only a dead writer's record ages. *)
Age(w) ==
    /\ w \in Remote \ aged
    /\ pc[w] = "dead"
    /\ aged' = aged \cup {w}
    /\ UNCHANGED <<pc, files, locks, scan>>

-----------------------------------------------------------------------------
WriterStep(w) ==
    \/ LockRestore(w) \/ RetryRestore(w) \/ TimeoutRestore(w)
    \/ CreateTemp(w) \/ WriteTemp(w) \/ LinkToken(w) \/ DropTemp(w)
    \/ PublishFails(w) \/ Probe(w) \/ Unprobe(w) \/ ProbeFails(w)
    \/ StandDown(w) \/ RetryPresence(w) \/ TimeoutPresence(w) \/ ReleaseWriter(w)

KeeperStep(k) ==
    \/ LockCollector(k) \/ RetryCollector(k) \/ TimeoutCollector(k)
    \/ ListFrom(k, "list", "read") \/ ReadIn(k, "read")

CollectorStep(c) ==
    \/ KeeperStep(c) \/ InspectLocks(c) \/ Plan(c)
    \/ ListFrom(c, "relist", "reread") \/ ReadIn(c, "reread")
    \/ WriterLockAppeared(c) \/ ReleaseCollector(c)

RepairerStep(r) ==
    \/ KeeperStep(r) \/ ListFrom(r, "diaglist", "diagread") \/ Diagnose(r)
    \/ Diagnosed(r) \/ DrainWriters(r) \/ RetryDrain(r) \/ TimeoutDrain(r)
    \/ RemoveStale(r) \/ ReleaseRepairer(r)

Next ==
    \/ \E w \in Writers : StartWriter(w) \/ WriterStep(w) \/ CrashWriter(w) \/ Age(w)
    \/ \E c \in Collectors : StartCollector(c) \/ CollectorStep(c) \/ CrashKeeper(c)
    \/ \E r \in Repairers : StartRepairer(r) \/ RepairerStep(r) \/ CrashKeeper(r)

Spec == Init /\ [][Next]_vars

Timeout(p) ==
    \/ p \in Writers /\ (TimeoutRestore(p) \/ TimeoutPresence(p))
    \/ p \in Keepers /\ TimeoutCollector(p)
    \/ p \in Repairers /\ TimeoutDrain(p)

(* A live process keeps taking its steps.  A wait's context is done after    *)
(* [locks].timeout however often the wait is retried, and then every select  *)
(* finds it ready, so a process that waits again and again times out.        *)
(* Nothing is assumed of starts, crashes or the age of a record.             *)
Fairness ==
    /\ \A w \in Writers : WF_vars(WriterStep(w))
    /\ \A c \in Collectors : WF_vars(CollectorStep(c))
    /\ \A r \in Repairers : WF_vars(RepairerStep(r))
    /\ \A p \in Procs : SF_vars(Timeout(p))

FairSpec == Spec /\ Fairness

-----------------------------------------------------------------------------
(* Properties.                                                               *)

(* From the first scan that found nothing to its release, a keeper plans and *)
(* destroys on the strength of that scan (gc.go: "Collect plans under the    *)
(* lease so a writer cannot publish behind the decision").                   *)
Exclusive(k) == pc[k] \in {"plan", "relist", "reread", "sweep", "repair"}

(* gc's plan and deletion and doctor's repair never overlap a writer's work  *)
(* or each other, whoever died and whenever the tokens were published.       *)
KeeperIsAlone ==
    \A k \in Keepers : Exclusive(k) =>
        /\ \A w \in Writers : pc[w] # "work"
        /\ \A l \in Keepers : Exclusive(l) => l = k

(* A writer at work is visible to every later scan, and a restore at work    *)
(* is the only one.                                                          *)
WorkIsProtected ==
    \A w \in Writers : pc[w] = "work" =>
        /\ w \in token
        /\ w \in Restorers => \A v \in Restorers : pc[v] = "work" => v = w

(* Every way out of an acquisition (success and release, timeout, failed     *)
(* publication, failed probe, blocked plan) gives back all it took: a live   *)
(* idle process has no file and no lock in .awa/locks.                       *)
IdleHoldsNothing ==
    /\ \A w \in Writers : pc[w] = "idle" =>
         w \notin token /\ tmp[w] = "absent" /\ w \notin sh /\ restoreEx # w
    /\ \A k \in Keepers : pc[k] = "idle" => ex # k

(* doctor acts on what it saw before it had any lock, and still no file of a *)
(* live writer is ever changed by another process.                           *)
LiveFilesAreTheirOwners ==
    [][\A w \in Writers : pc[w] # "dead" /\ pc'[w] = pc[w] =>
           /\ tmp'[w] = tmp[w]
           /\ w \in token' <=> w \in token]_vars

(* The protocol implements the store access the rest of awa relies on.       *)
Access == INSTANCE StoreAccess WITH
    sharing <- {w \in Writers : pc[w] = "work"},
    owner <- IF ex \in Keepers /\ Exclusive(ex) THEN ex ELSE Nobody

ImplementsStoreAccess == Access!Spec

(* No acquisition waits for ever: each ends in a lease, an error or a        *)
(* timeout, whatever the others do and whoever holds what.                   *)
Acquiring(p) == pc[p] \in {"rtry", "rwait", "create", "write", "link", "drop",
                           "probe", "shared", "standdown", "wait", "try", "drain"}

AcquisitionEnds == \A p \in Procs : Acquiring(p) ~> ~Acquiring(p)

-----------------------------------------------------------------------------
(* The inductive invariant (LockProtocolProofs proves it).                   *)

Holding == {"list", "read", "plan", "relist", "reread", "sweep", "drain", "repair"}

Published == {"drop", "probe", "shared", "standdown", "work"}

(* flock: an exclusive hold excludes every other one. *)
FlockInv ==
    /\ ex = Nobody \/ sh = {}
    /\ \A w \in Writers : w \in sh <=> pc[w] = "shared"
    /\ \A k \in Keepers : ex = k <=> pc[k] \in Holding
    /\ \A k \in Keepers : pc[k] \in Holding \cup {"try", "wait"} => lockFile
    /\ ~lockFile => ex = Nobody

(* Which files a writer has is a function of where it is, until it dies. *)
FileInv ==
    \A w \in Writers : pc[w] # "dead" =>
        /\ w \in token <=> pc[w] \in Published
        /\ tmp[w] # "absent" => pc[w] \in {"write", "link", "drop"}
        /\ w \notin aged

RestoreInv ==
    \A w \in Writers :
        restoreEx = w <=> w \in Restorers
                          /\ pc[w] \notin {"idle", "dead", "rtry", "rwait"}

(* A writer at work that the scan under the lease has not counted is still   *)
(* to be read; once the scan is done with no writer, there is none.          *)
ScanInv ==
    \A k \in Keepers, w \in Writers : pc[w] = "work" =>
        /\ ~Exclusive(k)
        /\ pc[k] = "read" => <<"token", w>> \in todo[k] \/ verdict[k] # "none"

(* What was stale once stays stale. *)
StaleInv ==
    /\ \A r \in Repairers : \A n \in stale[r] : pc[n[2]] = "dead"
    /\ \A r \in Repairers : pc[r] = "repair" => todo[r] \subseteq stale[r]

Inv == FlockInv /\ FileInv /\ RestoreInv /\ ScanInv /\ StaleInv

IInv == TypeOK /\ Inv
=============================================================================
