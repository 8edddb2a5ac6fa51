---------------------------- MODULE LockFallback ----------------------------
(* The lock directory in the build for platforms without flock (windows and  *)
(* the other unixes): gc.lock is a file published under its name, whose      *)
(* record says who holds it.  A collector that meets a stale record renames  *)
(* it to a private claim, looks again at what it has got, and discards or    *)
(* restores it; every system call another process can observe is a step.     *)
(* Writers do what they do in LockProtocol; only their probe differs.  What  *)
(* LockProtocol also has under another definition is called Plain... here.   *)
EXTENDS FiniteSets

CONSTANTS PlainWriters,     \* processes that write to the store
          PlainCollectors,  \* processes of "awa gc"
          PlainRepairers,   \* processes of "awa doctor --repair"
          Old,              \* the record of a collector of another host that
                            \* died longer ago than the stale threshold
          Foreign,          \* a record this build cannot parse
          None              \* no file

ASSUME FallbackAssumption ==
    /\ PlainWriters \cap PlainCollectors = {}
    /\ PlainWriters \cap PlainRepairers = {}
    /\ PlainCollectors \cap PlainRepairers = {}
    /\ None \notin PlainCollectors \cup PlainRepairers
    /\ Old \notin PlainCollectors \cup PlainRepairers \cup {None}
    /\ Foreign \notin PlainCollectors \cup PlainRepairers \cup {None, Old}

PlainKeepers == PlainCollectors \cup PlainRepairers
PlainProcs == PlainWriters \cup PlainKeepers

(* A record names its owner.  ProcessAlive answers true for every pid here,  *)
(* so the record of this host is active even when its owner has died.        *)
Records == PlainKeepers \cup {Old}

(* Names of .awa/locks that a scan counts: tokens, claims, and the temps of  *)
(* publications; gc.lock itself is skipped.                                  *)
PlainNames ==
    ({"token"} \X PlainWriters) \cup ({"claim", "leak"} \X PlainKeepers)
        \cup ({"temp"} \X PlainProcs)

VARIABLES
    stage,      \* what each process is about to do
    tokens,     \* writers whose token is in the directory
    lock,       \* what the file gc.lock records
    claim,      \* keeper -> what the file it renamed away records
    leaked,     \* records in claims whose keeper gave up restoring them
    unread,     \* keeper -> listed names it has not read yet
    judged,     \* keeper -> what the names read so far amount to
    snatched    \* history: the record of a holder was once renamed away

plainVars == <<stage, tokens, lock, claim, leaked, unread, judged, snatched>>
plainFiles == <<tokens, lock, claim, leaked>>
plainScan == <<unread, judged>>

PlainWriterPC ==
    {"idle", "ended", "publish", "probe", "standdown", "wait", "work"}
KeeperPC ==
    {"idle", "ended", "publish", "inspect", "rename", "reread", "restore",
     "discard", "blind", "wait", "list", "read", "drain", "plan", "relist",
     "recheck", "alone"}

PlainTypeOK ==
    /\ stage \in [PlainProcs -> PlainWriterPC \cup KeeperPC]
    /\ \A w \in PlainWriters : stage[w] \in PlainWriterPC
    /\ \A k \in PlainKeepers : stage[k] \in KeeperPC
    /\ tokens \subseteq PlainWriters
    /\ lock \in Records \cup {None, Foreign}
    /\ claim \in [PlainKeepers -> Records \cup {None, Foreign}]
    /\ leaked \subseteq Records \cup {None, Foreign}
    /\ unread \in [PlainKeepers -> SUBSET PlainNames]
    /\ judged \in [PlainKeepers -> {"none", "active", "unknown"}]
    /\ snatched \in BOOLEAN

PlainInit ==
    /\ stage = [p \in PlainProcs |-> "idle"]
    /\ tokens = {}
    /\ lock \in {None, Old, Foreign}
    /\ claim = [k \in PlainKeepers |-> None]
    /\ leaked = {}
    /\ unread = [k \in PlainKeepers |-> {}]
    /\ judged = [k \in PlainKeepers |-> "none"]
    /\ snatched = FALSE

Move(p, from, to) == stage[p] = from /\ stage' = [stage EXCEPT ![p] = to]

-----------------------------------------------------------------------------
(* Writers: AcquirePresence and Release.  An id is one invocation.           *)

Start(p) ==
    Move(p, "idle", "publish") /\ UNCHANGED <<plainFiles, plainScan, snatched>>

PublishToken(w) ==
    /\ Move(w, "publish", "probe")
    /\ tokens' = tokens \cup {w}
    /\ UNCHANGED <<lock, claim, leaked, plainScan, snatched>>

(* collectorActive: no file and a stale record admit the writer, an active   *)
(* one makes it stand down, an unrecognized one fails it.                    *)
PlainProbe(w) ==
    /\ Move(w, "probe", IF lock \in {None, Old} THEN "work"
                        ELSE IF lock = Foreign THEN "ended" ELSE "standdown")
    /\ tokens' = IF lock = Foreign THEN tokens \ {w} ELSE tokens
    /\ UNCHANGED <<lock, claim, leaked, plainScan, snatched>>

PlainStandDown(w) ==
    /\ Move(w, "standdown", "wait")
    /\ tokens' = tokens \ {w}
    /\ UNCHANGED <<lock, claim, leaked, plainScan, snatched>>

Retry(p) ==
    Move(p, "wait", "publish") /\ UNCHANGED <<plainFiles, plainScan, snatched>>

PlainTimeout(p) ==
    Move(p, "wait", "ended") /\ UNCHANGED <<plainFiles, plainScan, snatched>>

PlainReleaseWriter(w) ==
    /\ Move(w, "work", "ended")
    /\ tokens' = tokens \ {w}
    /\ UNCHANGED <<lock, claim, leaked, plainScan, snatched>>

-----------------------------------------------------------------------------
(* Keepers: acquireCollector.                                                *)

(* The publication is exclusive: it fails when the name is taken. *)
PublishLock(k) ==
    /\ Move(k, "publish", IF lock = None THEN "list" ELSE "inspect")
    /\ lock' = IF lock = None THEN k ELSE lock
    /\ UNCHANGED <<tokens, claim, leaked, plainScan, snatched>>

(* The conflicting record is read and classified.  A file that has gone by   *)
(* now is an unreadable lock to this code, which gives up as for a record    *)
(* it cannot parse; only a stale record is reclaimed.                        *)
Inspect(k) ==
    /\ Move(k, "inspect", IF lock \in {None, Foreign} THEN "ended"
                          ELSE IF lock = Old THEN "rename" ELSE "wait")
    /\ UNCHANGED <<plainFiles, plainScan, snatched>>

(* A system call of an acquisition failed otherwise: the error is returned,  *)
(* a writer's token is removed.  Bound: a removal does not fail.             *)
Fails(p) ==
    /\ \E at \in {"publish", "probe", "inspect", "rename"} : Move(p, at, "ended")
    /\ tokens' = tokens \ {p}
    /\ UNCHANGED <<lock, claim, leaked, plainScan, snatched>>

(* One racer wins the rename of whatever is there now; the others start over. *)
Rename(k) ==
    /\ Move(k, "rename", IF lock = None THEN "publish" ELSE "reread")
    /\ claim' = [claim EXCEPT ![k] = lock]
    /\ lock' = None
    /\ snatched' = (snatched \/ lock \in PlainKeepers)
    /\ UNCHANGED <<tokens, leaked, plainScan>>

(* Mutated: what was renamed is believed to be what was classified. *)
RereadTrusting(k) ==
    /\ Move(k, "reread", "discard")
    /\ UNCHANGED <<plainFiles, plainScan, snatched>>

(* sameRecord: is it the record that was classified?  A claim that cannot be *)
(* read is discarded like the stale one.                                     *)
Reread(k) ==
    /\ \/ Move(k, "reread", IF claim[k] \in PlainKeepers THEN "restore" ELSE "discard")
       \/ Move(k, "reread", "blind")
    /\ UNCHANGED <<plainFiles, plainScan, snatched>>

(* The record of a holder is published again under the name; when the name   *)
(* has been taken meanwhile, the claim stays on disk and the error ends this *)
(* acquisition.                                                              *)
Restore(k) ==
    /\ Move(k, "restore", IF lock = None THEN "discard" ELSE "ended")
    /\ lock' = IF lock = None THEN claim[k] ELSE lock
    /\ leaked' = IF lock = None THEN leaked ELSE leaked \cup {claim[k]}
    /\ claim' = IF lock = None THEN claim ELSE [claim EXCEPT ![k] = None]
    /\ UNCHANGED <<tokens, plainScan, snatched>>

Discard(k) ==
    /\ Move(k, "discard", "publish") \/ Move(k, "blind", "publish")
    /\ claim' = [claim EXCEPT ![k] = None]
    /\ UNCHANGED <<tokens, lock, leaked, plainScan, snatched>>

-----------------------------------------------------------------------------
(* Keepers: the scan for writers, as in LockProtocol, and the release.       *)

PlainPresent ==
    {n \in PlainNames :
        \/ n[1] = "token" /\ n[2] \in tokens
        \/ n[1] = "claim" /\ claim[n[2]] # None
        \/ n[1] = "leak" /\ n[2] \in leaked
        \/ n[1] = "temp" /\ stage[n[2]] = "publish"}

PlainListFrom(k, from, to) ==
    /\ Move(k, from, to)
    /\ unread' = [unread EXCEPT ![k] = PlainPresent \ {<<"temp", k>>}]
    /\ judged' = [judged EXCEPT ![k] = "none"]
    /\ UNCHANGED <<plainFiles, snatched>>

(* Parse and Classify: a claim is judged by its record, so a stale one counts *)
(* nothing; a temp is unrecognized until its bytes are written.               *)
Readings(n) ==
    IF n \notin PlainPresent \/ (n[1] = "claim" /\ claim[n[2]] = Old) THEN {"none"}
    ELSE IF n[1] = "temp" THEN {"active", "unknown"} ELSE {"active"}

PlainReadIn(k, at) ==
    /\ Move(k, at, at)
    /\ \E n \in unread[k] : \E r \in Readings(n) :
         /\ unread' = [unread EXCEPT ![k] = @ \ {n}]
         /\ judged' = [judged EXCEPT ![k] =
                IF r = "unknown" \/ @ = "unknown" THEN "unknown"
                ELSE IF r = "active" THEN "active" ELSE @]
    /\ UNCHANGED <<plainFiles, snatched>>

(* Release unlinks gc.lock by name, whoever it belongs to by now. *)
PlainLeave(k) ==
    /\ lock' = None
    /\ unread' = [unread EXCEPT ![k] = {}]
    /\ judged' = [judged EXCEPT ![k] = "none"]
    /\ UNCHANGED <<tokens, claim, leaked, snatched>>

(* Mutated: only an unrecognized lock keeps gc from planning. *)
PlainScannedUnknownOnly(k) ==
    /\ stage[k] = "read" /\ unread[k] = {}
    /\ \/ /\ judged[k] # "unknown"
          /\ Move(k, "read", IF k \in PlainRepairers THEN "alone" ELSE "plan")
          /\ UNCHANGED <<plainFiles, plainScan, snatched>>
       \/ /\ judged[k] = "unknown"
          /\ Move(k, "read", "ended")
          /\ PlainLeave(k)

(* gc's inspectLocks stands down for anything; doctor waits active writers    *)
(* out and fails on an unrecognized lock.                                     *)
PlainScanned(k) ==
    /\ stage[k] = "read" /\ unread[k] = {}
    /\ \/ /\ judged[k] = "none"
          /\ Move(k, "read", IF k \in PlainRepairers THEN "alone" ELSE "plan")
          /\ UNCHANGED <<plainFiles, plainScan, snatched>>
       \/ /\ judged[k] = "active" /\ k \in PlainRepairers
          /\ Move(k, "read", "drain")
          /\ UNCHANGED <<plainFiles, plainScan, snatched>>
       \/ /\ judged[k] = "unknown" \/ (judged[k] = "active" /\ k \in PlainCollectors)
          /\ Move(k, "read", "ended")
          /\ PlainLeave(k)

PlainRetryDrain(r) ==
    Move(r, "drain", "list") /\ UNCHANGED <<plainFiles, plainScan, snatched>>

PlainTimeoutDrain(r) == Move(r, "drain", "ended") /\ PlainLeave(r)

(* gc plans, then looks for writers once more before it deletes. *)
PlainPlan(c) ==
    \/ Move(c, "plan", "relist") /\ UNCHANGED <<plainFiles, plainScan, snatched>>
    \/ Move(c, "plan", "ended") /\ PlainLeave(c)

PlainWriterLockAppeared(c) ==
    /\ stage[c] = "recheck" /\ unread[c] = {}
    /\ \/ /\ judged[c] = "none"
          /\ Move(c, "recheck", "alone")
          /\ UNCHANGED <<plainFiles, plainScan, snatched>>
       \/ /\ judged[c] # "none"
          /\ Move(c, "recheck", "ended")
          /\ PlainLeave(c)

ReleaseKeeper(k) == Move(k, "alone", "ended") /\ PlainLeave(k)

-----------------------------------------------------------------------------
(* A process dies, or ends without its cleanup: its files stay. *)
Crash(p) ==
    /\ stage[p] \notin {"idle", "ended"}
    /\ stage' = [stage EXCEPT ![p] = "ended"]
    /\ unread' = [k \in PlainKeepers |-> IF k = p THEN {} ELSE unread[k]]
    /\ judged' = [k \in PlainKeepers |-> IF k = p THEN "none" ELSE judged[k]]
    /\ UNCHANGED <<plainFiles, snatched>>

PlainWriterStep(w) ==
    \/ PublishToken(w) \/ PlainProbe(w) \/ PlainStandDown(w) \/ Retry(w)
    \/ PlainTimeout(w) \/ Fails(w) \/ PlainReleaseWriter(w)

PlainKeeperStep(k) ==
    \/ PublishLock(k) \/ Inspect(k) \/ Rename(k) \/ Reread(k) \/ Restore(k)
    \/ Discard(k) \/ Retry(k) \/ PlainTimeout(k) \/ Fails(k)
    \/ PlainListFrom(k, "list", "read") \/ PlainReadIn(k, "read") \/ PlainScanned(k)
    \/ ReleaseKeeper(k)

PlainCollectorStep(c) ==
    \/ PlainKeeperStep(c) \/ PlainPlan(c) \/ PlainListFrom(c, "relist", "recheck")
    \/ PlainReadIn(c, "recheck") \/ PlainWriterLockAppeared(c)

PlainRepairerStep(r) ==
    PlainKeeperStep(r) \/ PlainRetryDrain(r) \/ PlainTimeoutDrain(r)

PlainNext ==
    \/ \E w \in PlainWriters : Start(w) \/ PlainWriterStep(w) \/ Crash(w)
    \/ \E c \in PlainCollectors : Start(c) \/ PlainCollectorStep(c) \/ Crash(c)
    \/ \E r \in PlainRepairers : Start(r) \/ PlainRepairerStep(r) \/ Crash(r)

PlainSpec == PlainInit /\ [][PlainNext]_plainVars

-----------------------------------------------------------------------------
(* Properties.                                                               *)

PlainExclusive(k) == stage[k] \in {"plan", "relist", "recheck", "alone"}

(* The lease of a keeper, from its publication to its release. *)
Holds(k) == PlainExclusive(k) \/ stage[k] \in {"list", "read", "drain"}

(* gc's deletions and doctor's repair never overlap a writer's work or each  *)
(* other, as long as no reclaim has renamed away the lock of a holder: the   *)
(* only window of the fallback is the one between rename and restore.        *)
AloneUnlessSnatched ==
    ~snatched => \A k \in PlainKeepers : PlainExclusive(k) =>
        /\ \A w \in PlainWriters : stage[w] # "work"
        /\ \A l \in PlainKeepers : Holds(l) => l = k

(* The record of a holder is on disk, under the name or in a claim that is   *)
(* not a leftover of its restoration.                                        *)
Recorded(k) ==
    \/ lock = k \/ k \in leaked
    \/ \E l \in PlainKeepers : claim[l] = k /\ stage[l] # "discard"

(* Reclaiming a stale lock never destroys the record of a holder, whatever   *)
(* the race ("Better a leaked reclaim file than a destroyed live token"):    *)
(* only another process's release, which unlinks by name, can remove it, and *)
(* the discarding of a claim that could not be read.                         *)
ReclaimDestroysNothing ==
    [][\A k \in PlainKeepers : Holds(k) /\ Recorded(k) /\ Holds(k)' =>
           \/ Recorded(k)'
           \/ \E l \in PlainKeepers \ {k} : Holds(l) /\ stage'[l] = "ended"
           \/ \E l \in PlainKeepers : stage[l] = "blind" /\ claim[l] = k]_plainVars

-----------------------------------------------------------------------------
(* The inductive invariant (LockProtocolProofs proves it).                   *)

(* Which token a writer has is a function of where it is, until it ends. *)
TokenInv ==
    \A w \in PlainWriters : stage[w] # "ended" =>
        (w \in tokens <=> stage[w] \in {"probe", "standdown", "work"})

(* A claim of a holder's record is what "snatched" remembers; until then a   *)
(* holder is the one whose record is under the name.                         *)
HolderInv ==
    /\ \A k \in PlainKeepers : claim[k] \in PlainKeepers => snatched
    /\ ~snatched => \A k \in PlainKeepers : Holds(k) => lock = k

(* A writer at work that the scan of a holder has not counted is still to be *)
(* read; once the scan is done with no writer, there is none.                *)
PlainScanInv ==
    ~snatched => \A k \in PlainKeepers, w \in PlainWriters : stage[w] = "work" =>
        /\ ~PlainExclusive(k)
        /\ stage[k] = "read" => <<"token", w>> \in unread[k] \/ judged[k] # "none"

PlainInv == PlainTypeOK /\ TokenInv /\ HolderInv /\ PlainScanInv
=============================================================================
