------------------------------ MODULE StoreGC ------------------------------
(* The evidence store: checkpoint records, restore recovery records and the  *)
(* blobs both refer to, with the writers that publish them, gc's mark and    *)
(* sweep (internal/app/gc) and doctor's removal of unfinished publications.  *)
(* Every file created, linked, renamed or removed is a step; a process may   *)
(* fail or die at any of them.  Who may run with whom is StoreAccess, which  *)
(* LockProtocol implements.                                                  *)
EXTENDS FiniteSets, Naturals

CONSTANTS Checkpoints,  \* ids of checkpoints; each is published once, by its own process
          Restores,     \* ids of restore --apply operations, likewise
          Blobs,        \* contents
          Keeps,        \* the values gc's keep-last takes, from config or request
          Gc, Doctor,   \* the two destructive passes
          Nobody,
          Faulty,       \* removing a file may fail
          Crashing      \* a process may die

ASSUME StoreAssumption ==
    /\ Checkpoints \cap Restores = {}
    /\ IsFiniteSet(Checkpoints)
    /\ Keeps \subseteq Nat
    /\ Gc # Doctor
    /\ {Gc, Doctor} \cap (Checkpoints \cup Restores) = {}
    /\ Nobody \notin {Gc, Doctor} \cup Checkpoints \cup Restores
    /\ Faulty \in BOOLEAN
    /\ Crashing \in BOOLEAN

Records == Checkpoints \cup Restores

VARIABLES
    sharing,   \* writers inside the store (StoreAccess)
    owner,     \* the destructive pass that has it alone (StoreAccess)
    pc,        \* where the writer of each record is
    refs,      \* record -> the blobs its manifest refers to
    pending,   \* record -> those its writer has not stored yet
    hand,      \* record -> the blob in its writer's temp in store/tmp, or {}
    staged,    \* restores whose record is staged in restores/tmp
    files,     \* record -> what exists at its address
    blobs,     \* published blobs
    born,      \* checkpoint -> its place in the order of createdAt, 0 if none
    phase,     \* what gc is doing
    doomed,    \* the delete candidates gc has not come to yet
    whole,     \* this gc covers every kind and has had no failure
    suspects,  \* records doctor's unlocked diagnosis saw without a header
    removing,  \* the record whose directory a keeper is removing, or {}
    condemned  \* auxiliary: records a gc chose to delete or a restore dropped

store == <<files, blobs, staged, hand>>
access == <<sharing, owner>>
writer == <<pc, refs, pending, born>>
keeper == <<phase, doomed, whole, suspects, removing>>
vars == <<access, writer, store, keeper, condemned>>

Access == INSTANCE StoreAccess
            WITH Writers <- Records, Restorers <- Restores, Keepers <- {Gc, Doctor}

CheckpointFiles == {"dir", "tmp", "manifest", "frontier", "header"}
RestoreFiles == {"dir", "meta", "manifest", "scope"}

WriterPC == {"new", "start", "stream", "link", "unlink", "frontier", "header",
             "rename", "apply", "drop", "done", "gone", "dead"}

Kinds == {"checkpoint", "restore", "blob", "temp"}

NoCandidates == [records |-> {}, blobs |-> {}, temps |-> {}]

TypeOK ==
    /\ Access!TypeOK
    /\ pc \in [Records -> WriterPC]
    /\ refs \in [Records -> SUBSET Blobs]
    /\ pending \in [Records -> SUBSET Blobs]
    /\ hand \in [Records -> SUBSET Blobs]
    /\ staged \subseteq Restores
    /\ files \in [Records -> SUBSET (CheckpointFiles \cup RestoreFiles)]
    /\ \A c \in Checkpoints : files[c] \subseteq CheckpointFiles
    /\ \A r \in Restores : files[r] \subseteq RestoreFiles
    /\ blobs \subseteq Blobs
    /\ born \in [Checkpoints -> Nat]
    /\ phase \in {"idle", "plan"} \cup Kinds
    /\ doomed \in [records : SUBSET Records, blobs : SUBSET Blobs, temps : SUBSET Records]
    /\ whole \in BOOLEAN
    /\ suspects \subseteq Checkpoints
    /\ removing \subseteq Records
    /\ condemned \subseteq Records

Init ==
    /\ Access!Init
    /\ pc = [x \in Records |-> "new"]
    /\ refs = [x \in Records |-> {}]
    /\ pending = [x \in Records |-> {}]
    /\ hand = [x \in Records |-> {}]
    /\ staged = {}
    /\ files = [x \in Records |-> {}]
    /\ blobs = {}
    /\ born = [c \in Checkpoints |-> 0]
    /\ phase = "idle"
    /\ doomed = NoCandidates
    /\ whole = FALSE
    /\ suspects = {}
    /\ removing = {}
    /\ condemned = {}

Goto(x, from, to) == pc[x] = from /\ pc' = [pc EXCEPT ![x] = to]

-----------------------------------------------------------------------------
(* Writers: checkpoint and restore --apply.                                  *)

(* Mutated: the writer does not wait for a destructive pass. *)
EnterUnlocked(x) ==
    /\ Goto(x, "new", "start")
    /\ sharing' = sharing \cup {x}
    /\ UNCHANGED <<owner, refs, pending, born, store, keeper, condemned>>

Enter(x) ==
    /\ Goto(x, "new", "start")
    /\ Access!Enter(x)
    /\ UNCHANGED <<refs, pending, born, store, keeper, condemned>>

(* The scan is over: the id and createdAt are fixed, and PutManifest opens   *)
(* the manifest's temp in the record's directory.                            *)
OpenRecord(c) ==
    /\ c \in Checkpoints
    /\ Goto(c, "start", "stream")
    /\ born' = [born EXCEPT ![c] = 1 + Cardinality({d \in Checkpoints : born[d] # 0})]
    /\ \E content \in SUBSET Blobs :
         /\ refs' = [refs EXCEPT ![c] = content]
         /\ pending' = [pending EXCEPT ![c] = content]
    /\ files' = [files EXCEPT ![c] = {"dir", "tmp"}]
    /\ UNCHANGED <<access, blobs, staged, hand, keeper, condemned>>

(* A complete, applicable plan: the bytes the commit may destroy are captured. *)
BeginCapture(r) ==
    /\ r \in Restores
    /\ Goto(r, "start", "stream")
    /\ \E content \in SUBSET Blobs :
         /\ refs' = [refs EXCEPT ![r] = content]
         /\ pending' = [pending EXCEPT ![r] = content]
    /\ UNCHANGED <<access, born, store, keeper, condemned>>

(* Materialize: a blob that is there is verified and reused, *)
ReuseBlob(x) ==
    /\ Goto(x, "stream", "stream")
    /\ \E b \in pending[x] \cap blobs : pending' = [pending EXCEPT ![x] = @ \ {b}]
    /\ UNCHANGED <<access, refs, born, store, keeper, condemned>>

(* any other is written to a temp, hashed on the way, *)
CreateBlobTemp(x) ==
    /\ Goto(x, "stream", "link")
    /\ \E b \in pending[x] \ blobs : hand' = [hand EXCEPT ![x] = {b}]
    /\ UNCHANGED <<access, refs, pending, born, files, blobs, staged, keeper, condemned>>

(* linked to its address (or found there, put by another writer), *)
LinkBlob(x) ==
    /\ Goto(x, "link", "unlink")
    /\ blobs' = blobs \cup hand[x]
    /\ UNCHANGED <<access, refs, pending, born, files, staged, hand, keeper, condemned>>

(* and its temp is removed. *)
DropBlobTemp(x) ==
    /\ Goto(x, "unlink", "stream")
    /\ hand' = [hand EXCEPT ![x] = {}]
    /\ pending' = [pending EXCEPT ![x] = @ \ hand[x]]
    /\ UNCHANGED <<access, refs, born, files, blobs, staged, keeper, condemned>>

(* PutManifest: manifest, then frontier, then the header, the commit point.  *)
PublishManifest(c) ==
    /\ c \in Checkpoints
    /\ pending[c] = {}
    /\ Goto(c, "stream", "frontier")
    /\ files' = [files EXCEPT ![c] = (@ \ {"tmp"}) \cup {"manifest"}]
    /\ UNCHANGED <<access, refs, pending, born, blobs, staged, hand, keeper, condemned>>

PublishFrontier(c) ==
    /\ c \in Checkpoints
    /\ Goto(c, "frontier", "header")
    /\ files' = [files EXCEPT ![c] = @ \cup {"frontier"}]
    /\ UNCHANGED <<access, refs, pending, born, blobs, staged, hand, keeper, condemned>>

PublishHeader(c) ==
    /\ c \in Checkpoints
    /\ Goto(c, "header", "done")
    /\ files' = [files EXCEPT ![c] = @ \cup {"header"}]
    /\ UNCHANGED <<access, refs, pending, born, blobs, staged, hand, keeper, condemned>>

(* Mutated: the record is published before its bytes are captured. *)
StageBeforeCapture(r) ==
    /\ r \in Restores
    /\ Goto(r, "stream", "rename")
    /\ staged' = staged \cup {r}
    /\ UNCHANGED <<access, refs, pending, born, files, blobs, hand, keeper, condemned>>

(* A recovery record is staged whole and published by one rename. *)
StageRecord(r) ==
    /\ r \in Restores
    /\ pending[r] = {}
    /\ Goto(r, "stream", "rename")
    /\ staged' = staged \cup {r}
    /\ UNCHANGED <<access, refs, pending, born, files, blobs, hand, keeper, condemned>>

(* A directory sync that fails after the rename rolls the record back. *)
PublishRecord(r) ==
    /\ r \in Restores
    /\ staged' = staged \ {r}
    /\ files' = [files EXCEPT ![r] = RestoreFiles]
    /\ \/ Goto(r, "rename", "apply") /\ UNCHANGED condemned
       \/ Faulty /\ Goto(r, "rename", "drop") /\ condemned' = condemned \cup {r}
    /\ UNCHANGED <<access, refs, pending, born, blobs, hand, keeper>>

(* The worktree is changed, or a conflict or a failure comes first: then the *)
(* record is dropped, for it would offer to undo what never happened.        *)
EndApply(r) ==
    /\ \/ Goto(r, "apply", "done") /\ UNCHANGED condemned
       \/ Goto(r, "apply", "drop") /\ condemned' = condemned \cup {r}
    /\ UNCHANGED <<access, refs, pending, born, store, keeper>>

(* RemoveTreeAt: the entries in any order, then the directory itself. *)
RemoveOne(x) ==
    \E f \in files[x] :
        /\ f = "dir" => files[x] = {"dir"}
        /\ files' = [files EXCEPT ![x] = @ \ {f}]

DropRecord(r) ==
    /\ pc[r] = "drop"
    /\ RemoveOne(r)
    /\ pc' = [pc EXCEPT ![r] = IF files'[r] = {} THEN "done" ELSE "drop"]
    /\ UNCHANGED <<access, refs, pending, born, blobs, staged, hand, keeper, condemned>>

DropFails(r) ==
    /\ Faulty
    /\ Goto(r, "drop", "done")
    /\ UNCHANGED <<access, refs, pending, born, store, keeper, condemned>>

(* Any failure before the commit point: the process removes its temps and    *)
(* leaves what it has published.                                             *)
Abort(x) ==
    /\ pc[x] \in {"start", "stream", "link", "frontier", "header", "rename"}
    /\ Goto(x, pc[x], "done")
    /\ hand' = [hand EXCEPT ![x] = {}]
    /\ staged' = staged \ {x}
    /\ files' = [files EXCEPT ![x] = @ \ {"tmp"}]
    /\ pending' = [pending EXCEPT ![x] = {}]
    /\ UNCHANGED <<access, refs, born, blobs, keeper, condemned>>

Leave(x) ==
    /\ Goto(x, "done", "gone")
    /\ Access!Leave(x)
    /\ UNCHANGED <<refs, pending, born, store, keeper, condemned>>

(* A writer dies; in the middle of a publication its temp stays as well. *)
Crash(x) ==
    /\ Crashing
    /\ pc[x] \notin {"new", "gone", "dead"}
    /\ pc' = [pc EXCEPT ![x] = "dead"]
    /\ Access!Leave(x)
    /\ \/ UNCHANGED files
       \/ /\ x \in Checkpoints
          /\ pc[x] \in {"frontier", "header"}
          /\ files' = [files EXCEPT ![x] = @ \cup {"tmp"}]
    /\ pending' = [pending EXCEPT ![x] = {}]
    /\ UNCHANGED <<refs, born, blobs, staged, hand, keeper, condemned>>

-----------------------------------------------------------------------------
(* gc: one plan under the exclusive lease, then deletion in dependency order. *)

Committed == {c \in Checkpoints : "header" \in files[c]}
Recoveries == {r \in Restores : "dir" \in files[r]}
Temps == {x \in Records : hand[x] # {} \/ x \in staged}

(* Mutated: the records are ranked oldest first. *)
RankOldestFirst(c) == Cardinality({d \in Committed : born[d] < born[c]})

(* How many committed checkpoints are newer. *)
Rank(c) == Cardinality({d \in Committed : born[d] > born[c]})

(* Those outside the retention policy, newest first: the latest and the      *)
(* keep-last newest stay, and so does what --older-than or --committed       *)
(* puts after the cut.                                                       *)
Expired(keep, cut) == {c \in Committed : Rank(c) > 0 /\ Rank(c) >= keep /\ Rank(c) >= cut}

(* A record that cannot be read and is not to be deleted leaves reachability *)
(* incomplete; so does any recovery record without its metadata.             *)
Blocked(retained) ==
    \/ \E x \in retained : "manifest" \notin files[x]
    \/ \E r \in Recoveries : "meta" \notin files[r]

(* Mutated: a record that is about to be deleted keeps its blobs. *)
MarkedByAll(retained) == UNION {refs[x] : x \in retained \cup Committed \cup Recoveries}

Marked(retained) == UNION {refs[x] : x \in retained}

GcBegin ==
    /\ phase = "idle"
    /\ phase' = "plan"
    /\ Access!Begin(Gc)
    /\ UNCHANGED <<writer, store, doomed, whole, suspects, removing, condemned>>

(* Release of the lease, by the end of the pass or by the death of gc. *)
GcLeave ==
    /\ phase' = "idle"
    /\ doomed' = NoCandidates
    /\ whole' = FALSE
    /\ removing' = {}
    /\ Access!End(Gc)
    /\ UNCHANGED <<writer, store, suspects, condemned>>

(* The filter admits every kind or one.  Temps count when they are older     *)
(* than the stale threshold; bound: only a dead writer's are.                *)
GcPlan ==
    /\ phase = "plan"
    /\ \E keep \in Keeps, cut \in 0 .. Cardinality(Checkpoints),
          old \in SUBSET Recoveries, filter \in {Kinds} \cup {{k} : k \in Kinds} :
         LET dead == (IF "checkpoint" \in filter THEN Expired(keep, cut) ELSE {})
                       \cup (IF "restore" \in filter THEN old ELSE {})
             retained == (Committed \cup Recoveries) \ dead
         IN \/ Blocked(retained) /\ GcLeave
            \/ /\ ~Blocked(retained)
               /\ phase' = "checkpoint"
               /\ doomed' = [records |-> dead,
                             blobs |-> IF "blob" \in filter
                                       THEN blobs \ Marked(retained) ELSE {},
                             temps |-> IF "temp" \in filter
                                       THEN {x \in Temps : pc[x] = "dead"} ELSE {}]
               /\ whole' = (filter = Kinds)
               /\ condemned' = condemned \cup dead
               /\ UNCHANGED <<access, writer, store, suspects, removing>>

(* The records of the phase's own kind. *)
Candidates ==
    doomed.records \cap (IF phase = "checkpoint" THEN Checkpoints
                         ELSE IF phase = "restore" THEN Restores ELSE {})

GcDeleteRecord ==
    \E x \in Candidates :
        /\ removing \in {{}, {x}}
        /\ RemoveOne(x)
        /\ removing' = IF files'[x] = {} THEN {} ELSE {x}
        /\ doomed' = IF files'[x] = {} THEN [doomed EXCEPT !.records = @ \ {x}] ELSE doomed
        /\ UNCHANGED <<access, writer, blobs, staged, hand, phase, whole, suspects, condemned>>

GcDeleteBlob ==
    /\ phase = "blob"
    /\ \E b \in doomed.blobs :
         /\ blobs' = blobs \ {b}
         /\ doomed' = [doomed EXCEPT !.blobs = @ \ {b}]
    /\ UNCHANGED <<access, writer, files, staged, hand, phase, whole, suspects, removing,
                   condemned>>

GcDeleteTemp ==
    /\ phase = "temp"
    /\ \E x \in doomed.temps :
         /\ hand' = [hand EXCEPT ![x] = {}]
         /\ staged' = staged \ {x}
         /\ doomed' = [doomed EXCEPT !.temps = @ \ {x}]
    /\ UNCHANGED <<access, writer, files, blobs, phase, whole, suspects, removing, condemned>>

(* A deletion that fails is recorded and the next candidate is tried. *)
GcDeleteFails ==
    /\ Faulty
    /\ \/ \E x \in Candidates :
            /\ removing \in {{}, {x}}
            /\ doomed' = [doomed EXCEPT !.records = @ \ {x}]
       \/ /\ phase = "blob"
          /\ \E b \in doomed.blobs : doomed' = [doomed EXCEPT !.blobs = @ \ {b}]
       \/ /\ phase = "temp"
          /\ \E x \in doomed.temps : doomed' = [doomed EXCEPT !.temps = @ \ {x}]
    /\ removing' = {}
    /\ whole' = FALSE
    /\ UNCHANGED <<access, writer, store, phase, suspects, condemned>>

GcNextPhase ==
    /\ \/ phase = "checkpoint" /\ Candidates = {} /\ phase' = "restore"
       \/ phase = "restore" /\ Candidates = {} /\ phase' = "blob"
       \/ phase = "blob" /\ doomed.blobs = {} /\ phase' = "temp"
    /\ UNCHANGED <<access, writer, store, doomed, whole, suspects, removing, condemned>>

GcEnd == phase = "temp" /\ doomed.temps = {} /\ GcLeave

GcCrash == Crashing /\ phase # "idle" /\ GcLeave

-----------------------------------------------------------------------------
(* doctor: an unlocked diagnosis, then repairs with the store to itself.     *)

Headerless(c) == "dir" \in files[c] /\ "header" \notin files[c]

Suspect(c) ==
    /\ c \in Checkpoints
    /\ owner # Doctor
    /\ Headerless(c)
    /\ suspects' = suspects \cup {c}
    /\ UNCHANGED <<access, writer, store, phase, doomed, whole, removing, condemned>>

DoctorBegin ==
    /\ suspects # {}
    /\ Access!Begin(Doctor)
    /\ UNCHANGED <<writer, store, keeper, condemned>>

DoctorLeave ==
    /\ suspects' = {}
    /\ removing' = IF owner = Doctor THEN {} ELSE removing
    /\ Access!End(Doctor)
    /\ UNCHANGED <<writer, store, phase, doomed, whole, condemned>>

(* Mutated: the remnant is removed without the lease. *)
RemoveHeaderlessUnlocked(c) ==
    /\ c \in suspects
    /\ Headerless(c)
    /\ removing \in {{}, {c}}
    /\ RemoveOne(c)
    /\ removing' = IF files'[c] = {} THEN {} ELSE {c}
    /\ UNCHANGED <<access, writer, blobs, staged, hand, phase, doomed, whole, suspects,
                   condemned>>

(* RemoveHeaderless inspects again: a header that has appeared, or a         *)
(* directory that is gone, withdraws the finding.                            *)
Withdraw(c) ==
    /\ owner = Doctor
    /\ c \in suspects
    /\ ~Headerless(c)
    /\ suspects' = suspects \ {c}
    /\ removing' = removing \ {c}
    /\ UNCHANGED <<access, writer, store, phase, doomed, whole, condemned>>

RemoveHeaderless(c) ==
    /\ owner = Doctor
    /\ c \in suspects
    /\ Headerless(c)
    /\ removing \in {{}, {c}}
    /\ RemoveOne(c)
    /\ removing' = IF files'[c] = {} THEN {} ELSE {c}
    /\ UNCHANGED <<access, writer, blobs, staged, hand, phase, doomed, whole, suspects,
                   condemned>>

RepairFails(c) ==
    /\ Faulty
    /\ owner = Doctor
    /\ c \in suspects
    /\ removing \in {{}, {c}}
    /\ suspects' = suspects \ {c}
    /\ removing' = {}
    /\ UNCHANGED <<access, writer, store, phase, doomed, whole, condemned>>

DoctorEnd == suspects = {} /\ DoctorLeave

DoctorCrash == Crashing /\ DoctorLeave

-----------------------------------------------------------------------------
WriterStep(x) ==
    \/ Enter(x) \/ OpenRecord(x) \/ BeginCapture(x) \/ ReuseBlob(x) \/ CreateBlobTemp(x)
    \/ LinkBlob(x) \/ DropBlobTemp(x) \/ PublishManifest(x) \/ PublishFrontier(x)
    \/ PublishHeader(x) \/ StageRecord(x) \/ PublishRecord(x) \/ EndApply(x)
    \/ DropRecord(x) \/ DropFails(x) \/ Abort(x) \/ Leave(x) \/ Crash(x)

GcStep ==
    \/ GcBegin \/ GcPlan \/ GcDeleteRecord \/ GcDeleteBlob \/ GcDeleteTemp
    \/ GcDeleteFails \/ GcNextPhase \/ GcEnd \/ GcCrash

DoctorStep ==
    \/ \E c \in Checkpoints :
         Suspect(c) \/ Withdraw(c) \/ RemoveHeaderless(c) \/ RepairFails(c)
    \/ DoctorBegin \/ DoctorEnd \/ DoctorCrash

Next == (\E x \in Records : WriterStep(x)) \/ GcStep \/ DoctorStep

Spec == Init /\ [][Next]_vars

-----------------------------------------------------------------------------
(* Properties.                                                               *)

Readable(x) ==
    /\ files[x] = IF x \in Checkpoints THEN CheckpointFiles \ {"tmp"} ELSE RestoreFiles
    /\ refs[x] \subseteq blobs

(* Data is never lost: a record that reached its commit point and that no gc *)
(* has chosen to delete can be read, with every blob it refers to, whatever  *)
(* ran beside it, failed or died.                                            *)
RetainedIsReadable ==
    \A x \in (Committed \cup Recoveries) \ condemned : Readable(x)

(* The worktree is changed only behind a complete recovery record. *)
UndoBeforeMutation ==
    \A r \in Restores : pc[r] = "apply" => r \in Recoveries \ condemned /\ Readable(r)

(* However often gc runs and whatever keep-last it is given, the newest      *)
(* checkpoints survive it, whatever order they were published in: nothing a  *)
(* gc chose to delete was taken after a checkpoint it spared, and what it    *)
(* spared is one at the least, and as many as the smallest keep-last it got. *)
RetentionFloor ==
    LET spared == Committed \ condemned IN
    \A c \in condemned \cap Checkpoints :
        /\ \A d \in spared : born[c] < born[d]
        /\ spared # {}
        /\ \E keep \in Keeps : keep <= Cardinality(spared)

(* A gc that covered every kind and had no failure has reclaimed every blob  *)
(* nothing refers to.                                                        *)
SweepIsComplete ==
    phase = "temp" /\ whole => blobs \subseteq Marked(Committed \cup Recoveries)

(* Nothing a live writer has put down is taken away from under it: neither   *)
(* the half-published record doctor saw as a remnant, nor the blobs it has   *)
(* stored or found, nor its temps.                                           *)
InFlightIsSafe ==
    [][\A x \in Records : pc[x] \notin {"new", "gone", "dead"} /\ pc'[x] = pc[x] =>
           /\ pc[x] # "drop" => files[x] \subseteq files'[x]
           /\ (refs[x] \ pending[x]) \cap blobs \subseteq blobs'
           /\ hand'[x] = hand[x]]_vars

-----------------------------------------------------------------------------
(* The inductive invariant (StoreGCProofs proves it).                        *)

Live(x) == pc[x] \notin {"new", "gone", "dead"}

(* A writer past its capture has stored everything it refers to. *)
Captured == {"frontier", "header", "rename", "apply"}

AccessInv ==
    /\ owner # Nobody => sharing = {}
    /\ \A x \in Records : x \in sharing <=> Live(x)
    /\ owner = Gc <=> phase # "idle"

(* What a writer has at its record's address is a function of where it is. *)
PublicationInv ==
    /\ \A x \in Records :
         /\ pc[x] \in {"new", "start"} => files[x] = {}
         /\ pc[x] \in {"stream", "link", "unlink"} =>
              files[x] = IF x \in Checkpoints THEN {"dir", "tmp"} ELSE {}
         /\ pc[x] = "frontier" => x \in Checkpoints /\ files[x] = {"dir", "manifest"}
         /\ pc[x] = "header" => x \in Checkpoints /\ files[x] = {"dir", "manifest", "frontier"}
         /\ pc[x] = "rename" => x \in Restores /\ files[x] = {}
         /\ pc[x] = "apply" => x \in Restores /\ files[x] = RestoreFiles
         /\ pc[x] = "drop" => x \in Restores

CaptureInv ==
    \A x \in Records :
        /\ pc[x] \in {"stream", "link", "unlink"} => refs[x] \ pending[x] \subseteq blobs
        /\ pc[x] = "unlink" => hand[x] \subseteq blobs
        /\ pc[x] \in Captured => refs[x] \subseteq blobs

(* gc deletes what it condemned and no blob of a record it kept. *)
SweepInv ==
    /\ \A x \in condemned : pc[x] \in {"drop", "done", "gone", "dead"}
    /\ \A x \in Records : pc[x] = "drop" => x \in condemned
    /\ phase \in {"idle", "plan"} => doomed = NoCandidates
    /\ doomed.records \subseteq condemned
    /\ \A x \in (Committed \cup Recoveries) \ condemned : refs[x] \cap doomed.blobs = {}

Inv == AccessInv /\ PublicationInv /\ CaptureInv /\ SweepInv /\ RetainedIsReadable

IInv == TypeOK /\ Inv

(* What the sweep has still to do: every blob is a candidate or referred to  *)
(* by a record that stays, and a phase that is over has left no candidate.   *)
SweepProgress ==
    /\ phase \in Kinds /\ whole =>
         blobs \subseteq doomed.blobs \cup Marked((Committed \cup Recoveries) \ doomed.records)
    /\ phase \in {"restore", "blob", "temp"} => doomed.records \cap Checkpoints = {}
    /\ phase \in {"blob", "temp"} => doomed.records = {}
    /\ phase = "temp" => doomed.blobs = {}

(* Ages: the places given so far are counted, and whatever a gc chose is     *)
(* older than all that is committed, or about to be, and was not chosen.     *)
AgeInv ==
    /\ \A c \in Checkpoints :
         /\ born[c] <= Cardinality({d \in Checkpoints : born[d] # 0})
         /\ pc[c] \in {"new", "start"} => born[c] = 0
    /\ \A c \in condemned \cap Checkpoints, d \in Checkpoints \ condemned :
         d \in Committed \/ pc[d] \in {"stream", "link", "unlink", "frontier", "header"} =>
             born[c] < born[d]
=============================================================================
