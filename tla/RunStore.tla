------------------------------ MODULE RunStore ------------------------------
(* The run store: entries of executed commands under runs/entries, and one   *)
(* pointer per run key under runs/keys that names the run to replay.  A run  *)
(* looks its key up, executes, publishes its entry and last its pointer;     *)
(* "run rm" and gc delete an entry, its pointer first.  Every read, rename   *)
(* and unlink is a step; runs and rm share the store, gc has it alone.       *)
EXTENDS FiniteSets

CONSTANTS Runs,      \* invocations of awa run, and the entries they publish
          Keys,      \* run keys: the command and everything its result depends on
          Removers,  \* invocations of awa run rm
          Gc, Nobody,
          Faulty,    \* a write, an unlink or a sync may fail
          Crashing   \* a process may die

ASSUME RunStoreAssumption ==
    /\ Runs \cap Removers = {}
    /\ Gc \notin Runs \cup Removers
    /\ Nobody \notin Runs \cup Removers \cup {Gc}
    /\ Faulty \in BOOLEAN
    /\ Crashing \in BOOLEAN

Deleters == Removers \cup {Gc}

VARIABLES
    quiet,     \* auxiliary: nobody runs "run rm", and no write, unlink or sync fails
    sharing, owner,  \* StoreAccess
    pc,        \* where each run is
    key,       \* run -> its key
    reusable,  \* run -> whether its result may be replayed
    result,    \* run -> what came of it
    seen,      \* run or deleter -> the run the pointer it read named
    temps,     \* runs with captured output or a staged entry in runs/tmp
    files,     \* run -> what exists of its entry
    pointer,   \* key -> the run its pointer names, or Nobody: no pointer
    at,        \* where each deleter is
    todo,      \* deleter -> the entries it has still to delete
    target,    \* deleter -> the one it is deleting
    discarded, \* auxiliary: runs somebody decided to delete
    latest     \* auxiliary: key -> the run that last published its pointer

access == <<sharing, owner>>
runner == <<pc, key, reusable, result>>
deleter == <<at, todo, target>>
vars == <<quiet, access, runner, seen, temps, files, pointer, deleter, discarded, latest>>

Failing == Faulty /\ ~quiet

Access == INSTANCE StoreAccess
            WITH Writers <- Runs \cup Removers, Restorers <- {}, Keepers <- {Gc}

(* "payload" stands for the captured streams and the observed manifests. *)
EntryFiles == {"dir", "meta", "payload"}

RunPC == {"new", "lookup", "resolve", "verify", "exec", "run", "pointer", "rollback",
          "untree", "end", "replay", "gone", "dead"}
Results == {"none", "hit", "stored", "failed", "corrupt", "replayed", "lost"}
DeleterAt == {"idle", "wait", "next", "get", "read", "check", "unpoint", "tree", "gone"}

TypeOK ==
    /\ quiet \in BOOLEAN
    /\ Access!TypeOK
    /\ pc \in [Runs -> RunPC]
    /\ key \in [Runs -> Keys]
    /\ reusable \in [Runs -> BOOLEAN]
    /\ result \in [Runs -> Results]
    /\ seen \in [Runs \cup Deleters -> Runs \cup {Nobody}]
    /\ temps \subseteq Runs
    /\ files \in [Runs -> SUBSET EntryFiles]
    /\ pointer \in [Keys -> Runs \cup {Nobody}]
    /\ at \in [Deleters -> DeleterAt]
    /\ todo \in [Deleters -> SUBSET Runs]
    /\ target \in [Deleters -> Runs \cup {Nobody}]
    /\ discarded \subseteq Runs
    /\ latest \in [Keys -> Runs \cup {Nobody}]

Init ==
    /\ quiet \in BOOLEAN
    /\ Access!Init
    /\ pc = [r \in Runs |-> "new"]
    /\ key \in [Runs -> Keys]
    /\ reusable = [r \in Runs |-> FALSE]
    /\ result = [r \in Runs |-> "none"]
    /\ seen = [x \in Runs \cup Deleters |-> Nobody]
    /\ temps = {}
    /\ files = [r \in Runs |-> {}]
    /\ pointer = [k \in Keys |-> Nobody]
    /\ at = [d \in Deleters |-> "idle"]
    /\ todo = [d \in Deleters |-> {}]
    /\ target = [d \in Deleters |-> Nobody]
    /\ discarded = {}
    /\ latest = [k \in Keys |-> Nobody]

Goto(r, from, to) == pc[r] = from /\ pc' = [pc EXCEPT ![r] = to]

(* The end of a run, still under its presence lock. *)
Finish(r, from, res) ==
    /\ Goto(r, from, "end")
    /\ result' = [result EXCEPT ![r] = res]
    /\ UNCHANGED <<key, reusable>>

Whole(e) == files[e] = EntryFiles

-----------------------------------------------------------------------------
(* awa run: the lookup.                                                      *)

(* Mutated: a run does not wait for a collector. *)
EnterUnlocked(r) ==
    /\ Goto(r, "new", "lookup")
    /\ sharing' = sharing \cup {r}
    /\ UNCHANGED <<owner, key, reusable, result, seen, temps, files, pointer, deleter,
                   discarded, latest>>

(* The scan is over and the key is known.  --refresh, --record and the like  *)
(* do not read the cache.                                                    *)
Enter(r) ==
    /\ Goto(r, "new", "lookup") \/ Goto(r, "new", "exec")
    /\ Access!Enter(r)
    /\ UNCHANGED <<key, reusable, result, seen, temps, files, pointer, deleter, discarded,
                   latest>>

(* Lookup reads the pointer, *)
ReadPointer(r) ==
    /\ \/ pointer[key[r]] = Nobody /\ Goto(r, "lookup", "exec")
       \/ pointer[key[r]] # Nobody /\ Goto(r, "lookup", "resolve")
    /\ seen' = [seen EXCEPT ![r] = pointer[key[r]]]
    /\ UNCHANGED <<access, key, reusable, result, temps, files, pointer, deleter, discarded,
                   latest>>

Replayable(e, k) == "meta" \in files[e] /\ key[e] = k /\ reusable[e]

(* then the entry it names: one that is missing, or has another key, or may  *)
(* not be replayed, is corruption; one that has expired is a miss.           *)
ResolveEntry(r) ==
    /\ pc[r] = "resolve"
    /\ \/ ~Replayable(seen[r], key[r]) /\ Finish(r, "resolve", "corrupt")
       \/ /\ Replayable(seen[r], key[r])
          /\ Goto(r, "resolve", "verify") \/ Goto(r, "resolve", "exec")
          /\ UNCHANGED <<key, reusable, result>>
    /\ UNCHANGED <<access, seen, temps, files, pointer, deleter, discarded, latest>>

(* A hit is reported once both streams have been hashed. *)
VerifyPayloads(r) ==
    /\ pc[r] = "verify"
    /\ \/ Whole(seen[r]) /\ Finish(r, "verify", "hit")
       \/ ~Whole(seen[r]) /\ Finish(r, "verify", "corrupt")
    /\ UNCHANGED <<access, seen, temps, files, pointer, deleter, discarded, latest>>

-----------------------------------------------------------------------------
(* awa run: execution and Commit.                                            *)

Begin(r) ==
    /\ Goto(r, "exec", "run")
    /\ temps' = temps \cup {r}
    /\ UNCHANGED <<access, key, reusable, result, seen, files, pointer, deleter, discarded,
                   latest>>

(* The entry is staged whole and renamed into its shard.  A shard that       *)
(* cannot be synced rolls it back; a result that may not be replayed is      *)
(* complete here.                                                            *)
PublishEntry(r) ==
    /\ pc[r] = "run"
    /\ \E reuse \in BOOLEAN :
         /\ reusable' = [reusable EXCEPT ![r] = reuse]
         /\ \/ pc' = [pc EXCEPT ![r] = IF reuse THEN "pointer" ELSE "end"]
               /\ result' = [result EXCEPT ![r] = IF reuse THEN @ ELSE "stored"]
            \/ Failing /\ pc' = [pc EXCEPT ![r] = "untree"] /\ UNCHANGED result
    /\ files' = [files EXCEPT ![r] = EntryFiles]
    /\ temps' = temps \ {r}
    /\ UNCHANGED <<access, key, seen, pointer, deleter, discarded, latest>>

PublishPointer(r) ==
    /\ Finish(r, "pointer", "stored")
    /\ pointer' = [pointer EXCEPT ![key[r]] = r]
    /\ latest' = [latest EXCEPT ![key[r]] = r]
    /\ UNCHANGED <<access, seen, temps, files, deleter, discarded>>

(* The pointer's replacement fails before its rename or after it. *)
PointerFails(r) ==
    /\ Failing
    /\ Goto(r, "pointer", "rollback")
    /\ pointer' \in {pointer, [pointer EXCEPT ![key[r]] = r]}
    /\ UNCHANGED <<access, key, reusable, result, seen, temps, files, deleter, discarded,
                   latest>>

(* The rollback removes the pointer file, whatever it names, *)
RollbackPointer(r) ==
    /\ Goto(r, "rollback", "untree")
    /\ \/ pointer' = [pointer EXCEPT ![key[r]] = Nobody]
       \/ UNCHANGED pointer
    /\ UNCHANGED <<access, key, reusable, result, seen, temps, files, deleter, discarded,
                   latest>>

(* RemoveTreeAt: the entries in any order, then the directory itself. *)
RemoveOne(e) ==
    \E f \in files[e] :
        /\ f = "dir" => files[e] = {"dir"}
        /\ files' = [files EXCEPT ![e] = @ \ {f}]

(* and the entry, in either case. *)
RollbackEntry(r) ==
    /\ pc[r] = "untree"
    /\ RemoveOne(r)
    /\ UNCHANGED <<access, runner, seen, temps, pointer, deleter, discarded, latest>>

RollbackEnds(r) ==
    /\ files[r] = {} \/ Failing
    /\ Finish(r, "untree", "failed")
    /\ UNCHANGED <<access, seen, temps, files, pointer, deleter, discarded, latest>>

(* A failure before the entry's rename, or an uncached run: the captured     *)
(* output and the staged entry are dropped.                                  *)
Discard(r) ==
    /\ \E from \in {"lookup", "exec", "run"} : Finish(r, from, "failed")
    /\ temps' = temps \ {r}
    /\ UNCHANGED <<access, seen, files, pointer, deleter, discarded, latest>>

(* The presence lock is released before a hit is replayed. *)
Leave(r) ==
    /\ Goto(r, "end", IF result[r] = "hit" THEN "replay" ELSE "gone")
    /\ Access!Leave(r)
    /\ UNCHANGED <<key, reusable, result, seen, temps, files, pointer, deleter, discarded,
                   latest>>

Replay(r) ==
    /\ Goto(r, "replay", "gone")
    /\ result' = [result EXCEPT ![r] = IF Whole(seen[r]) THEN "replayed" ELSE "lost"]
    /\ UNCHANGED <<access, key, reusable, seen, temps, files, pointer, deleter, discarded,
                   latest>>

Crash(r) ==
    /\ Crashing
    /\ r \in sharing
    /\ pc' = [pc EXCEPT ![r] = "dead"]
    /\ Access!Leave(r)
    /\ UNCHANGED <<key, reusable, result, seen, temps, files, pointer, deleter, discarded,
                   latest>>

-----------------------------------------------------------------------------
(* Deletion: awa run rm beside other writers, gc alone.                      *)

Listed == {e \in Runs : "meta" \in files[e]}

(* rm chooses its runs before it takes its presence lock. *)
RmTargets(d) ==
    /\ d \in Removers
    /\ at[d] = "idle"
    /\ \E chosen \in (SUBSET Listed) \ {{}} :
         /\ todo' = [todo EXCEPT ![d] = chosen]
         /\ discarded' = discarded \cup chosen
    /\ at' = [at EXCEPT ![d] = "wait"]
    /\ UNCHANGED <<access, runner, seen, temps, files, pointer, target, latest>>

RmEnter(d) ==
    /\ at[d] = "wait"
    /\ Access!Enter(d)
    /\ at' = [at EXCEPT ![d] = "next"]
    /\ UNCHANGED <<runner, seen, temps, files, pointer, todo, target, discarded, latest>>

RmLeave(d) ==
    /\ d \in Removers
    /\ at[d] = "next"
    /\ todo[d] = {}
    /\ Access!Leave(d)
    /\ at' = [at EXCEPT ![d] = "gone"]
    /\ UNCHANGED <<runner, seen, temps, files, pointer, todo, target, discarded, latest>>

(* gc plans under its lease.  A run without metadata is taken for one that   *)
(* is being deleted and skipped; any of the others may be old enough.        *)
GcBegin ==
    /\ at[Gc] = "idle"
    /\ Access!Begin(Gc)
    /\ at' = [at EXCEPT ![Gc] = "next"]
    /\ \E expired \in SUBSET Listed :
         /\ todo' = [todo EXCEPT ![Gc] = expired]
         /\ discarded' = discarded \cup expired
    /\ UNCHANGED <<runner, seen, temps, files, pointer, target, latest>>

(* Temps come last.  Bound: only a dead run's are older than the threshold. *)
GcDropTemp ==
    /\ at[Gc] = "next"
    /\ todo[Gc] = {}
    /\ \E r \in temps : pc[r] = "dead" /\ temps' = temps \ {r}
    /\ UNCHANGED <<access, runner, seen, files, pointer, deleter, discarded, latest>>

GcEnd ==
    /\ at[Gc] = "next"
    /\ todo[Gc] = {}
    /\ Access!End(Gc)
    /\ at' = [at EXCEPT ![Gc] = "idle"]
    /\ UNCHANGED <<runner, seen, temps, files, pointer, todo, target, discarded, latest>>

(* Delete: where deleter d goes, its entry and its list staying as they are. *)
Proceed(d, from, to) ==
    /\ at[d] = from
    /\ at' = [at EXCEPT ![d] = to]
    /\ UNCHANGED <<access, runner, temps, todo, target, discarded, latest>>

(* An error ends rm; gc records it and goes on. *)
Failed(d) ==
    /\ at' = [at EXCEPT ![d] = "next"]
    /\ todo' = [todo EXCEPT ![d] = IF d = Gc THEN @ ELSE {}]
    /\ UNCHANGED <<access, runner, temps, target, discarded, latest>>

NextTarget(d) ==
    /\ at[d] = "next"
    /\ \E e \in todo[d] :
         /\ target' = [target EXCEPT ![d] = e]
         /\ todo' = [todo EXCEPT ![d] = @ \ {e}]
    /\ at' = [at EXCEPT ![d] = "get"]
    /\ seen' = [seen EXCEPT ![d] = Nobody]
    /\ UNCHANGED <<access, runner, temps, files, pointer, discarded, latest>>

(* Mutated: the entry is deleted and its pointer left. *)
GetEntryOnly(d) ==
    /\ at[d] = "get"
    /\ \/ "meta" \in files[target[d]] /\ Proceed(d, "get", "tree")
       \/ "meta" \notin files[target[d]] /\ Failed(d)
    /\ UNCHANGED <<seen, files, pointer>>

(* The metadata gives the key; an entry without it is not found. *)
GetEntry(d) ==
    /\ at[d] = "get"
    /\ \/ "meta" \in files[target[d]] /\ Proceed(d, "get", "read")
       \/ "meta" \notin files[target[d]] /\ Failed(d)
    /\ UNCHANGED <<seen, files, pointer>>

PointerOf(d) == pointer[key[target[d]]]

ReadKeyPointer(d) ==
    /\ at[d] = "read"
    /\ \/ PointerOf(d) = Nobody /\ Proceed(d, "read", "tree")
       \/ PointerOf(d) = target[d] /\ Proceed(d, "read", "unpoint")
       \/ PointerOf(d) \notin {Nobody, target[d]} /\ Proceed(d, "read", "check")
    /\ seen' = [seen EXCEPT ![d] = PointerOf(d)]
    /\ UNCHANGED <<files, pointer>>

(* Mutated: a pointer that names another run is removed as well. *)
CheckNoRefresh(d) ==
    /\ Proceed(d, "check", "unpoint")
    /\ UNCHANGED <<seen, files, pointer>>

(* A pointer to another run stays if that run exists and has this key. *)
CheckRefresh(d) ==
    /\ at[d] = "check"
    /\ LET live == "meta" \in files[seen[d]] /\ key[seen[d]] = key[target[d]]
       IN Proceed(d, "check", IF live THEN "tree" ELSE "unpoint")
    /\ UNCHANGED <<seen, files, pointer>>

RemovePointer(d) ==
    /\ Proceed(d, "unpoint", "tree")
    /\ pointer' = [pointer EXCEPT ![key[target[d]]] = Nobody]
    /\ UNCHANGED <<seen, files>>

(* Mutated: the entry removed is the one the pointer was found to name. *)
RemoveSeen(d) ==
    /\ Proceed(d, "tree", "tree")
    /\ RemoveOne(IF seen[d] = Nobody THEN target[d] ELSE seen[d])
    /\ UNCHANGED <<seen, pointer>>

RemoveEntry(d) ==
    /\ Proceed(d, "tree", "tree")
    /\ RemoveOne(target[d])
    /\ UNCHANGED <<seen, pointer>>

EntryRemoved(d) ==
    /\ Proceed(d, "tree", "next")
    /\ files[target[d]] = {}
    /\ UNCHANGED <<seen, files, pointer>>

(* A read or an unlink fails; the pointer may be gone all the same. *)
DeleteFails(d) ==
    /\ Failing
    /\ \/ at[d] \in {"get", "read", "check", "tree"} /\ UNCHANGED pointer
       \/ at[d] = "unpoint" /\ pointer' \in {pointer, [pointer EXCEPT ![key[target[d]]] = Nobody]}
    /\ Failed(d)
    /\ UNCHANGED <<seen, files>>

DeleterCrash(d) ==
    /\ Crashing
    /\ at[d] \notin {"idle", "wait", "gone"}
    /\ IF d = Gc THEN Access!End(Gc) ELSE Access!Leave(d)
    /\ at' = [at EXCEPT ![d] = IF d = Gc THEN "idle" ELSE "gone"]
    /\ todo' = [todo EXCEPT ![d] = {}]
    /\ UNCHANGED <<runner, seen, temps, files, pointer, target, discarded, latest>>

-----------------------------------------------------------------------------
RunStep(r) ==
    \/ Enter(r) \/ ReadPointer(r) \/ ResolveEntry(r) \/ VerifyPayloads(r) \/ Begin(r)
    \/ PublishEntry(r) \/ PublishPointer(r) \/ PointerFails(r) \/ RollbackPointer(r)
    \/ RollbackEntry(r) \/ RollbackEnds(r) \/ Discard(r) \/ Leave(r) \/ Replay(r) \/ Crash(r)

DeleteStep(d) ==
    \/ NextTarget(d) \/ GetEntry(d) \/ ReadKeyPointer(d) \/ CheckRefresh(d)
    \/ RemovePointer(d) \/ RemoveEntry(d) \/ EntryRemoved(d) \/ DeleteFails(d)
    \/ DeleterCrash(d)

RmStep(d) == RmTargets(d) \/ RmEnter(d) \/ RmLeave(d) \/ DeleteStep(d)
GcStep == GcBegin \/ GcDropTemp \/ GcEnd \/ DeleteStep(Gc)

Next ==
    /\ \/ \E r \in Runs : RunStep(r)
       \/ GcStep
       \/ ~quiet /\ \E d \in Removers : RmStep(d)
    /\ UNCHANGED quiet

Spec == Init /\ [][Next]_vars

-----------------------------------------------------------------------------
(* Properties.                                                               *)

(* repo.go:708: "removing the entry can never leave a pointer dangling".     *)
(* Every pointer names a whole, replayable entry of its own key,             *)
WholeIndex ==
    \A k \in Keys : pointer[k] # Nobody =>
        Whole(pointer[k]) /\ Replayable(pointer[k], k)

(* as long as nobody runs "run rm" and nothing fails, whatever dies.         *)
IndexIsSound == quiet => WholeIndex

(* repo.go:690: "a pointer that has since been repointed at a newer run      *)
(* (after a refresh) is left intact".  The last published result of a key    *)
(* is the one found, until somebody decides to delete it.                    *)
LatestIsFound ==
    \A k \in Keys : latest[k] \notin discarded \cup {Nobody} => pointer[k] = latest[k]
RefreshSurvives == quiet => LatestIsFound

(* No lookup takes what another process is doing for corruption. *)
ServedLookups == \A r \in Runs : result[r] # "corrupt"
LookupSucceeds == quiet => ServedLookups

(* A stored run that nobody chose to delete keeps its whole entry, whatever  *)
(* other runs roll back and other deletions remove.                          *)
SurvivorsAreWhole ==
    \A r \in Runs : result[r] = "stored" /\ r \notin discarded => Whole(r)

(* A pointer only ever names a run that may be replayed, for its own key.    *)
PointersAreTyped ==
    \A k \in Keys : pointer[k] # Nobody => key[pointer[k]] = k /\ reusable[pointer[k]]

-----------------------------------------------------------------------------
(* The inductive invariants (RunStoreProofs proves them).                    *)

Early == {"new", "lookup", "resolve", "verify", "exec", "run"}
Deleting == {"get", "read", "check", "unpoint", "tree"}

(* Only what somebody decided to delete is being deleted. *)
DeletionInv ==
    \A d \in Deleters :
        /\ todo[d] \subseteq discarded
        /\ at[d] \in Deleting => target[d] \in discarded

(* What is known of an entry from where its run is. *)
CommitInv ==
    \A r \in Runs :
        /\ result[r] = "stored" => pc[r] \in {"end", "gone", "dead"}
        /\ pc[r] = "pointer" /\ r \notin discarded => Whole(r)
        /\ pc[r] \in {"pointer", "rollback"} => reusable[r]

PointerInv ==
    \A k \in Keys : pointer[k] # Nobody => pc[pointer[k]] \notin Early

IInv == /\ TypeOK /\ DeletionInv /\ CommitInv /\ PointerInv
        /\ SurvivorsAreWhole /\ PointersAreTyped

(* Without "run rm" and without failures the index is sound as well.         *)

Live(r) == pc[r] \notin {"new", "replay", "gone", "dead"}

ExclusionInv ==
    /\ owner # Nobody => sharing = {}
    /\ \A r \in Runs : Live(r) => r \in sharing
    /\ at[Gc] # "idle" => owner = Gc

(* gc has come past a pointer only if it does not name what it removes. *)
UnpointInv ==
    /\ at[Gc] = "tree" => PointerOf(Gc) # target[Gc]
    /\ at[Gc] = "check" => PointerOf(Gc) = seen[Gc] /\ seen[Gc] \notin {Nobody, target[Gc]}

(* What a run has looked up stays replayable while it holds its lock. *)
LookupInv ==
    \A r \in Runs :
        /\ pc[r] \notin {"rollback", "untree"}
        /\ pc[r] = "pointer" => Whole(r)
        /\ pc[r] \in {"resolve", "verify"} =>
             /\ seen[r] # Nobody
             /\ Whole(seen[r])
             /\ Replayable(seen[r], key[r])
             /\ pc[seen[r]] \notin Early

(* The pointer gc removes is that of the run it deletes, never a later one's. *)
RefreshInv ==
    /\ at[Gc] = "unpoint" => PointerOf(Gc) = target[Gc]
    /\ LatestIsFound

QuietInv == ExclusionInv /\ UnpointInv /\ LookupInv /\ WholeIndex /\ ServedLookups
=============================================================================
