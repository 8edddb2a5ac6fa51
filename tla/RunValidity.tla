---------------------------- MODULE RunValidity -----------------------------
(* What makes a result of awa run reusable.  A run observes the inputs, the   *)
(* watched generated output and the facts its probes report, keys its result *)
(* by what it saw, executes the command and observes all of it again.  An    *)
(* editor, probes, other commands and other awa processes change the same    *)
(* files meanwhile, and the index carries hashes from one scan to the next.  *)
(* RunStore models how results are stored, LockProtocol the presence locks   *)
(* all of these hold together and gc and doctor wait for.                    *)
EXTENDS Integers

CONSTANTS
    Runners,     \* awa run processes
    Readers,     \* awa commands that make an ordinary scan
    Inputs,      \* the files in the scope of a run
    Watched,     \* the watched generated output, observed by its stat only
    World,       \* what lies outside the project and a probe can report
    Modes,       \* the policies a run may be started with
    CacheFailed, \* run.cache_failed_runs
    Probing,     \* whether the validation policy declares a probe
    Expiring,    \* whether run.ttl may pass between two runs
    Editing,     \* whether anybody but awa's commands writes
    Faulty,      \* whether scans and probes fail and runs are cancelled or die
    MaxStarts,   \* bounds the processes of a behaviour
    MaxWrites,   \* bounds the writes
    MaxClock     \* bounds the timestamps

Procs == Runners \cup Readers
Things == Inputs \cup {Watched, World}
Project == Inputs \cup {Watched}
Unknown == -1

ASSUME ThingsAssumption ==
    Watched \notin Inputs /\ World \notin Inputs /\ Watched # World

ASSUME ProcsAssumption ==
    /\ Runners \cap Readers = {}
    /\ Modes \subseteq {"normal", "refresh", "noCache", "noFailures", "allowSkipped"}

ASSUME SwitchAssumption ==
    /\ CacheFailed \in BOOLEAN /\ Probing \in BOOLEAN /\ Expiring \in BOOLEAN
    /\ Editing \in BOOLEAN /\ Faulty \in BOOLEAN
    /\ MaxStarts \in Nat /\ MaxWrites \in Nat /\ MaxClock \in Nat

VARIABLES
    node,     \* each thing's content, by number, and the timestamp of its stat
    clock,    \* the file system's time: writes between two ticks look alike
    writes,   \* how many there were; each makes a content that never was before
    index,    \* what the worktree index has for each input
    cache,    \* the results a key pointer leads to
    pc, mode,
    todo,     \* the inputs a scan has still to visit
    look,     \* the file it is at, with the stat it took
    rows,     \* what it has recorded of the others
    before,   \* the rows of the scan before the command
    effect,   \* the observation of the watched output before the command
    facts,    \* what the probe reported before the command
    unread, saw, \* what the command has yet to read, and what it has read
    failed,   \* whether it exited with a failure
    clean,    \* whether the observations after it agree with those before
    hit,      \* the result replayed
    starts,   \* history: how many processes there were
    due,      \* history: what there was when the process began or its probe ended
    mixed,    \* history: others wrote, two processes overlapped or a scan is missing
    blurred   \* history: something was written twice between two ticks

world == <<node, clock, writes, blurred>>
scan == <<todo, look, rows>>
key == <<before, effect, facts>>
child == <<unread, saw, failed, clean>>
shared == <<index, cache>>
history == <<starts, mixed>>
vars == <<world, shared, pc, mode, scan, key, child, hit, due, history>>

Node == [ver : Nat, stamp : Nat]
Row == [ver : Nat \cup {Unknown}, stamp : Nat]
Blank == [ver |-> Unknown, stamp |-> 0]
NoRows == [f \in Inputs |-> Blank]
NoLook == [at |-> World, stamp |-> 0, opened |-> FALSE]
Nothing == [n \in Things |-> [ver |-> 0, stamp |-> 0]]

Init ==
    /\ node = Nothing /\ clock = 0 /\ writes = 0
    /\ index = NoRows /\ cache = {}
    /\ pc = [p \in Procs |-> "idle"] /\ mode = [p \in Procs |-> "none"]
    /\ todo = [p \in Procs |-> {}] /\ look = [p \in Procs |-> NoLook]
    /\ rows = [p \in Procs |-> NoRows] /\ before = [p \in Procs |-> NoRows]
    /\ effect = [p \in Procs |-> Unknown] /\ facts = [p \in Procs |-> Unknown]
    /\ unread = [p \in Procs |-> {}] /\ saw = [p \in Procs |-> Nothing]
    /\ failed = [p \in Procs |-> FALSE] /\ clean = [p \in Procs |-> TRUE]
    /\ hit = [p \in Procs |-> {}] /\ due = [p \in Procs |-> Nothing]
    /\ starts = 0 /\ mixed = FALSE /\ blurred = FALSE

-----------------------------------------------------------------------------
(* The file system and those who write to it.  A rewrite in place keeps size, *)
(* inode and mode, so only the timestamp can tell the new content.           *)
Write(n) ==
    /\ writes < MaxWrites
    /\ writes' = writes + 1
    /\ node' = [node EXCEPT ![n] = [ver |-> writes + 1, stamp |-> clock]]
    /\ blurred' = (blurred \/ node[n].stamp = clock)
    /\ UNCHANGED clock

Tick ==
    /\ clock < MaxClock /\ clock' = clock + 1
    /\ UNCHANGED <<node, writes, blurred, shared, pc, mode, scan, key, child, hit, due, history>>

Edit ==
    /\ Editing
    /\ \E n \in Things : Write(n) /\ (n = World => Probing)
    /\ mixed' = TRUE
    /\ UNCHANGED <<shared, pc, mode, scan, key, child, hit, due, starts>>

-----------------------------------------------------------------------------
(* A process begins, moves on, and ends. *)
Keyed(m) == m # "noCache"

Visit(p) == todo' = [todo EXCEPT ![p] = Inputs]

Start(p) ==
    /\ pc[p] = "idle" /\ starts < MaxStarts /\ starts' = starts + 1
    /\ \E m \in IF p \in Runners THEN Modes ELSE {"checkpoint", "readonly"} :
         /\ mode' = [mode EXCEPT ![p] = m]
         /\ pc' = [pc EXCEPT ![p] =
                     IF p \in Runners /\ Probing /\ Keyed(m) THEN "probe" ELSE "scan"]
    /\ Visit(p)
    /\ due' = [due EXCEPT ![p] = node]
    /\ mixed' = (mixed \/ \E q \in Procs : pc[q] # "idle")
    /\ UNCHANGED <<world, shared, look, rows, key, child, hit>>

Goto(p, to) == pc' = [pc EXCEPT ![p] = to]

Forget(p) ==
    /\ Goto(p, "idle") /\ mode' = [mode EXCEPT ![p] = "none"]
    /\ todo' = [todo EXCEPT ![p] = {}] /\ look' = [look EXCEPT ![p] = NoLook]
    /\ rows' = [rows EXCEPT ![p] = NoRows] /\ before' = [before EXCEPT ![p] = NoRows]
    /\ effect' = [effect EXCEPT ![p] = Unknown] /\ facts' = [facts EXCEPT ![p] = Unknown]
    /\ unread' = [unread EXCEPT ![p] = {}] /\ saw' = [saw EXCEPT ![p] = Nothing]
    /\ failed' = [failed EXCEPT ![p] = FALSE] /\ clean' = [clean EXCEPT ![p] = TRUE]
    /\ hit' = [hit EXCEPT ![p] = {}] /\ due' = [due EXCEPT ![p] = Nothing]

End(p) ==
    /\ pc[p] = "done" /\ Forget(p)
    /\ UNCHANGED <<world, shared, history>>

(* A call fails, the user cancels or the process dies: nothing is published. *)
Abandon(p) ==
    /\ Faulty /\ pc[p] \notin {"idle", "done"} /\ Forget(p)
    /\ mixed' = TRUE
    /\ UNCHANGED <<world, shared, starts>>

-----------------------------------------------------------------------------
(* Observing. *)

(* A probe is any program: it may write before it reports. *)
ProbeWrites(p) ==
    /\ pc[p] \in {"probe", "reprobe"}
    /\ \E n \in Project : Write(n) /\ due' = [due EXCEPT ![p] = node']
    /\ UNCHANGED <<shared, pc, mode, scan, key, child, hit, history>>

(* It may also fail, or have lost its grant since the first time. *)
Reported == {node[World].ver} \cup (IF Faulty THEN {Unknown} ELSE {})

Probe(p) ==
    /\ pc[p] = "probe"
    /\ \E v \in Reported : facts' = [facts EXCEPT ![p] = v]
    /\ Goto(p, "scan")
    /\ UNCHANGED <<world, shared, mode, scan, before, effect, child, hit, due, history>>

Reprobe(p) ==
    /\ pc[p] = "reprobe"
    /\ \E v \in Reported :
         clean' = [clean EXCEPT ![p] = @ /\ v # Unknown /\ v = facts[p]]
    /\ Goto(p, "rescan")
    /\ UNCHANGED <<world, shared, mode, scan, key, unread, saw, failed, hit, due, history>>

Scanning(p) == pc[p] \in {"scan", "rescan"}

Look(p) ==
    /\ Scanning(p) /\ look[p] = NoLook
    /\ \E f \in todo[p] :
         look' = [look EXCEPT ![p] = [at |-> f, stamp |-> node[f].stamp, opened |-> FALSE]]
    /\ UNCHANGED <<world, shared, pc, mode, todo, rows, key, child, hit, due, history>>

Record(p, row) ==
    /\ rows' = [rows EXCEPT ![p][look[p].at] = row]
    /\ todo' = [todo EXCEPT ![p] = @ \ {look[p].at}]
    /\ look' = [look EXCEPT ![p] = NoLook]
    /\ UNCHANGED <<world, shared, pc, mode, key, child, hit, due, history>>

AtFile(p) == Scanning(p) /\ look[p] # NoLook

(* Mutated: a run trusts the index, too. *)
ReusableByAnyone(p) ==
    /\ index[look[p].at].ver # Unknown
    /\ index[look[p].at].stamp = look[p].stamp

(* The indexed hash stands in for the content; a run forces the rehash. *)
Reusable(p) ==
    /\ p \in Readers
    /\ index[look[p].at].ver # Unknown
    /\ index[look[p].at].stamp = look[p].stamp

Reuse(p) ==
    /\ AtFile(p) /\ ~look[p].opened /\ Reusable(p)
    /\ Record(p, index[look[p].at])

(* The opened file must have the stat that was taken; it may still change    *)
(* before it is read.                                                        *)
Open(p) ==
    /\ AtFile(p) /\ ~look[p].opened /\ ~Reusable(p)
    /\ node[look[p].at].stamp = look[p].stamp
    /\ look' = [look EXCEPT ![p] = [at |-> @.at, stamp |-> @.stamp, opened |-> TRUE]]
    /\ UNCHANGED <<world, shared, pc, mode, todo, rows, key, child, hit, due, history>>

Read(p) ==
    /\ AtFile(p) /\ look[p].opened
    /\ Record(p, [ver |-> node[look[p].at].ver, stamp |-> look[p].stamp])

(* A file that moved or cannot be read is recorded as skipped; a checkpoint  *)
(* fails instead.                                                            *)
Skip(p) ==
    /\ AtFile(p) /\ ~(~look[p].opened /\ Reusable(p))
    /\ Faulty \/ (~look[p].opened /\ node[look[p].at].stamp # look[p].stamp)
    /\ IF mode[p] = "checkpoint"
       THEN Forget(p) /\ UNCHANGED <<world, shared, history>>
       ELSE Record(p, [ver |-> Unknown, stamp |-> look[p].stamp])

(* What the tree hash covers: contents, and of a skipped file its stat. *)
Tree(r) == [f \in Inputs |-> IF r[f].ver = Unknown
                             THEN [skipped |-> TRUE, id |-> r[f].stamp]
                             ELSE [skipped |-> FALSE, id |-> r[f].ver]]

Scanned(p) == Scanning(p) /\ todo[p] = {} /\ look[p] = NoLook

(* Mutated: the scan after the command leaves the index alone. *)
PersistFirst(p) ==
    index' = IF mode[p] = "readonly" \/ pc[p] = "rescan" THEN index ELSE rows[p]

Persist(p) == index' = IF mode[p] = "readonly" THEN index ELSE rows[p]

EndScan(p) ==
    /\ Scanned(p) /\ pc[p] = "scan"
    /\ Persist(p)
    /\ IF p \in Readers
       THEN Goto(p, "done") /\ UNCHANGED <<before, rows>>
       ELSE /\ Goto(p, "effect")
            /\ before' = [before EXCEPT ![p] = rows[p]]
            /\ rows' = [rows EXCEPT ![p] = NoRows]
    /\ UNCHANGED <<world, cache, mode, todo, look, effect, facts, child, hit, due, history>>

EndRescan(p) ==
    /\ Scanned(p) /\ pc[p] = "rescan"
    /\ Persist(p)
    /\ clean' = [clean EXCEPT ![p] = @ /\ Tree(rows[p]) = Tree(before[p])]
    /\ Goto(p, "reeffect")
    /\ UNCHANGED <<world, cache, mode, scan, key, unread, saw, failed, hit, due, history>>

(* The state after the command is unknown: nothing is made reusable. *)
RescanFails(p) ==
    /\ Faulty /\ pc[p] = "rescan"
    /\ clean' = [clean EXCEPT ![p] = FALSE]
    /\ Goto(p, "reeffect") /\ mixed' = TRUE
    /\ UNCHANGED <<world, shared, mode, scan, key, unread, saw, failed, hit, due, starts>>

Observed == {node[Watched].stamp} \cup (IF Faulty THEN {Unknown} ELSE {})

ObserveEffect(p) ==
    /\ pc[p] = "effect"
    /\ \E s \in Observed : effect' = [effect EXCEPT ![p] = s]
    /\ Goto(p, "lookup")
    /\ UNCHANGED <<world, shared, mode, scan, before, facts, child, hit, due, history>>

(* Mutated: the watched output is observed again but not compared. *)
ObserveEffectAgain(p) ==
    /\ pc[p] = "reeffect"
    /\ \E s \in Observed : clean' = [clean EXCEPT ![p] = @ /\ s # Unknown]
    /\ Goto(p, "publish")
    /\ UNCHANGED <<world, shared, mode, scan, key, unread, saw, failed, hit, due, history>>

ObserveEffectMutation(p) ==
    /\ pc[p] = "reeffect"
    /\ \E s \in Observed :
         clean' = [clean EXCEPT ![p] = @ /\ s # Unknown /\ s = effect[p]]
    /\ Goto(p, "publish")
    /\ UNCHANGED <<world, shared, mode, scan, key, unread, saw, failed, hit, due, history>>

-----------------------------------------------------------------------------
(* The cache. *)
Key(p) == [tree |-> Tree(before[p]), effect |-> effect[p], fact |-> facts[p],
           allow |-> mode[p] = "allowSkipped"]

Skips(p) == \E f \in Inputs : before[p][f].ver = Unknown

Cacheable(p) ==
    /\ Keyed(mode[p])
    /\ Skips(p) => mode[p] = "allowSkipped"
    /\ Probing => facts[p] # Unknown

CanRead(p) == Cacheable(p) /\ mode[p] # "refresh"

Storable(p) == Cacheable(p) /\ (failed[p] => CacheFailed /\ mode[p] # "noFailures")

Stored(p) == {e \in cache : /\ CanRead(p) /\ e.key = Key(p)
                            /\ e.failed => mode[p] # "noFailures"}

Hit(p) ==
    /\ pc[p] = "lookup"
    /\ \E e \in Stored(p) : hit' = [hit EXCEPT ![p] = {e}]
    /\ Goto(p, "done")
    /\ UNCHANGED <<world, shared, mode, scan, key, child, due, history>>

Miss(p) ==
    /\ pc[p] = "lookup"
    /\ Stored(p) = {} \/ Expiring
    /\ unread' = [unread EXCEPT ![p] = {n \in Things : n = World => Probing}]
    /\ Goto(p, "child")
    /\ UNCHANGED <<world, shared, mode, scan, key, saw, failed, clean, hit, due, history>>

(* The command reads and writes when it likes; what it prints depends on what *)
(* it has read.                                                              *)
ChildReads(p) ==
    /\ pc[p] = "child"
    /\ \E n \in unread[p] :
         /\ saw' = [saw EXCEPT ![p][n] = node[n]]
         /\ unread' = [unread EXCEPT ![p] = @ \ {n}]
    /\ UNCHANGED <<world, shared, pc, mode, scan, key, failed, clean, hit, due, history>>

ChildWrites(p) ==
    /\ pc[p] = "child"
    /\ \E n \in Project : Write(n)
    /\ UNCHANGED <<shared, pc, mode, scan, key, child, hit, due, history>>

ChildExits(p) ==
    /\ pc[p] = "child" /\ unread[p] = {}
    /\ \E b \in BOOLEAN :
         /\ failed' = [failed EXCEPT ![p] = b]
         /\ LET stored == Cacheable(p) /\ (b => CacheFailed /\ mode[p] # "noFailures")
            IN Goto(p, IF Probing /\ stored THEN "reprobe" ELSE "rescan")
    /\ Visit(p)
    /\ UNCHANGED <<world, shared, mode, look, rows, key, unread, saw, clean, hit, due, history>>

Publish(p) ==
    /\ pc[p] = "publish"
    /\ cache' = IF Storable(p) /\ clean[p]
                THEN {e \in cache : e.key # Key(p)}
                       \cup {[key |-> Key(p), saw |-> saw[p], failed |-> failed[p]]}
                ELSE cache
    /\ Forget(p)
    /\ UNCHANGED <<world, index, history>>

(* gc and doctor --repair find no other process at work: results and the     *)
(* index may go.                                                             *)
Maintain ==
    /\ \A p \in Procs : pc[p] = "idle"
    /\ \/ \E e \in cache : cache' = cache \ {e} /\ UNCHANGED index
       \/ index # NoRows /\ index' = NoRows /\ UNCHANGED cache
    /\ UNCHANGED <<world, pc, mode, scan, key, child, hit, due, history>>

Step(p) ==
    \/ Start(p) \/ End(p) \/ Abandon(p)
    \/ Look(p) \/ Reuse(p) \/ Open(p) \/ Read(p) \/ Skip(p) \/ EndScan(p)

Run(p) ==
    \/ ProbeWrites(p) \/ Probe(p) \/ Reprobe(p)
    \/ EndRescan(p) \/ RescanFails(p)
    \/ ObserveEffect(p) \/ ObserveEffectMutation(p)
    \/ Hit(p) \/ Miss(p)
    \/ ChildReads(p) \/ ChildWrites(p) \/ ChildExits(p) \/ Publish(p)

Next ==
    \/ Tick \/ Edit \/ Maintain
    \/ \E p \in Procs : Step(p)
    \/ \E p \in Runners : Run(p)

Spec == Init /\ [][Next]_vars

-----------------------------------------------------------------------------
(* What holds. *)
Keys == [tree : [Inputs -> [skipped : BOOLEAN, id : Int]], effect : Int, fact : Int,
         allow : BOOLEAN]
Entry == [key : Keys, saw : [Things -> Node], failed : BOOLEAN]

FilesTyped ==
    /\ node \in [Things -> Node] /\ clock \in Nat /\ writes \in Nat
    /\ blurred \in BOOLEAN /\ mixed \in BOOLEAN /\ starts \in Nat

SharedTyped == index \in [Inputs -> Row] /\ cache \subseteq Entry

Phases == {"idle", "probe", "scan", "effect", "lookup", "child", "reprobe", "rescan",
           "reeffect", "publish", "done"}

PhaseTyped ==
    /\ pc \in [Procs -> Phases]
    /\ mode \in [Procs -> Modes \cup {"checkpoint", "readonly", "none"}]

ScanTyped ==
    /\ todo \in [Procs -> SUBSET Inputs]
    /\ look \in [Procs -> [at : Inputs \cup {World}, stamp : Nat, opened : BOOLEAN]]
    /\ \A p \in Procs : look[p].at = World => look[p] = NoLook
    /\ rows \in [Procs -> [Inputs -> Row]]

KeyTyped ==
    /\ before \in [Procs -> [Inputs -> Row]]
    /\ effect \in [Procs -> Nat \cup {Unknown}] /\ facts \in [Procs -> Nat \cup {Unknown}]

ChildTyped ==
    /\ unread \in [Procs -> SUBSET Things] /\ saw \in [Procs -> [Things -> Node]]
    /\ failed \in [Procs -> BOOLEAN] /\ clean \in [Procs -> BOOLEAN]

HitTyped == hit \in [Procs -> SUBSET Entry] /\ due \in [Procs -> [Things -> Node]]

(* Every variable has its type; the file a scan is at is one of its inputs. *)
TypeOK ==
    /\ FilesTyped /\ SharedTyped /\ PhaseTyped /\ ScanTyped
    /\ KeyTyped /\ ChildTyped /\ HitTyped

(* The guard of run.md:47-53: a result is reusable only if the command that   *)
(* made it saw exactly the inputs, the watched output and the facts it is    *)
(* keyed by, whoever wrote to them at whatever moment.                       *)
Faithful(e) ==
    /\ \A f \in Inputs :
         IF e.key.tree[f].skipped THEN e.saw[f].stamp = e.key.tree[f].id
                                  ELSE e.saw[f].ver = e.key.tree[f].id
    /\ e.saw[Watched].stamp = e.key.effect
    /\ Probing => e.saw[World].ver = e.key.fact

ReusableIsFaithful == \A e \in cache : Faithful(e)

(* No hit replays a result for a state that was over before the run began, or *)
(* before its own probe had ended: neither a stale index, nor a timestamp     *)
(* that hides a rewrite, nor a probe that writes, can bring one about.        *)
HitsAreFresh ==
    \A p \in Runners : \A e \in hit[p] :
        /\ \A f \in Inputs :
             IF e.key.tree[f].skipped THEN e.key.tree[f].id >= due[p][f].stamp
                                      ELSE e.saw[f].ver >= due[p][f].ver
        /\ e.saw[Watched].stamp >= due[p][Watched].stamp
        /\ Probing => e.saw[World].ver >= due[p][World].ver

(* A scan is current if it has no content that was over when it began. *)
Current(p) == \A f \in Inputs :
    rows[p][f].ver # Unknown => rows[p][f].ver >= due[p][f].ver

(* An ordinary scan may take a hash from the index.  That is right as long as *)
(* no two writes fall between two ticks, whoever writes and scans at the same *)
(* time; and where they do, as long as only the commands of awa run write,    *)
(* one at a time, for each run rescans after its command (run.go:998-1017).   *)
ScansAreCurrent ==
    ~mixed \/ ~blurred => \A p \in Readers : pc[p] = "done" => Current(p)

(* A run neither replays nor reports anything that was over when it looked.  *)
NothingIsStale == HitsAreFresh /\ ScansAreCurrent

-----------------------------------------------------------------------------
(* Why it holds.  Contents and timestamps only grow, and each phase of a run  *)
(* observes after the one before; what is equal at both ends was the same in *)
(* the middle, where the command read it.                                    *)
AtMost(r, n) == r.ver <= n.ver /\ r.stamp <= n.stamp
AtLeast(r, n) == (r.ver # Unknown => r.ver >= n.ver) /\ r.stamp >= n.stamp

Agrees(r, s) == IF r.ver = Unknown THEN s.stamp = r.stamp ELSE s.ver = r.ver

Ran == {"child", "reprobe", "rescan", "reeffect", "publish"}
Observing == {"scan", "effect", "lookup"}

(* Nothing observed is newer than what there is. *)
Ordered ==
    /\ \A n \in Things : node[n].ver <= writes /\ node[n].stamp <= clock
    /\ \A f \in Inputs : AtMost(index[f], node[f])
    /\ \A p \in Procs :
         /\ \A f \in Inputs : AtMost(rows[p][f], node[f]) /\ AtMost(before[p][f], node[f])
         /\ \A n \in Things : AtMost(saw[p][n], node[n]) /\ AtMost(due[p][n], node[n])
         /\ \A f \in Inputs : look[p].at = f => look[p].stamp <= node[f].stamp
         /\ effect[p] <= node[Watched].stamp /\ facts[p] <= node[World].ver

(* Which phases leave what behind. *)
Phased(p) ==
    /\ p \in Readers => pc[p] \in {"idle", "scan", "done"}
    /\ pc[p] = "idle" => facts[p] = Unknown
    /\ pc[p] \in {"probe", "reprobe"} => todo[p] = Inputs
    /\ pc[p] \notin {"scan", "rescan", "reeffect", "publish"} => look[p] = NoLook
    /\ pc[p] \in Ran \ {"child"} => unread[p] = {}
    /\ hit[p] # {} => pc[p] = "done"
    /\ mode[p] \in {"checkpoint", "readonly"} => p \in Readers
    /\ p \in Readers /\ pc[p] = "done" => todo[p] = {}

(* The observations before the command are no older than the start. *)
KeyIsFresh(p) ==
    /\ \A f \in Inputs :
         /\ p \in Runners /\ pc[p] = "scan" /\ f \notin todo[p] => AtLeast(rows[p][f], due[p][f])
         /\ p \in Readers /\ pc[p] \in {"scan", "done"} /\ f \notin todo[p] =>
              rows[p][f].stamp >= due[p][f].stamp
         /\ pc[p] = "scan" /\ look[p].at = f => look[p].stamp >= due[p][f].stamp
         /\ pc[p] \in {"effect", "lookup"} => AtLeast(before[p][f], due[p][f])
    /\ pc[p] = "lookup" => effect[p] = Unknown \/ effect[p] >= due[p][Watched].stamp
    /\ pc[p] \in Observing => facts[p] = Unknown \/ facts[p] >= due[p][World].ver

(* The command reads after them, the second scan after the command. *)
ReadsAreBracketed(p) ==
    /\ pc[p] \in Ran =>
         /\ \A f \in Inputs \ unread[p] :
              before[p][f].ver <= saw[p][f].ver /\ before[p][f].stamp <= saw[p][f].stamp
         /\ Watched \notin unread[p] => effect[p] <= saw[p][Watched].stamp
         /\ Probing /\ World \notin unread[p] => facts[p] <= saw[p][World].ver
    /\ pc[p] = "rescan" => \A f \in Inputs :
         /\ f \notin todo[p] => AtLeast(rows[p][f], saw[p][f])
         /\ look[p].at = f => look[p].stamp >= saw[p][f].stamp

(* What agrees at both ends is what the command saw. *)
CleanIsFaithful(p) ==
    clean[p] =>
      /\ pc[p] \in {"rescan", "reeffect", "publish"} /\ Probing /\ Storable(p) =>
           saw[p][World].ver = facts[p]
      /\ pc[p] \in {"reeffect", "publish"} =>
           \A f \in Inputs : Agrees(before[p][f], saw[p][f])
      /\ pc[p] = "publish" => saw[p][Watched].stamp = effect[p]

(* A row is right for its timestamp while no timestamp hides a rewrite. *)
RightFor(r, n) == r.ver # Unknown /\ r.stamp >= n.stamp => r.ver >= n.ver

StampsTell ==
    ~blurred => \A f \in Inputs :
        /\ RightFor(index[f], node[f]) /\ \A q \in Procs : RightFor(index[f], due[q][f])
        /\ \A p \in Procs :
             /\ RightFor(rows[p][f], node[f])
             /\ \A q \in Procs : RightFor(rows[p][f], due[q][f])

(* Alone with its own command a run leaves an index that is up to date. *)
Changing(p) ==
    pc[p] \in {"probe", "child", "reprobe", "rescan"} \/ (p \in Runners /\ pc[p] = "scan")

UpToDate(r, f) == r.ver # Unknown => r.ver = node[f].ver

AloneIsCurrent ==
    ~mixed =>
      /\ \A p, q \in Procs : pc[p] # "idle" /\ pc[q] # "idle" => p = q
      /\ (\A p \in Procs : ~Changing(p)) => \A f \in Inputs : UpToDate(index[f], f)
      /\ \A p \in Procs : \A f \in Inputs \ todo[p] :
           Scanning(p) \/ (p \in Readers /\ pc[p] = "done") => UpToDate(rows[p][f], f)

(* The inductive invariant (RunValidityProofs proves it). *)
IInv ==
    /\ TypeOK /\ Ordered
    /\ \A p \in Procs : /\ Phased(p) /\ KeyIsFresh(p)
                        /\ ReadsAreBracketed(p) /\ CleanIsFaithful(p)
    /\ ReusableIsFaithful /\ HitsAreFresh
    /\ StampsTell /\ AloneIsCurrent
=============================================================================
