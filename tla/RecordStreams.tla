--------------------------- MODULE RecordStreams ---------------------------
(* The records of one command on their way through files: the external sort  *)
(* of manifests and exclusion frontiers (infra/manifestsort,                 *)
(* infra/frontierjsonl), the spool of a restore's operations                 *)
(* (infra/restorespool), the copies that go into the stores, and the cursors *)
(* that read them all back, while reads and writes fail, gc removes the      *)
(* temporary directory of a command that holds no lock, and stored files are *)
(* damaged.  Nobody may take a part of a stream for the whole of it.         *)
EXTENDS FiniteSets, Integers, Sequences
LOCAL INSTANCE SequencesExt

CONSTANTS
    StreamPaths, \* a set of numbers: their order is the canonical order
    Inside,     \* Inside[p]: the paths below directory p
    BufferMax,  \* records a sorter holds before it spills
    MaxRecords, \* bound of the run: records added
    MaxFaults   \* bound of the run: failures of reads, writes and sweeps

ASSUME StreamsAssumption ==
    /\ StreamPaths \subseteq Nat /\ Inside \in [StreamPaths -> SUBSET StreamPaths]
    /\ BufferMax \in Nat \ {0} /\ MaxRecords \in Nat /\ MaxFaults \in Nat

VARIABLES
    kind,     \* "manifest", "frontier" or "spool"
    owner,    \* whose store takes the copy: "checkpoint", "run" or "recovery"
    phase,    \* "add", "merge", "sorted", "failed", "closed"
    added,    \* every record given to Add, in that order
    refused,  \* an Add has failed: s.err
    buf, runs, dir, fronts, out,
    stored,   \* <<>> or <<the published copy>>
    read,     \* the cursor in use
    pass, applied,
    faults, damaged

streamVars == <<kind, owner, phase, added, refused, buf, runs, dir, fronts, out, stored,
                read, pass, applied, faults, damaged>>
sorter == <<kind, owner, phase, added, refused, buf, runs, fronts, out>>

Uses == ({"manifest"} \X {"checkpoint", "run", "recovery"}) \cup
        ({"frontier"} \X {"checkpoint", "run"}) \cup {<<"spool", "recovery">>}

(* What a record says of its path, as far as anybody tells it apart: a       *)
(* content and whether it is a blob or a hash only, a limit, the rank of an  *)
(* operation.                                                                *)
Whats ==
    CASE kind = "manifest" -> {"blob", "hash only", "other"}
      [] kind = "frontier" -> {"node", "subtree"}
      [] OTHER -> {"write", "delete file", "delete directory", "replace directory"}

Records == {[path |-> p, what |-> w] : p \in StreamPaths, w \in Whats}

(* A line that does not decode: torn, blank, of an impossible shape, with a  *)
(* path that is not canonical or an unknown field.                           *)
NotARecord == [path |-> -1, what |-> "damaged"]
Decodes(line) == line # NotARecord

Before(a, b) == a.path < b.path
Sorted(records) == SortSeq(records, Before)
Ascending(records) == \A i \in 1 .. Len(records) - 1 : Before(records[i], records[i + 1])
MayFollow(records, r) == records # <<>> => Before(Last(records), r)

-----------------------------------------------------------------------------
(* Reading a file line by line.  A failing read may still deliver its last   *)
(* line; whatever is read after it looks like the end of the file, so that   *)
(* the failure has to be remembered.                                         *)
Cursor(lines) == [rest |-> lines, cur |-> NotARecord, pending |-> FALSE, is |-> "line"]

Good(c) ==
    IF c.rest = <<>> THEN [c EXCEPT !.is = "end"]
    ELSE IF ~Decodes(Head(c.rest)) THEN [c EXCEPT !.is = "error"]
    ELSE [c EXCEPT !.rest = Tail(@), !.cur = Head(c.rest)]

(* Mutated: the failure is not kept for the next call. *)
PendsNot == FALSE
Pends == TRUE

Failing(c) ==
    {[c EXCEPT !.is = "error"]} \cup
    (IF c.rest # <<>> /\ Decodes(Head(c.rest))
     THEN {[c EXCEPT !.rest = <<>>, !.cur = Head(c.rest), !.pending = Pends]} ELSE {})

(* What the next call of a cursor may bring.                                 *)
Advances(c) ==
    IF c.pending THEN {[c EXCEPT !.is = "error"]}
    ELSE {Good(c)} \cup IF faults < MaxFaults THEN Failing(c) ELSE {}

Faulted(new) == faults' = IF new THEN faults + 1 ELSE faults
Failed(c, next) == ~c.pending /\ next # Good(c)

-----------------------------------------------------------------------------
NoRead == [of |-> "scan", cursor |-> Cursor(<<>>), got |-> <<>>, state |-> "none"]

StreamInit ==
    /\ \E use \in Uses : kind = use[1] /\ owner = use[2]
    /\ phase = "add" /\ added = <<>>
    /\ refused = FALSE /\ buf = <<>> /\ runs = <<>> /\ fronts = <<>> /\ out = <<>>
    /\ dir = IF kind = "spool" THEN "there" ELSE "none"
    /\ stored = <<>> /\ read = NoRead /\ pass = 0 /\ applied = <<>>
    /\ faults = 0 /\ damaged = FALSE

Sorts == kind \in {"manifest", "frontier"}
Later == UNCHANGED <<stored, read, pass, applied, damaged>>

(* One run file is written; the directory is made for the first one and is   *)
(* not made again if it disappears.                                          *)
CanSpill == dir # "gone"
NoRoom == faults < MaxFaults \/ dir = "gone"

Add(r) ==
    /\ phase = "add" /\ Sorts /\ ~refused /\ Len(added) < MaxRecords
    /\ added' = Append(added, r)
    /\ LET full == Append(buf, r) IN
       IF Len(full) < BufferMax
       THEN buf' = full /\ UNCHANGED <<runs, dir, refused, faults>>
       ELSE \/ /\ CanSpill
               /\ runs' = Append(runs, Sorted(full)) /\ buf' = <<>> /\ dir' = "there"
               /\ UNCHANGED <<refused, faults>>
            \/ /\ NoRoom
               /\ refused' = TRUE /\ buf' = full /\ UNCHANGED runs
               /\ dir' \in IF dir = "none" THEN {"none", "there"} ELSE {dir}
               /\ Faulted(dir # "gone")
    /\ Later /\ UNCHANGED <<kind, owner, phase, fronts, out>>

(* The spool takes operations in the order of the plan's merge.              *)
AddOperation(r) ==
    /\ phase = "add" /\ kind = "spool" /\ Len(added) < MaxRecords
    /\ MayFollow(added, r)
    /\ added' = Append(added, r)
    /\ Later /\ UNCHANGED <<kind, owner, phase, refused, buf, runs, dir, fronts, out, faults>>

Removed == IF dir = "none" THEN "none" ELSE "gone"

(* The walk or the planning fails: the sorter is closed, the spool discarded.*)
Abandon ==
    /\ phase = "add" /\ phase' = "closed" /\ dir' = Removed
    /\ Later /\ UNCHANGED <<kind, owner, added, refused, buf, runs, fronts, out, faults>>

(* Finish cleans up behind itself whenever it returns an error.              *)
FinishFails(new) ==
    /\ phase' = "failed" /\ dir' = Removed /\ fronts' = <<>> /\ Faulted(new)
    /\ Later /\ UNCHANGED <<kind, owner, added, refused, buf, runs, out>>

SortInMemory ==
    /\ runs = <<>>
    /\ IF Ascending(Sorted(buf))
       THEN /\ phase' = "sorted" /\ out' = Sorted(buf) /\ Later
            /\ UNCHANGED <<kind, owner, added, refused, buf, runs, dir, fronts, faults>>
       ELSE FinishFails(FALSE)

(* The tail is spilled, every run opened and read to its first record.       *)
AllRuns == IF buf = <<>> THEN runs ELSE Append(runs, Sorted(buf))

OpenRuns ==
    /\ runs # <<>>
    /\ \/ /\ dir = "there"
          /\ \E f \in [DOMAIN AllRuns -> UNION {Advances(Cursor(AllRuns[i])) : i \in DOMAIN AllRuns}] :
             LET bad == {i \in DOMAIN AllRuns : f[i] # Good(Cursor(AllRuns[i]))} IN
             /\ \A i \in DOMAIN AllRuns : f[i] \in Advances(Cursor(AllRuns[i]))
             /\ Cardinality(bad) <= 1
             /\ IF \E i \in bad : f[i].is = "error" THEN FinishFails(TRUE)
                ELSE /\ phase' = "merge" /\ fronts' = f /\ runs' = AllRuns /\ buf' = <<>>
                     /\ Faulted(bad # {}) /\ Later
                     /\ UNCHANGED <<kind, owner, added, refused, dir, out>>
       \/ NoRoom /\ FinishFails(dir # "gone")

Finish ==
    /\ phase = "add" /\ Sorts
    /\ IF refused THEN FinishFails(FALSE) ELSE SortInMemory \/ OpenRuns

(* The heap holds the runs that have a record left; its top is written out.  *)
Heap == {i \in DOMAIN fronts : fronts[i].is = "line"}
Tops == {i \in Heap : \A j \in Heap : fronts[i].cur.path <= fronts[j].cur.path}

MergeStep ==
    /\ phase = "merge"
    /\ \E i \in Tops : \E next \in Advances(fronts[i]) :
        IF next.is = "error" \/ ~MayFollow(out, fronts[i].cur)
        THEN FinishFails(Failed(fronts[i], next))
        ELSE /\ fronts' = [fronts EXCEPT ![i] = next]
             /\ out' = Append(out, fronts[i].cur)
             /\ Faulted(Failed(fronts[i], next)) /\ Later
             /\ UNCHANGED <<kind, owner, phase, added, refused, buf, runs, dir>>

(* The output is flushed and closed, and the directory goes over to the      *)
(* result; a frontier's run files are not kept beside it.                    *)
EndMerge ==
    /\ phase = "merge" /\ Heap = {}
    /\ \/ /\ phase' = "sorted" /\ fronts' = <<>>
          /\ runs' = IF kind = "frontier" THEN <<>> ELSE runs
          /\ Later /\ UNCHANGED <<kind, owner, added, refused, buf, dir, out, faults>>
       \/ faults < MaxFaults /\ FinishFails(TRUE)

Seal ==
    /\ phase = "add" /\ kind = "spool"
    /\ \/ /\ phase' = "sorted" /\ out' = added /\ Later
          /\ UNCHANGED <<kind, owner, added, refused, buf, runs, dir, fronts, faults>>
       \/ faults < MaxFaults /\ FinishFails(TRUE)

(* The result is closed, the spool discarded.                                *)
Close ==
    /\ phase = "sorted" /\ read.state # "open"
    /\ phase' = "closed" /\ dir' = Removed
    /\ Later /\ UNCHANGED <<kind, owner, added, refused, buf, runs, fronts, out, faults>>

(* gc finds the directory older than its threshold; a command that only      *)
(* reads holds no presence token.  Open files stay readable.                 *)
Sweep ==
    /\ dir = "there" /\ kind # "spool" /\ faults < MaxFaults
    /\ dir' = "gone" /\ Faulted(TRUE)
    /\ Later /\ UNCHANGED sorter

-----------------------------------------------------------------------------
(* The stream of a result is opened again for every reader of it.            *)
OpenScan ==
    /\ phase = "sorted" /\ read.state # "open" /\ pass = 0
    /\ read' = IF dir = "gone" THEN [NoRead EXCEPT !.state = "failed"]
               ELSE [NoRead EXCEPT !.state = "open", !.cursor = Cursor(out)]
    /\ UNCHANGED <<sorter, dir, stored, pass, applied, faults, damaged>>

OpenStored ==
    /\ stored # <<>> /\ read.state # "open" /\ pass = 0
    /\ read' = [NoRead EXCEPT !.of = "store", !.state = "open", !.cursor = Cursor(stored[1].lines)]
    /\ UNCHANGED <<sorter, dir, stored, pass, applied, faults, damaged>>

(* Which streams insist on what at their end, and on each record.            *)
ChecksOrder == kind # "spool" \/ read.of = "store"
ChecksCount == kind # "frontier" \/ read.of = "store"
ChecksDigest ==
    read.of = "store" /\ (kind = "frontier" \/ (kind = "manifest" /\ owner # "checkpoint"))

(* A run publishes no content, so a line that says otherwise is forged.      *)
ClaimsBlob(r) == read.of = "store" /\ owner = "run" /\ r.what = "blob"

(* The tree hash covers all of a record but where its content is kept.       *)
Hashed(r) == IF r.what = "blob" THEN [r EXCEPT !.what = "hash only"] ELSE r
Digest(records) == [i \in DOMAIN records |-> Hashed(records[i])]

Expected == IF read.of = "store" THEN stored[1].count ELSE Len(out)

WholeAtEnd ==
    /\ ChecksCount => Len(read.got) = Expected
    /\ ChecksDigest => Digest(read.got) = stored[1].digest

(* A result in memory is read from a slice, which does not fail.             *)
Reads == IF read.of = "scan" /\ dir = "none" THEN {Good(read.cursor)} ELSE Advances(read.cursor)

(* One step of the open cursor: the line is checked, then handed on.         *)
Advanced(next) ==
    IF next.is = "error" \/ (next.is = "end" /\ ~WholeAtEnd)
    THEN [read EXCEPT !.state = "failed"]
    ELSE IF next.is = "end" THEN [read EXCEPT !.state = "done"]
    ELSE IF (ChecksOrder /\ ~MayFollow(read.got, next.cur)) \/ ClaimsBlob(next.cur)
    THEN [read EXCEPT !.state = "failed"]
    ELSE [read EXCEPT !.cursor = next, !.got = Append(@, next.cur)]

ReadNext ==
    /\ read.state = "open" /\ read.of # "pass"
    /\ \E next \in Reads : read' = Advanced(next) /\ Faulted(Failed(read.cursor, next))
    /\ UNCHANGED <<sorter, dir, stored, pass, applied, damaged>>

(* A run keeps hashes only, and of a spool the covered paths are kept.       *)
Kept(r) ==
    CASE kind = "spool" -> [r EXCEPT !.what = "covered"]
      [] kind = "manifest" /\ owner = "run" -> Hashed(r)
      [] OTHER -> r

(* The store's copy is counted and folded into its digest while it is        *)
(* written, from the same records.                                           *)
Take ==
    /\ read.of = "scan" /\ read.state = "done" /\ stored = <<>>
    /\ LET copy == [i \in DOMAIN read.got |-> Kept(read.got[i])] IN
       stored' = <<[lines |-> copy, count |-> Len(copy), digest |-> Digest(copy)]>>
    /\ UNCHANGED <<sorter, dir, read, pass, applied, faults, damaged>>

CopyCheckpoint == owner = "checkpoint" /\ Take
CopyRun == owner = "run" /\ Take
CopyRecovery == owner = "recovery" /\ Take

(* A stored file loses its end, or one of its lines is torn, repeated,       *)
(* exchanged for its neighbour or becomes another record, of its path or not.*)
Lines == IF kind = "spool" THEN {Kept(r) : r \in Records} ELSE Records

DamagedForms(lines) ==
    {SubSeq(lines, 1, n) : n \in 0 .. Len(lines) - 1} \cup
    {[lines EXCEPT ![i] = NotARecord] : i \in DOMAIN lines} \cup
    {InsertAt(lines, i, lines[i]) : i \in DOMAIN lines} \cup
    {[lines EXCEPT ![i] = lines[i + 1], ![i + 1] = lines[i]] : i \in 1 .. Len(lines) - 1} \cup
    UNION {{[lines EXCEPT ![i] = r] : r \in Lines \ {lines[i]}} : i \in DOMAIN lines}

Damage ==
    /\ stored # <<>> /\ ~damaged /\ read.state # "open"
    /\ \E lines \in DamagedForms(stored[1].lines) : stored' = <<[stored[1] EXCEPT !.lines = lines]>>
    /\ damaged' = TRUE
    /\ UNCHANGED <<sorter, dir, read, pass, applied, faults>>

-----------------------------------------------------------------------------
(* The executor of a restore reads the spool once for each rank, and for     *)
(* directories to be deleted once for each depth, deepest first.             *)
Depth(p) == 1 + Cardinality({d \in StreamPaths : p \in Inside[d]})
MaxDirDepth ==
    LET depths == {Depth(added[i].path) : i \in {j \in DOMAIN added : added[j].what = "delete directory"}}
    IN  IF depths = {} THEN 0 ELSE CHOOSE d \in depths : \A e \in depths : e <= d

(* Mutated: directories are deleted in one pass, in the order of the spool. *)
PassesShallow ==
    <<[what |-> "write", depth |-> 0], [what |-> "delete file", depth |-> 0],
      [what |-> "delete directory", depth |-> 0], [what |-> "replace directory", depth |-> 0]>>
Passes ==
    <<[what |-> "write", depth |-> 0], [what |-> "delete file", depth |-> 0]>>
    \o [i \in 1 .. MaxDirDepth |-> [what |-> "delete directory", depth |-> MaxDirDepth + 1 - i]]
    \o <<[what |-> "replace directory", depth |-> 0]>>

BelongsTo(op, n) ==
    /\ op.what = Passes[n].what
    /\ Passes[n].depth > 0 => Depth(op.path) = Passes[n].depth

BeginPass ==
    /\ kind = "spool" /\ phase = "sorted" /\ pass < Len(Passes)
    /\ read.state # "open" /\ (pass > 0 => read.state = "done")
    /\ pass' = pass + 1
    /\ read' = [NoRead EXCEPT !.of = "pass", !.state = "open", !.cursor = Cursor(out)]
    /\ UNCHANGED <<sorter, dir, stored, applied, faults, damaged>>

PassNext ==
    /\ read.state = "open" /\ read.of = "pass"
    /\ \E next \in Advances(read.cursor) :
        /\ read' = Advanced(next) /\ Faulted(Failed(read.cursor, next))
        /\ applied' = IF next.is = "line" /\ BelongsTo(next.cur, pass)
                      THEN Append(applied, next.cur) ELSE applied
    /\ UNCHANGED <<sorter, dir, stored, pass, damaged>>

StreamNext ==
    \/ \E r \in Records : Add(r) \/ AddOperation(r)
    \/ Abandon \/ Finish \/ MergeStep \/ EndMerge \/ Seal \/ Close \/ Sweep
    \/ OpenScan \/ OpenStored \/ ReadNext \/ Damage
    \/ CopyCheckpoint \/ CopyRun \/ CopyRecovery
    \/ BeginPass \/ PassNext

StreamSpec == StreamInit /\ [][StreamNext]_streamVars

-----------------------------------------------------------------------------
Duplicates == \E i, j \in DOMAIN added : i # j /\ added[i].path = added[j].path

(* A cursor that comes to its end without an error has delivered as many     *)
(* records as were added, in strict order, whatever failed, was swept or was *)
(* damaged meanwhile: it stops nowhere and skips nothing.  They are the very *)
(* records too, unless the stored file was damaged and has no digest that    *)
(* covers it: a checkpoint's manifest and the scope of a recovery record are *)
(* held to count and order alone, and the digest of a recovery record's      *)
(* manifest does not say where a content is kept.                            *)
Damaged == read.of = "store" /\ damaged

WholeRead ==
    read.state = "done" =>
        LET whole == [i \in DOMAIN added |-> IF read.of = "store" THEN Kept(Sorted(added)[i])
                                            ELSE Sorted(added)[i]]
        IN  /\ Len(read.got) = Len(whole) /\ Ascending(read.got)
            /\ (Damaged /\ ~ChecksDigest) \/ Digest(read.got) = Digest(whole)
            /\ (Damaged /\ kind # "frontier" /\ owner # "run") \/ read.got = whole

(* A sort fails only if something failed or a path came twice, and then it   *)
(* leaves no directory behind.                                               *)
FailsForAReason ==
    phase = "failed" => (faults > 0 \/ Duplicates) /\ dir # "there"

(* The passes over a spool that all came to their end have applied each      *)
(* operation once, and emptied a directory before it was removed.            *)
EveryOperationHasItsTurn ==
    pass = Len(Passes) /\ read.state = "done" =>
        /\ Len(applied) = Len(added)
        /\ \A i \in DOMAIN added : \E j \in DOMAIN applied : applied[j] = added[i]
        /\ \A i, j \in DOMAIN applied :
               /\ applied[j].path \in Inside[applied[i].path]
               /\ applied[i].what \in {"delete directory", "replace directory"}
               /\ applied[j].what \in {"delete file", "delete directory"}
               => j < i

(* What is read back from a temp, a sort, a spool or a store is what was put *)
(* in, as far as its reader can tell; and each record of it has its turn.    *)
ReadsAreWhole == WholeRead /\ FailsForAReason /\ EveryOperationHasItsTurn
=============================================================================
