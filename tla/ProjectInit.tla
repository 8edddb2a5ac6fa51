---------------------------- MODULE ProjectInit ----------------------------
(***************************************************************************)
(* A project comes into being: several `awa init` at once in one           *)
(* directory, with commands that already discover the half-built .awa      *)
(* there, restore its guard, write a configuration or evidence into it,    *)
(* a user who tampers with the guard, and processes that fail, roll back   *)
(* or die between any two steps.                                           *)
(***************************************************************************)
EXTENDS Integers, Sequences, FiniteSets

CONSTANTS
    Starters,       \* the processes
    RequiredDirs,   \* the directories of a project's layout
    Around          \* what .awa may be in the enclosing directory

VARIABLES
    node,           \* directory |-> what its .awa is
    layoutDirs, guard,    \* the layout's directories, the .gitignore guard
    local,          \* .awa/config.toml
    evidence,       \* whether evidence has been written below .awa
    task,           \* process |-> what it is doing
    past            \* what has happened: tampering, rollbacks, forced writes

initVars == <<node, layoutDirs, guard, local, evidence, task, past>>

Here == "here"
Above == "above"
NoFile == "absent"
Ancestors(start) == IF start = Here THEN <<Here, Above>> ELSE <<Above>>
(* A file or a link of that name is no project: the search goes on upward.  *)
markerExists(kind) == kind = "dir"
FindRoot(start) ==
    LET ups == Ancestors(start)
        ends == {i \in DOMAIN ups : markerExists(node[ups[i]]) \/ node[ups[i]] = "opaque"}
    IN IF ends = {} THEN "not found"
       ELSE LET i == CHOOSE i \in ends : \A j \in ends : i <= j
            IN IF node[ups[i]] = "opaque" THEN "failed" ELSE ups[i]

(* The default profile writes no configuration file.                        *)
profileConfig(profile) == IF profile = "strict" THEN "strict" ELSE NoFile
IsAt(p, step) == task[p].step = step
Goes(p, step) == task' = [task EXCEPT ![p].step = step]
Ends(p, reply) == task' = [task EXCEPT ![p].step = "ended", ![p].answer = reply]
(* The process that made the marker removes it again; any other just fails. *)
Fails(p) == IF task[p].does = "init" THEN Goes(p, "roll back") ELSE Ends(p, "failed")
Start(p) ==
    /\ IsAt(p, "start")
    /\ IF task[p].does = "init" THEN Goes(p, "marker")
       ELSE LET found == FindRoot(Here) IN
            IF found # Here THEN Ends(p, found)
            ELSE Goes(p, IF task[p].does = "configure" THEN "config" ELSE "guard")
    /\ UNCHANGED <<node, layoutDirs, guard, local, evidence, past>>

(* Mutated: looking for the marker and making it are two steps in one.      *)
CreateMarkerAnyway(p) ==
    /\ IsAt(p, "marker")
    /\ CASE node[Here] \in {"absent", "dir"} -> node' = [node EXCEPT ![Here] = "dir"] /\ Goes(p, "dirs")
         [] OTHER -> Ends(p, "not a directory") /\ node' = node
    /\ UNCHANGED <<layoutDirs, guard, local, evidence, past>>
CreateMarker(p) ==
    /\ IsAt(p, "marker")
    /\ \/ Ends(p, "failed") /\ node' = node
       \/ CASE node[Here] = "absent" -> node' = [node EXCEPT ![Here] = "dir"] /\ Goes(p, "dirs")
            [] node[Here] = "dir" -> Ends(p, "already initialized") /\ node' = node
            [] OTHER -> Ends(p, "not a directory") /\ node' = node
    /\ UNCHANGED <<layoutDirs, guard, local, evidence, past>>
EnsureDirs(p) ==
    /\ IsAt(p, "dirs")
    /\ \E made \in SUBSET RequiredDirs :
        /\ layoutDirs' = layoutDirs \cup made
        /\ IF made = RequiredDirs THEN Goes(p, "guard") ELSE Goes(p, "roll back")
    /\ UNCHANGED <<node, guard, local, evidence, past>>

(* The guard is looked at, and written if it does not ignore everything:    *)
(* a missing one exclusively, an ineffective one over itself.               *)
AfterGuard(p) ==
    CASE task[p].does = "write" -> Goes(p, "write")
      [] task[p].does = "init" /\ profileConfig(task[p].profile) # NoFile -> Goes(p, "config")
      [] OTHER -> Ends(p, "done")
InspectStateGitignore(p) ==
    /\ IsAt(p, "guard")
    /\ CASE guard = "effective" -> AfterGuard(p)
         [] guard = "missing" -> Goes(p, "create guard")
         [] guard = "ineffective" -> Goes(p, "replace guard")
         [] OTHER -> Fails(p)
    /\ UNCHANGED <<node, layoutDirs, guard, local, evidence, past>>
(* What publishes a file makes its directory again if that has gone.        *)
EnsureStateGitignore(p) ==
    /\ task[p].step \in {"create guard", "replace guard"}
    /\ \/ Fails(p) /\ UNCHANGED <<node, guard>>
       \/ /\ guard # "opaque" /\ (IsAt(p, "create guard") => guard = "missing")
          /\ guard' = "effective" /\ node' = [node EXCEPT ![Here] = "dir"] /\ AfterGuard(p)
    /\ UNCHANGED <<layoutDirs, local, evidence, past>>

(* Mutated: the file is renamed into place whatever is there.               *)
WriteOverFile(p, content) == local' = content
(* A link fails where a file is; a rename replaces it.                      *)
WriteNewFile(p, content) == (task[p].force \/ local = NoFile) /\ local' = content
WriteConfig(p) ==
    /\ IsAt(p, "config")
    /\ \/ Fails(p) /\ UNCHANGED <<node, local, past>>
       \/ /\ WriteNewFile(p, IF task[p].does = "init" THEN profileConfig(task[p].profile) ELSE "template")
          /\ past' = IF task[p].force THEN past \cup {"forced"} ELSE past
          /\ node' = [node EXCEPT ![Here] = "dir"] /\ Ends(p, "done")
    /\ UNCHANGED <<layoutDirs, guard, evidence>>
Write(p) ==
    /\ IsAt(p, "write") /\ evidence' = TRUE /\ node' = [node EXCEPT ![Here] = "dir"] /\ Ends(p, "done")
    /\ UNCHANGED <<layoutDirs, guard, local, past>>
(* A removal that fails half-way leaves some of it, and says so.            *)
Rollback(p) ==
    /\ IsAt(p, "roll back") /\ past' = past \cup {"rolled back"}
    /\ \/ /\ node' = [node EXCEPT ![Here] = "absent"] /\ layoutDirs' = {} /\ guard' = "missing"
          /\ local' = NoFile /\ evidence' = FALSE /\ Ends(p, "failed")
       \/ /\ node' = node /\ layoutDirs' \in SUBSET layoutDirs /\ guard' \in {guard, "missing"}
          /\ local' \in {local, NoFile} /\ evidence' \in {evidence, FALSE} /\ Ends(p, "failed, left behind")
Dies(p) ==
    /\ task[p].step \notin {"start", "ended"} /\ Ends(p, "died")
    /\ UNCHANGED <<node, layoutDirs, guard, local, evidence, past>>
(* A user deletes or edits the guard, or puts something unreadable there.   *)
Tamper ==
    /\ "tampered" \notin past /\ past' = past \cup {"tampered"} /\ node[Here] = "dir"
    /\ guard' \in {"missing", "ineffective", "opaque"}
    /\ UNCHANGED <<node, layoutDirs, local, evidence, task>>

Tasks ==
    {[does |-> d, profile |-> r, force |-> f, step |-> "start", answer |-> "none"] :
        d \in {"init", "write", "read", "configure"}, r \in {"default", "strict"}, f \in BOOLEAN}
ProjectInitially ==
    /\ node \in [{Here, Above} -> Around] /\ node[Here] # "opaque"
    /\ \/ /\ node[Here] # "dir" /\ layoutDirs = {} /\ guard = "missing" /\ past = {}
       \/ /\ node[Here] = "dir" /\ layoutDirs = RequiredDirs /\ guard = "effective" /\ past = {"existed"}
    /\ local = NoFile /\ evidence = FALSE
    /\ task \in [Starters -> {t \in Tasks : (t.does # "init" => t.profile = "default") /\ (t.does # "configure" => ~t.force)}]
ProjectNext ==
    \/ \E p \in Starters : Start(p) \/ CreateMarker(p) \/ EnsureDirs(p) \/ InspectStateGitignore(p)
                           \/ EnsureStateGitignore(p) \/ WriteConfig(p) \/ Write(p) \/ Rollback(p) \/ Dies(p)
    \/ Tamper
ProjectSpec == ProjectInitially /\ [][ProjectNext]_initVars

(***************************************************************************)
(* One init creates the project, whole, and no other's rollback takes it   *)
(* away; one that failed leaves nothing, unless it says so or somebody     *)
(* else was there; an unforced write replaces nobody's configuration; and  *)
(* evidence is under an effective guard, however many died on the way.     *)
(***************************************************************************)
Did(p, what) == task[p].does = what /\ task[p].answer = "done"
CleanlyFailed(p) == task[p].does = "init" /\ task[p].answer \in {"failed", "not a directory"}
FoundNothing(p) == task[p].does # "init" /\ task[p].answer \in {"not found", Above}
InitIsAllOrNothing ==
    /\ \A p \in Starters : Did(p, "init") =>
        /\ node[Here] = "dir" /\ layoutDirs = RequiredDirs
        /\ "tampered" \notin past => guard = "effective"
        /\ task[p].profile = "strict" /\ "forced" \notin past => local = "strict"
        /\ \A q \in Starters \ {p} : ~Did(q, "init") /\ ~IsAt(q, "roll back")
    /\ "existed" \notin past /\ (\A p \in Starters : CleanlyFailed(p) \/ FoundNothing(p)) => node[Here] # "dir"
    /\ \A p \in Starters : Did(p, "configure") /\ past \cap {"rolled back", "forced"} = {} => local = "template"
    /\ evidence /\ past \subseteq {"existed"} => guard = "effective"

(***************************************************************************)
(* The inductive invariant behind it (ProjectProofs): whoever made the      *)
(* marker is alone with it until it has ended, and what each process has    *)
(* established holds until somebody tampers, rolls back or forces.          *)
(***************************************************************************)
Building == {"dirs", "guard", "create guard", "replace guard", "config", "roll back"}
Stages == Building \cup {"start", "marker", "write", "ended"}
Replies == {"none", "not found", "above", "failed", "failed, left behind", "already initialized",
            "not a directory", "done", "died"}
TasksFit ==
    /\ task \in [Starters -> [does : {"init", "write", "read", "configure"}, profile : {"default", "strict"},
                              force : BOOLEAN, step : Stages, answer : Replies]]
    /\ \A p \in Starters :
        /\ task[p].step \in {"marker", "dirs", "roll back"} => task[p].does = "init"
        /\ IsAt(p, "write") => task[p].does = "write"
        /\ IsAt(p, "config") => task[p].does \in {"init", "configure"}
        /\ task[p].step \in {"guard", "create guard", "replace guard"} => task[p].does # "configure"
        /\ task[p].answer = "none" <=> ~IsAt(p, "ended")
Builds(p) == task[p].does = "init" /\ (task[p].step \in Building \/ Did(p, "init"))
BuilderIsAlone ==
    \A p \in Starters : Builds(p) => node[Here] = "dir" /\ \A q \in Starters : Builds(q) => q = p
ProjectIsWhole ==
    /\ layoutDirs \subseteq RequiredDirs
    /\ \A p \in Starters : Builds(p) /\ task[p].step \notin {"dirs", "roll back"} =>
        /\ layoutDirs = RequiredDirs
        /\ task[p].step \in {"config", "ended"} /\ "tampered" \notin past => guard = "effective"
        /\ Did(p, "init") /\ task[p].profile = "strict" /\ "forced" \notin past => local = "strict"
    /\ \A p \in Starters : Did(p, "configure") /\ past \cap {"rolled back", "forced"} = {} => local = "template"
    /\ (evidence \/ \E p \in Starters : IsAt(p, "write")) /\ past \subseteq {"existed"} => guard = "effective"
(* Who can be told to have left something behind. *)
Answers(p) ==
    IF task[p].does = "init"
    THEN task[p].step \in Building \/ task[p].answer \in {"done", "died", "failed, left behind"}
    ELSE ~IsAt(p, "start") /\ ~FoundNothing(p)
SomebodyAnswers == node[Here] = "dir" /\ "existed" \notin past => \E p \in Starters : Answers(p)
ProjectInv ==
    /\ node \in [{Here, Above} -> Around \cup {"dir", "absent"}]
    /\ TasksFit /\ BuilderIsAlone /\ ProjectIsWhole /\ SomebodyAnswers
=============================================================================
