-------------------------- MODULE StateAssessment --------------------------
(* The state provider (internal/app/stateprovider): each operand of a        *)
(* comparison is resolved on its own to a record or to an observation of     *)
(* now, the pair is classified, and what is published is verified first.     *)
(* It holds no lock: checkpoints are published, gc removes records file by   *)
(* file and files are damaged between any two of its reads.                  *)
EXTENDS NowObservation, FiniteSets, Naturals

CONSTANTS Checkpoints,  \* ids of checkpoints
          Runs,         \* recorded observations of one run, before and after
          Evidence,     \* record -> [tree, policy, known, hidden, missing], fixed when made
          Rank,         \* checkpoint -> its place in the order of createdAt
          Asks,         \* the pairs of references asked about
          Stores,       \* the states of the stores when the question is asked
          NowPolicy,    \* the policy hash of the configuration
          NowHidden,    \* paths the ignore files keep out of the scan
          MaxEvents     \* what happens around one question

Records == Checkpoints \cup Runs
Sides == {1, 2}
Paths == Files \cup NowHidden
Now == "now"
NowTree == [p \in Paths |-> IF p \in Files THEN seen[p] ELSE NoEntry]

(* What is at the address of a file of a record; "foreign" is a header of    *)
(* another schema version.                                                   *)
Health == {"none", "whole", "bad", "foreign"}
Payload == Health \ {"foreign"}

References ==
    [kind : {"now"}] \cup [kind : {"position"}, n : Nat \ {0}] \cup
    [kind : {"prefix"}, ids : SUBSET Checkpoints] \cup [kind : {"run"}, id : Runs]

Reasons == {"not-found", "observation-unstable", "ambiguous-reference", "metadata-corrupt",
            "metadata-incompatible", "manifest-unavailable", "io-error"}

ASSUME StateAssumption ==
    /\ Asks \subseteq [Sides -> References]
    /\ {Now, None} \cap Records = {}
    /\ NowHidden \cap Files = {}
    /\ \A r \in Records : Evidence[r].tree \in [Paths -> Entries] /\ Evidence[r].known \in BOOLEAN
    /\ Stores \subseteq [header : [Records -> Health],
                        manifest : [Records -> Payload], frontier : [Records -> Payload]]
    /\ MaxEvents \in Nat

ASSUME OrderAssumption == IsFiniteSet(Checkpoints) /\ Rank \in [Checkpoints -> Nat]

VARIABLES
    header, manifest, frontier,  \* record -> Health
    asked,      \* side -> reference
    doing,      \* the stage of the question
    side,       \* the operand it is at
    unvisited,  \* checkpoints the directory enumeration has not come to
    visiting,   \* the committed one whose header is read next, or {}
    found,      \* what the pass keeps: the window of newest, or the matches
    counts,     \* committed headers by health
    operand,    \* side -> the candidate it resolved to, or why it did not
    verified,   \* side -> None, "whole" or the reason it is unavailable
    outlook,    \* the verdict that stands if both operands verify
    result,     \* what is published
    events,     \* edits, publications, removals and damages so far
    steady,     \* auxiliary: checkpoints untouched since the pass began
    touched     \* auxiliary: records touched, and Now if the worktree was edited

store == <<header, manifest, frontier>>
lookup == <<unvisited, visiting, found, counts>>
answer == <<operand, verified, outlook, result>>
env == <<events, touched>>
vars == <<nowVars, store, asked, doing, side, lookup, answer, env, steady>>

Unresolved == [ok |-> FALSE, rec |-> None, tree |-> [p \in Paths |-> NoEntry], reason |-> None]
NoResult == [rel |-> None, reason |-> None, published |-> {}]
NoCounts == [whole |-> 0, bad |-> 0, foreign |-> 0]

Init ==
    /\ NowInit
    /\ \E st \in Stores : header = st.header /\ manifest = st.manifest /\ frontier = st.frontier
    /\ asked \in Asks
    /\ doing = "resolve" /\ side = 1
    /\ unvisited = {} /\ visiting = {} /\ found = {} /\ counts = NoCounts
    /\ operand = [s \in Sides |-> Unresolved]
    /\ verified = [s \in Sides |-> None]
    /\ outlook = None
    /\ result = NoResult
    /\ events = 0
    /\ steady = {} /\ touched = {}

TypeOK ==
    /\ NowTypeOK
    /\ header \in [Records -> Health]
    /\ {manifest, frontier} \subseteq [Records -> Payload]
    /\ doing \in {"resolve", "now", "enumerate", "load", "classify", "merge", "walk",
                 "verify", "conclude", "done"}
    /\ side \in Sides
    /\ unvisited \subseteq Checkpoints /\ visiting \subseteq Checkpoints
    /\ found \subseteq Records
    /\ counts \in [{"whole", "bad", "foreign"} -> Nat]
    /\ operand \in [Sides -> [ok : BOOLEAN, rec : Records \cup {Now, None},
                             tree : [Paths -> Entries], reason : Reasons \cup {None}]]
    /\ verified \in [Sides -> Reasons \cup {None, "whole"}]
    /\ events \in 0..MaxEvents
    /\ steady \subseteq Checkpoints
    /\ touched \subseteq Records \cup {Now}

Ref == asked[side]

-----------------------------------------------------------------------------
(* Resolution of one operand.                                                *)

(* The operand is settled; the left one is followed by the right one, which  *)
(* is resolved whatever became of the left.                                  *)
Settled(op) ==
    /\ operand' = [operand EXCEPT ![side] = op]
    /\ unvisited' = {} /\ visiting' = {} /\ found' = {} /\ counts' = NoCounts
    /\ IF side = 1 THEN doing' = "resolve" /\ side' = 2
                   ELSE doing' = "classify" /\ side' = 1
    /\ steady' = {}
    /\ UNCHANGED <<store, asked, verified, outlook, result, env>>

Failed(reason) == Settled([Unresolved EXCEPT !.reason = reason])

ResolveNow ==
    /\ doing = "resolve" /\ Ref.kind = "now"
    /\ Begin
    /\ doing' = "now"
    /\ UNCHANGED <<store, asked, side, lookup, answer, env, steady>>

ScanNow ==
    /\ doing = "now"
    /\ Scan
    /\ UNCHANGED <<store, asked, doing, side, lookup, answer, env, steady>>

TakeNow ==
    /\ doing = "now"
    /\ Collect
    /\ \/ step = "agreed" /\ Settled([ok |-> TRUE, rec |-> Now, tree |-> NowTree, reason |-> None])
       \/ step = "failed" /\ Failed(failure)

(* latest, @-N and id prefixes enumerate the checkpoints; readdir returns    *)
(* every name there from beginning to end, and may return one that comes or  *)
(* goes meanwhile.                                                           *)
Enumerate ==
    /\ doing = "resolve" /\ Ref.kind \in {"position", "prefix"}
    /\ doing' = "enumerate"
    /\ unvisited' = Checkpoints
    /\ steady' = Checkpoints
    /\ UNCHANGED <<nowVars, store, asked, side, visiting, found, counts, answer, env>>

(* A directory without a header is no checkpoint yet.                        *)
Visit(c) ==
    /\ doing = "enumerate" /\ visiting = {}
    /\ c \in unvisited
    /\ unvisited' = unvisited \ {c}
    /\ visiting' = IF header[c] # "none" /\ Ref.kind = "position" THEN {c} ELSE {}
    /\ found' = IF header[c] # "none" /\ Ref.kind = "prefix" /\ c \in Ref.ids
                  THEN found \cup {c} ELSE found
    /\ UNCHANGED <<nowVars, store, asked, doing, side, counts, answer, env, steady>>

Newer(c, ids) == {d \in ids : Rank[d] > Rank[c]}

(* Mutated: a full window takes nothing more.                                *)
KeepUntilFull(c) == IF Cardinality(found) < Ref.n THEN found \cup {c} ELSE found

(* newestWindow: a new header evicts the oldest of a full window.            *)
Keep(c) == LET all == found \cup {c}
           IN {d \in all : Cardinality(Newer(d, all)) < Ref.n}

ReadHeader(c) ==
    /\ doing = "enumerate"
    /\ c \in visiting
    /\ header[c] # "none"
    /\ visiting' = {}
    /\ counts' = [counts EXCEPT ![header[c]] = @ + 1]
    /\ found' = IF header[c] = "whole" THEN Keep(c) ELSE found
    /\ UNCHANGED <<nowVars, store, asked, doing, side, unvisited, answer, env, steady>>

HeaderGone(c) ==
    /\ doing = "enumerate"
    /\ c \in visiting
    /\ header[c] = "none"
    /\ Failed("not-found")
    /\ UNCHANGED nowVars

Load(r) ==
    /\ doing' = "load"
    /\ found' = {r}
    /\ UNCHANGED <<nowVars, store, asked, side, unvisited, visiting, counts, answer, env, steady>>

(* Positions need an order of all checkpoints, which one unreadable header   *)
(* leaves unknown.                                                           *)
EndPositions ==
    /\ doing = "enumerate" /\ Ref.kind = "position"
    /\ unvisited = {} /\ visiting = {}
    /\ CASE counts.bad > 0 -> Failed("metadata-corrupt") /\ UNCHANGED nowVars
         [] counts.bad = 0 /\ counts.foreign > 0 ->
              Failed("metadata-incompatible") /\ UNCHANGED nowVars
         [] counts.bad = 0 /\ counts.foreign = 0 /\ counts.whole < Ref.n ->
              Failed("not-found") /\ UNCHANGED nowVars
         [] OTHER -> \E c \in found : Cardinality(Newer(c, found)) = Ref.n - 1 /\ Load(c)

EndPrefixes ==
    /\ doing = "enumerate" /\ Ref.kind = "prefix"
    /\ unvisited = {}
    /\ CASE found = {} -> Failed("not-found") /\ UNCHANGED nowVars
         [] Cardinality(found) > 1 -> Failed("ambiguous-reference") /\ UNCHANGED nowVars
         [] OTHER -> \E c \in found : Load(c)

ResolveRun ==
    /\ doing = "resolve" /\ Ref.kind = "run"
    /\ Load(Ref.id)

(* The reason the provider derives from a header that cannot be read: a run  *)
(* entry of another schema has no case of its own.                           *)
HeaderReason(r) ==
    CASE header[r] = "none" -> "not-found"
      [] header[r] = "bad" -> "metadata-corrupt"
      [] header[r] = "foreign" -> IF r \in Runs THEN "io-error" ELSE "metadata-incompatible"

(* Header, OpenManifest and Coverage each read the header, which is all they *)
(* read.  A run that could not scan afterwards has no observation to open.   *)
LoadRecord(r) ==
    /\ doing = "load"
    /\ r \in found
    /\ IF header[r] # "whole" THEN Failed(HeaderReason(r))
       ELSE IF Evidence[r].missing THEN Failed("manifest-unavailable")
       ELSE Settled([ok |-> TRUE, rec |-> r, tree |-> Evidence[r].tree, reason |-> None])
    /\ UNCHANGED nowVars

-----------------------------------------------------------------------------
(* The verdict.                                                              *)

Rec(s) == operand[s].rec
Tree(s) == operand[s].tree
Policy(s) == IF Rec(s) = Now THEN NowPolicy ELSE Evidence[Rec(s)].policy
Known(s) == Rec(s) = Now \/ Evidence[Rec(s)].known
Hidden(s) == IF Rec(s) = Now THEN NowHidden ELSE Evidence[Rec(s)].hidden

(* A scan just taken is at hand; a record of unknown coverage has no         *)
(* frontier to read.                                                         *)
ManifestOf(s) == IF Rec(s) = Now THEN "whole" ELSE manifest[Rec(s)]

(* Mutated: the frontier is looked for beside every record.                  *)
FrontierOfAll(s) == IF Rec(s) = Now THEN "whole" ELSE frontier[Rec(s)]

FrontierOf(s) == IF Rec(s) = Now \/ ~Known(s) THEN "whole" ELSE frontier[Rec(s)]

(* Mutated: an observation of a run is taken for the other one.              *)
SameRun == /\ Rec(1) # Now /\ Rec(2) # Now
           /\ \/ Rec(1) = Rec(2)
              \/ {Rec(1), Rec(2)} \subseteq Runs

SameImmutableRecord == Rec(1) # Now /\ Rec(1) = Rec(2)

CompatibilityVerdict ==
    IF SameImmutableRecord THEN "equal"
    ELSE IF Policy(1) # Policy(2) THEN "incompatible-identity-policy"
    ELSE IF Known(1) /\ Known(2) THEN "merge" ELSE "absence-unproved"

Goto(stage, verdict) ==
    /\ doing' = stage
    /\ side' = 1
    /\ outlook' = verdict
    /\ UNCHANGED <<nowVars, store, asked, lookup, operand, verified, result, env, steady>>

Classify ==
    /\ doing = "classify"
    /\ \A s \in Sides : operand[s].ok
    /\ Goto(IF CompatibilityVerdict = "merge" THEN "merge" ELSE "verify", CompatibilityVerdict)

ClassifyUnresolved ==
    /\ doing = "classify"
    /\ \E s \in Sides : ~operand[s].ok
    /\ Goto("verify", "unavailable")

(* The merge opens the manifest and the frontier of the left side, then of   *)
(* the right.                                                                *)
OpenSide ==
    /\ doing = "merge"
    /\ ManifestOf(side) # "none" /\ FrontierOf(side) # "none"
    /\ IF side = 1 THEN side' = 2 /\ UNCHANGED doing
                   ELSE doing' = "walk" /\ UNCHANGED side
    /\ UNCHANGED <<nowVars, store, asked, lookup, answer, env, steady>>

(* Which operand is to blame comes out when both are verified.               *)
OpenFails ==
    /\ doing = "merge"
    /\ \/ ManifestOf(side) = "none" /\ Goto("verify", "manifest-unavailable")
       \/ /\ ManifestOf(side) # "none" /\ FrontierOf(side) = "none"
          /\ Goto("verify", "metadata-corrupt")

Damaged == \E s \in Sides : "bad" \in {ManifestOf(s), FrontierOf(s)}

Unproved == \E s \in Sides, p \in Paths :
    /\ Tree(s)[p] = NoEntry /\ Tree(3 - s)[p] # NoEntry
    /\ p \in Hidden(s)

(* What is open can be read to its end although its name is gone.            *)
WalkFails ==
    /\ doing = "walk"
    /\ Damaged
    /\ Goto("verify", "metadata-corrupt")

(* The walk ends at the first path that nothing proves absent, with the rest *)
(* unread.                                                                   *)
WalkUnproved ==
    /\ doing = "walk"
    /\ Unproved
    /\ Goto("verify", "absence-unproved")

Publish(rel, reason, sides) ==
    /\ result' = [rel |-> rel, reason |-> reason, published |-> {Rec(s) : s \in sides}]
    /\ doing' = "done"
    /\ UNCHANGED <<nowVars, store, asked, side, lookup, operand, verified, outlook, env, steady>>

WalkCompletes ==
    /\ doing = "walk"
    /\ ~Damaged /\ ~Unproved
    /\ Publish(IF Tree(1) = Tree(2) THEN "equal" ELSE "different", None, Sides)

(* finalize: the reason why an operand did not resolve, or else whether its  *)
(* manifest and frontier can be read to their ends.                          *)
Availability(s) ==
    IF ~operand[s].ok THEN operand[s].reason
    ELSE IF ManifestOf(s) = "none" THEN "manifest-unavailable"
    ELSE IF {ManifestOf(s), FrontierOf(s)} = {"whole"} THEN "whole" ELSE "metadata-corrupt"

VerifyOperand ==
    /\ doing = "verify"
    /\ verified' = [verified EXCEPT ![side] = Availability(side)]
    /\ IF side = 1 THEN side' = 2 /\ UNCHANGED doing
                   ELSE doing' = "conclude" /\ UNCHANGED side
    /\ UNCHANGED <<nowVars, store, asked, lookup, operand, outlook, result, env, steady>>

Missing == {s \in Sides : verified[s] # "whole"}

Conclude ==
    /\ doing = "conclude"
    /\ Missing = {}
    /\ CASE outlook = "equal" -> Publish("equal", None, Sides)
         [] outlook \in {"incompatible-identity-policy", "absence-unproved"} ->
              Publish("incomparable", outlook, Sides)
         [] OTHER -> Publish("unavailable", outlook, Sides)

(* Mutated: what resolved is published, whether or not it can be read.       *)
ConcludeResolved ==
    /\ doing = "conclude"
    /\ Missing # {}
    /\ Publish("unavailable", verified[CHOOSE s \in Missing : \A t \in Missing : s <= t],
               {s \in Sides : operand[s].ok})

(* The left operand's reason goes first.                                     *)
ConcludeUnavailable ==
    /\ doing = "conclude"
    /\ Missing # {}
    /\ Publish("unavailable", verified[CHOOSE s \in Missing : \A t \in Missing : s <= t],
               Sides \ Missing)

-----------------------------------------------------------------------------
(* What goes on meanwhile.                                                   *)

(* The records a reference may lead to, which are those that are read.       *)
Concerned(ref) == CASE ref.kind = "position" -> Checkpoints
                    [] ref.kind = "prefix" -> ref.ids
                    [] ref.kind = "run" -> {ref.id}
                    [] ref.kind = "now" -> {Now}

Happens(r) ==
    /\ doing # "done"
    /\ \E s \in Sides : r \in Concerned(asked[s])
    /\ events < MaxEvents
    /\ events' = events + 1
    /\ touched' = touched \cup {r}
    /\ steady' = steady \ {r}
    /\ UNCHANGED <<asked, doing, side, lookup, answer>>

(* Only an observation under way or to come can tell.                        *)
EditFile(f, n) ==
    /\ \E s \in Sides : s >= side /\ asked[s].kind = "now"
    /\ doing \in {"resolve", "now", "enumerate", "load"}
    /\ Happens(Now)
    /\ Edit(f, n)
    /\ UNCHANGED store

PublishCheckpoint(c) ==
    /\ Happens(c)
    /\ header[c] = "none" /\ manifest[c] = "whole" /\ frontier[c] = "whole"
    /\ header' = [header EXCEPT ![c] = "whole"]
    /\ UNCHANGED <<nowVars, manifest, frontier>>

(* gc removes the files of a record in any order; what is damaged it keeps.  *)
RemoveFile(r) ==
    /\ Happens(r)
    /\ \/ /\ header[r] = "whole" /\ header' = [header EXCEPT ![r] = "none"]
          /\ UNCHANGED <<manifest, frontier>>
       \/ /\ manifest[r] = "whole" /\ manifest' = [manifest EXCEPT ![r] = "none"]
          /\ UNCHANGED <<header, frontier>>
       \/ /\ frontier[r] = "whole" /\ frontier' = [frontier EXCEPT ![r] = "none"]
          /\ UNCHANGED <<header, manifest>>
    /\ UNCHANGED nowVars

DamageFile(r) ==
    /\ Happens(r)
    /\ \/ /\ header[r] = "whole" /\ header' = [header EXCEPT ![r] = "bad"]
          /\ UNCHANGED <<manifest, frontier>>
       \/ /\ manifest[r] = "whole" /\ manifest' = [manifest EXCEPT ![r] = "bad"]
          /\ UNCHANGED <<header, frontier>>
       \/ /\ frontier[r] = "whole" /\ frontier' = [frontier EXCEPT ![r] = "bad"]
          /\ UNCHANGED <<header, manifest>>
    /\ UNCHANGED nowVars

-----------------------------------------------------------------------------
Next ==
    \/ ResolveNow \/ ScanNow \/ TakeNow
    \/ Enumerate \/ EndPositions \/ EndPrefixes
    \/ \E c \in unvisited : Visit(c)
    \/ \E c \in visiting : ReadHeader(c) \/ HeaderGone(c)
    \/ ResolveRun \/ \E r \in found : LoadRecord(r)
    \/ Classify \/ ClassifyUnresolved
    \/ OpenSide \/ OpenFails \/ WalkFails \/ WalkUnproved \/ WalkCompletes
    \/ VerifyOperand \/ Conclude \/ ConcludeUnavailable
    \/ \E f \in Files, n \in Nodes : EditFile(f, n)
    \/ \E c \in Checkpoints : PublishCheckpoint(c)
    \/ \E r \in Records : RemoveFile(r) \/ DamageFile(r)

Spec == Init /\ [][Next]_vars

-----------------------------------------------------------------------------
Readable(r) == manifest[r] = "whole" /\ (Evidence[r].known => frontier[r] = "whole")

(* An identity is published only if its manifest could be read to the end,   *)
(* on each of the ways a comparison may come out (Compare: "a published      *)
(* operand identity is always manifest-verified").                           *)
PublishedIsReadable ==
    \A r \in result.published \cap Records : Readable(r) \/ r \in touched

(* Equal and different are said of two states under one policy of which every *)
(* path that one lacks is proved absent there, and are true of them; the     *)
(* only exception is a record compared with itself.                          *)
VerdictIsEarned ==
    result.rel \in {"equal", "different"} =>
        /\ result.published = {Rec(1), Rec(2)}
        /\ result.rel = "equal" <=> Tree(1) = Tree(2)
        /\ \/ Rec(1) = Rec(2) /\ Rec(1) \in Records
           \/ Policy(1) = Policy(2) /\ Known(1) /\ Known(2) /\ ~Unproved

(* latest and @-N name the checkpoint at that place of the order, although   *)
(* checkpoints are published and removed while headers are read, and name    *)
(* nothing while one header cannot be read (readableHealth).                 *)
PositionIsExact ==
    doing = "load" /\ Ref.kind = "position" =>
        \A r \in found :
            /\ \A c \in steady : header[c] \in {"none", "whole"}
            /\ Cardinality({c \in Newer(r, steady) : header[c] = "whole"}) < Ref.n
            /\ Cardinality({c \in Newer(r, Checkpoints) :
                               header[c] = "whole" \/ c \notin steady}) >= Ref.n - 1

Intact(r) == header[r] = "whole" /\ Readable(r) /\ ~Evidence[r].missing /\ r \notin touched

Sound(ref) ==
    CASE ref.kind = "now" -> Now \notin touched
      [] ref.kind = "run" -> Intact(ref.id)
      [] ref.kind = "prefix" -> \E c \in ref.ids : Intact(c) /\ \A d \in ref.ids \ {c} :
                                   header[d] = "none" /\ d \notin touched
      [] ref.kind = "position" -> /\ \A c \in Checkpoints : c \notin touched
                                  /\ \A c \in Checkpoints : header[c] # "none" => Intact(c)
                                  /\ Cardinality({c \in Checkpoints : header[c] # "none"}) >= ref.n

(* Operands that nothing is wrong with and nobody touches are answered for,  *)
(* whatever is damaged, removed or edited elsewhere.                         *)
SoundOperandsAreAnswered ==
    (doing = "done" /\ \A s \in Sides : Sound(asked[s])) => result.rel # "unavailable"

(* An operand names the state it should, and sound ones are answered for. *)
OperandsAreResolved == PositionIsExact /\ SoundOperandsAreAnswered
=============================================================================
