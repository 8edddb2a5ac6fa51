---------------------------- MODULE ProbeGrants ----------------------------
(***************************************************************************)
(* The operator's consent to run a project's identity probes: one record   *)
(* per canonical project root, kept in the operator's own configuration    *)
(* directory, replaced by `awa config probes allow`, removed by `revoke`,  *)
(* and read at the start of every phase in which a run executes probes.    *)
(* Meanwhile checkouts change what they declare, projects move, and the    *)
(* record may be damaged.                                                  *)
(***************************************************************************)
EXTENDS Integers, Sequences, FiniteSets, SequencesExt

CONSTANTS
    ProjectRoots,   \* canonical project directories
    ProjectPaths,   \* the paths commands are given
    Declarations,   \* the sets of policies a checkout may declare
    Damages,        \* what a damaged record may be
    MaxMoves        \* BOUND: checkouts, moves and damages of one behaviour

ASSUME GrantAssumption ==
    /\ "nowhere" \notin ProjectRoots /\ MaxMoves \in Nat
    /\ \A policies \in Declarations : \A p \in policies : IsFiniteSet(p.probes)

VARIABLES
    leads,          \* path |-> the root it resolves to, or Nowhere
    declared,       \* root |-> the policies its checkout declares
    userDir,        \* the operator's configuration directory: [exists, place]
    record,         \* root |-> what lies where its grant is kept
    approved,       \* root |-> the policies the operator last approved there
    operator,       \* the operator's command
    probing,        \* a run of a command whose policy declares probes
    moves

grantVars == <<leads, declared, userDir, record, approved, operator, probing, moves>>

Nowhere == "nowhere"
NoRecordFile == [kind |-> "none"]
Recorded(root, contexts) == [kind |-> "grant", root |-> root, contexts |-> contexts]
Argvs(policy) == {p.argv : p \in policy.probes}
WithProbes(policies) == {p \in policies : p.probes # {}}

(* Mutated: the directory the command runs in is left out of the context.   *)
ProbeGrantContextAnywhere(policy) == <<policy.argv, Argvs(policy)>>
(* What a grant approves.  Labels stay out: renaming keeps the approval.    *)
ProbeGrantContext(policy) == <<policy.argv, policy.cwd, Argvs(policy)>>

(***************************************************************************)
(* The store.                                                              *)
(***************************************************************************)
Grant(state, contexts) == [state |-> state, contexts |-> contexts]
Unavailable == Grant("unavailable", {})
LoadGrant(path) ==
    LET root == leads[path]
        found == record[root]
    IN IF root = Nowhere \/ userDir.place = "opaque" THEN Unavailable
       ELSE IF ~userDir.exists THEN Grant("absent", {})
       ELSE IF userDir.place = root THEN Unavailable     \* the checkout could supply it
       ELSE CASE found.kind = "none" -> Grant("absent", {})
              [] found.kind = "grant" -> IF found.root = root THEN Grant("recorded", found.contexts) ELSE Unavailable
              [] OTHER -> Unavailable
Granted(path, policy) == ProbeGrantContext(policy) \in LoadGrant(path).contexts
Writable(path) == leads[path] # Nowhere /\ userDir.place \notin {"opaque", leads[path]}

(***************************************************************************)
(* The operator.                                                           *)
(***************************************************************************)
AtRest == [doing |-> "nothing"]
Told(path, reply, policies) == [doing |-> "told", path |-> path, answer |-> reply, policies |-> policies, since |-> moves]
LoadForAllow(path) ==
    /\ operator.doing # "allow" /\ leads[path] # Nowhere
    /\ LET policies == WithProbes(declared[leads[path]]) IN
       operator' = IF policies = {} THEN Told(path, "unasked", {})
                   ELSE [doing |-> "allow", path |-> path, policies |-> policies]
    /\ UNCHANGED <<leads, declared, userDir, record, approved, probing, moves>>

(* Each context replaces the record in one rename; what fails before it     *)
(* leaves the record there was, what fails after it the new one.            *)
Allow ==
    /\ operator.doing = "allow"
    /\ LET path == operator.path
           root == leads[path]
           created == IF root # Nowhere /\ userDir.place # "opaque" THEN [userDir EXCEPT !.exists = TRUE] ELSE userDir
       IN /\ \/ /\ userDir' \in {userDir, created} /\ UNCHANGED <<record, approved>>
                /\ operator' = Told(path, "failed", {})
             \/ /\ Writable(path) /\ userDir' = created
                /\ record' = [record EXCEPT ![root] = Recorded(root, {ProbeGrantContext(p) : p \in operator.policies})]
                /\ approved' = [approved EXCEPT ![root] = operator.policies]
                /\ \E reply \in {"approved", "unconfirmed"} : operator' = Told(path, reply, operator.policies)
    /\ UNCHANGED <<leads, declared, probing, moves>>
Revoke(path) ==
    /\ operator.doing # "allow" /\ leads[path] # Nowhere
    /\ LET root == leads[path] IN
       \/ /\ operator' = Told(path, "failed", {}) /\ UNCHANGED <<record, approved>>
       \/ /\ Writable(path) /\ (~userDir.exists \/ record[root] = NoRecordFile)
          /\ operator' = Told(path, "unapproved", {}) /\ UNCHANGED <<record, approved>>
       \/ /\ Writable(path) /\ userDir.exists /\ record[root].kind \notin {"none", "directory"}
          /\ record' = [record EXCEPT ![root] = NoRecordFile]
          /\ approved' = [approved EXCEPT ![root] = {}]
          /\ \E reply \in {"revoked", "unconfirmed"} : operator' = Told(path, reply, {})
    /\ UNCHANGED <<leads, declared, userDir, probing, moves>>
OperatorDies == /\ operator.doing = "allow" /\ operator' = AtRest
                /\ UNCHANGED <<leads, declared, userDir, record, approved, probing, moves>>

(***************************************************************************)
(* A run: probes before the command and, when a result could be kept,      *)
(* again after it.  The policy is the one its configuration had.           *)
(***************************************************************************)
NoRun == [phase |-> "none"]
Phase(path, policy, phase) ==
    [phase |-> phase, checked |-> FALSE, path |-> path, policy |-> policy, left |-> SetToSeq(Argvs(policy)),
     facts |-> <<>>, ran |-> {}, consent |-> {}]
BeginRun(path) ==
    /\ probing.phase = "none" /\ leads[path] # Nowhere
    /\ \E p \in WithProbes(declared[leads[path]]) : probing' = Phase(path, p, "before")
    /\ UNCHANGED <<leads, declared, userDir, record, approved, operator, moves>>
Facts(status) == [i \in DOMAIN probing.left |-> status]
Starting == probing.phase \in {"before", "after"} /\ ~probing.checked
(* Mutated: a phase after the command relies on the check made before it.   *)
authorizeProbesOnce ==
    /\ Starting
    /\ probing' = IF probing.phase = "before" /\ ~Granted(probing.path, probing.policy)
                    THEN [probing EXCEPT !.phase = "denied", !.facts = Facts("denied")]
                    ELSE [probing EXCEPT !.checked = TRUE, !.consent = approved[leads[probing.path]]]
    /\ UNCHANGED <<leads, declared, userDir, record, approved, operator, moves>>
authorizeProbes ==
    /\ Starting
    /\ probing' = IF ~Granted(probing.path, probing.policy)
                    THEN [probing EXCEPT !.phase = "denied", !.facts = Facts("denied")]
                    ELSE [probing EXCEPT !.checked = TRUE, !.consent = approved[leads[probing.path]]]
    /\ UNCHANGED <<leads, declared, userDir, record, approved, operator, moves>>
Running == probing.phase \in {"before", "after"} /\ probing.checked
AcquireFact ==
    /\ Running /\ probing.left # <<>>
    /\ \E status \in {"acquired", "unavailable"} :
        probing' = [probing EXCEPT !.ran = @ \cup {Head(probing.left)},
                      !.facts = IF status = "acquired" THEN Append(@, status)
                                ELSE Append(@, status) \o [i \in 1..(Len(probing.left) - 1) |-> "skipped"],
                      !.left = IF status = "acquired" THEN Tail(@) ELSE <<>>]
    /\ UNCHANGED <<leads, declared, userDir, record, approved, operator, moves>>
FactsComplete == ToSet(probing.facts) = {"acquired"}
RunCommand ==
    /\ Running /\ probing.phase = "before" /\ probing.left = <<>>
    /\ \/ FactsComplete /\ probing' = Phase(probing.path, probing.policy, "after")
       \/ probing' = NoRun
    /\ UNCHANGED <<leads, declared, userDir, record, approved, operator, moves>>
EndRun ==
    /\ probing.phase # "none" /\ probing' = NoRun    \* it ended, was interrupted, or died
    /\ UNCHANGED <<leads, declared, userDir, record, approved, operator, moves>>

(***************************************************************************)
(* What happens around them.                                               *)
(***************************************************************************)
Move == moves < MaxMoves /\ moves' = moves + 1 /\ UNCHANGED <<userDir, approved, operator, probing>>
(* A checkout writes below its own root only, a forged record included.     *)
Checkout(root) ==
    /\ Move /\ \E policies \in Declarations : declared' = [declared EXCEPT ![root] = policies]
    /\ record' = IF userDir.place # root THEN record
                 ELSE [record EXCEPT ![root] = Recorded(root, {ProbeGrantContext(p) : p \in UNION Declarations})]
    /\ UNCHANGED leads
Relink(path) == /\ Move /\ \E to \in ProjectRoots \cup {Nowhere} : leads' = [leads EXCEPT ![path] = to]
                /\ UNCHANGED <<declared, record>>
(* It may be lost, unreadable, or the record of another root put there.    *)
DamageRecord(root) ==
    /\ Move /\ userDir.exists
    /\ \E found \in Damages \cup {record[r] : r \in ProjectRoots} :
        /\ found.kind = "grant" => found.root # root
        /\ record' = [record EXCEPT ![root] = found]
    /\ UNCHANGED <<leads, declared>>

GrantInit ==
    /\ leads \in [ProjectPaths -> ProjectRoots] /\ declared \in [ProjectRoots -> Declarations]
    /\ userDir \in [exists : BOOLEAN, place : ProjectRoots \cup {"outside"}] \cup {[exists |-> TRUE, place |-> "opaque"]}
    /\ record = [r \in ProjectRoots \cup {Nowhere} |-> NoRecordFile]
    /\ approved = [r \in ProjectRoots \cup {Nowhere} |-> {}]
    /\ operator = AtRest /\ probing = NoRun /\ moves = 0
GrantNext ==
    \/ \E path \in ProjectPaths : LoadForAllow(path) \/ Revoke(path) \/ BeginRun(path) \/ Relink(path)
    \/ \E root \in ProjectRoots : Checkout(root) \/ DamageRecord(root)
    \/ Allow \/ OperatorDies \/ authorizeProbes \/ AcquireFact \/ RunCommand \/ EndRun
GrantSpec == GrantInit /\ [][GrantNext]_grantVars

(***************************************************************************)
(* A probe runs only where the operator approved that very command: the    *)
(* same argv, directory and probes, at the same canonical root, not        *)
(* revoked before the phase began.  What a run says of a probe is what     *)
(* happened to it, and the answers to allow and revoke hold when they are  *)
(* given.                                                                  *)
(***************************************************************************)
SameCommands(p, q) == p.argv = q.argv /\ p.cwd = q.cwd /\ Argvs(p) = Argvs(q)
ProbesAreConsented ==
    /\ \A path \in ProjectPaths, p \in UNION Declarations :
        p.probes # {} /\ Granted(path, p) => \E q \in approved[leads[path]] : SameCommands(p, q)
    /\ Running => \E q \in probing.consent : SameCommands(probing.policy, q)
    /\ probing.phase = "denied" => probing.ran = {}
    /\ Running => Cardinality({i \in DOMAIN probing.facts : probing.facts[i] # "skipped"}) = Cardinality(probing.ran)
    /\ operator.doing = "told" /\ operator.since = moves =>
        /\ operator.answer = "approved" => \A p \in operator.policies : Granted(operator.path, p)
        /\ operator.answer \in {"revoked", "unapproved"} => \A p \in UNION Declarations : ~Granted(operator.path, p)

(***************************************************************************)
(* The inductive invariant behind it (ProjectProofs).                       *)
(***************************************************************************)
Roots == ProjectRoots \cup {Nowhere}
Policies == UNION Declarations
GrantsFit ==
    /\ moves \in Nat /\ record = [r \in Roots |-> record[r]]
    /\ leads \in [ProjectPaths -> Roots] /\ declared \in [ProjectRoots -> Declarations]
    /\ approved \in [Roots -> SUBSET Policies]
    /\ userDir \in [exists : BOOLEAN, place : ProjectRoots \cup {"outside", "opaque"}]
(* A record that counts says what the operator last approved there.         *)
RecordsAreApproved ==
    \A r \in ProjectRoots :
        userDir.place # r /\ record[r].kind = "grant" /\ record[r].root = r =>
            record[r].contexts = {ProbeGrantContext(p) : p \in approved[r]}
(* What the operator was told has not changed since, nor has the question.  *)
Counting == [path \in ProjectPaths |-> LoadGrant(path).contexts]
OperatorKnows ==
    /\ operator.doing \in {"nothing", "allow", "told"}
    /\ operator.doing = "allow" => operator.path \in ProjectPaths /\ operator.policies \subseteq Policies
    /\ operator.doing = "told" =>
        operator.path \in ProjectPaths /\ operator.since \in Nat /\ operator.since <= moves
    /\ operator.doing = "told" /\ operator.since = moves =>
        /\ operator.answer = "approved" => \A p \in operator.policies : ProbeGrantContext(p) \in Counting[operator.path]
        /\ operator.answer \in {"revoked", "unapproved"} => Counting[operator.path] = {}
(* Of the probes of a phase each runs once, in order, until one fails.      *)
Counted(facts) == {i \in DOMAIN facts : facts[i] # "skipped"}
ProbesInOrder ==
    /\ probing.phase \in {"none", "before", "after", "denied"}
    /\ probing.phase # "none" =>
        /\ probing = [phase |-> probing.phase, checked |-> probing.checked, path |-> probing.path,
                      policy |-> probing.policy, left |-> probing.left, facts |-> probing.facts,
                      ran |-> probing.ran, consent |-> probing.consent]
        /\ probing.path \in ProjectPaths /\ probing.policy \in Policies /\ probing.checked \in BOOLEAN
        /\ probing.left \in Seq(Argvs(probing.policy)) /\ IsInjective(probing.left)
    /\ probing.phase = "denied" \/ Starting => probing.ran = {}
    /\ Starting => probing.facts = <<>>
    /\ Running =>
        /\ \E q \in probing.consent : SameCommands(probing.policy, q)
        /\ probing.facts \in Seq({"acquired", "unavailable", "skipped"})
        /\ probing.ran \subseteq Argvs(probing.policy)
        /\ Cardinality(Counted(probing.facts)) = Cardinality(probing.ran)
        /\ probing.left # <<>> =>
            /\ \A i \in DOMAIN probing.facts : probing.facts[i] # "skipped"
            /\ \A i \in DOMAIN probing.left : probing.left[i] \notin probing.ran
GrantInv == GrantsFit /\ RecordsAreApproved /\ OperatorKnows /\ ProbesInOrder
=============================================================================
