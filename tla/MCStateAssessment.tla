------------------------- MODULE MCStateAssessment -------------------------
(* StateAssessment with three checkpoints, both observations of one run and  *)
(* a worktree of two files.                                                  *)
EXTENDS StateAssessment, TLC

CONSTANTS f1, f2, a, b, x

MCFiles == {f1, f2}
MCContents == {a, b, x}
MCUnreadable == {x}
MCCheckpoints == {"c1", "c2", "c3"}
Before == "before"
After == "after"
MCRuns == {Before, After}

Folder(n1, n2) == f1 :> n1 @@ f2 :> n2
Holding(n1, n2) == [f \in MCFiles |-> EntryOf(Folder(n1, n2)[f])]

MCWorktrees == {Folder(a, Absent), Folder(a, b), Folder(x, b)}

Proof(tree, policy, known, hidden) ==
    [tree |-> tree, policy |-> policy, known |-> known, hidden |-> hidden, missing |-> FALSE]

(* c1 left f2 out, c2 saw nothing there, c3 is of another policy; the run    *)
(* put f2 there and its first observation has no frontier.                   *)
MCEvidence ==
    "c1" :> Proof(Holding(a, Absent), "p", TRUE, {f2}) @@
    "c2" :> Proof(Holding(a, Absent), "p", TRUE, {}) @@
    "c3" :> Proof(Holding(a, b), "q", TRUE, {}) @@
    Before :> Proof(Holding(a, Absent), "p", FALSE, {}) @@
    After :> Proof(Holding(a, b), "p", TRUE, {})

MCRank == "c1" :> 1 @@ "c2" :> 2 @@ "c3" :> 3

AskNow == [kind |-> "now"]
At(n) == [kind |-> "position", n |-> n]
Prefix(ids) == [kind |-> "prefix", ids |-> ids]
OfRun(r) == [kind |-> "run", id |-> r]

MCAsks == { <<AskNow, AskNow>>, <<Prefix({"c2"}), AskNow>>, <<At(2), Prefix({"c2"})>>,
            <<OfRun(After), At(1)>>, <<Prefix({"c1", "c2"}), OfRun(After)>>,
            <<Prefix({"c1"}), Prefix({"c2"})>>, <<Prefix({"c2"}), Prefix({"c2"})>>,
            <<Prefix({"c1"}), OfRun(After)>>, <<OfRun(Before), OfRun(After)>> }

All(h) == [r \in Records |-> h]
Except(r, h) == [All("whole") EXCEPT ![r] = h]
Whole == [header |-> All("whole"), manifest |-> All("whole"),
          frontier |-> Except(Before, "none")]

(* Before, of unknown coverage, has no frontier.  A record at most is not in *)
(* order when the question is asked: c3 is not published yet, or a header,   *)
(* manifest or frontier is damaged or of another version.                    *)
MCStores ==
    {Whole} \cup
    {[Whole EXCEPT !.header = Except(r, h)] :
        r \in {"c1", "c3", After}, h \in {"none", "bad", "foreign"}} \cup
    {[Whole EXCEPT !.manifest = Except(r, h)] : r \in {"c2", After}, h \in {"none", "bad"}} \cup
    {[Whole EXCEPT !.frontier["c2"] = h] : h \in {"none", "bad"}}
=============================================================================
