--------------------------- MODULE MCProbeGrants ---------------------------
(* Two checkouts, one path that is moved between them, and three sets of     *)
(* policies: two directories; a renamed probe and one probe more; none.     *)
EXTENDS ProbeGrants
Probe(label, argv) == [label |-> label, argv |-> argv]
PolicyOf(cwd, probes) == [argv |-> "t", cwd |-> cwd, probes |-> probes]
MCDeclarations ==
    LET here == PolicyOf(".", {Probe("a", 1)})  sub == PolicyOf("sub", {Probe("a", 1)})
        renamed == PolicyOf(".", {Probe("b", 1)})  more == PolicyOf("sub", {Probe("a", 1), Probe("b", 2)})
    IN {{here, sub}, {renamed, more}, {PolicyOf(".", {})}}
MCDamages == {[kind |-> "directory"], [kind |-> "undecodable"], [kind |-> "none"]}
(* It makes no difference which of the two projects is the one entered, and *)
(* an empty directory outside both none: the first approval makes it.  A    *)
(* checkout that declares no probes at first only spends a move.            *)
Entered == /\ leads["here"] = "p" /\ declared["p"] # {PolicyOf(".", {})} /\ userDir.exists = (userDir.place # "outside")
           /\ declared["q"] = {PolicyOf(".", {Probe("a", 1)}), PolicyOf("sub", {Probe("a", 1)})}
OneGrant == /\ leads = [path \in ProjectPaths |-> "p"]
            /\ declared = [r \in ProjectRoots |-> {PolicyOf(".", {Probe("a", 1)}), PolicyOf("sub", {Probe("a", 1)})}]
            /\ userDir = [exists |-> FALSE, place |-> "outside"]
============================================================================
