----------------------------- MODULE MCRunStore -----------------------------
(* Instances of RunStore for model checking.                                 *)
EXTENDS RunStore, Integers, TLC

RunSymmetry == Permutations(Runs)

(* Bound of the run: two runs beside "run rm" and failures, all of them      *)
(* while the store is quiet.                                                 *)
FewAtOnce == quiet \/ Cardinality({r \in Runs : pc[r] # "new"}) <= 2
=============================================================================
