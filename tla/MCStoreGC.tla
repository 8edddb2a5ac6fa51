------------------------------ MODULE MCStoreGC ------------------------------
(* StoreGC on small sets.  Records of one kind are alike until they exist    *)
(* (their order is the variable born), and so are contents.                  *)
EXTENDS StoreGC, TLC

CONSTANT Second  \* the content that is stored beside one checkpoint only

Symmetry == Permutations(Checkpoints) \cup Permutations(Restores)

Begun == {x \in Records : pc[x] # "new"}
Stored == blobs \cup UNION {refs[x] : x \in Records}

(* Bound of the run: many checkpoints of one content without a crash, or one *)
(* checkpoint and one restore of all contents with crashes.                  *)
FewAtOnce ==
    Cardinality(Begun \cap Checkpoints) <= 1 \/
        (/\ Begun \cap Restores = {}
         /\ Second \notin Stored
         /\ \A x \in Records : pc[x] # "dead")
=============================================================================
