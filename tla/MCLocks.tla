------------------------------- MODULE MCLocks -------------------------------
(* The lock directory in both builds: the build tag of exclusive_unix.go and *)
(* exclusive_other.go decides whether gc.lock is a flock or a published      *)
(* file, and Init decides the same, so that one run checks both protocols.   *)
EXTENDS LockProtocol, LockFallback, TLC

VARIABLES build   \* "flock" or "plain"; the variables of the other one rest

MCInit == build \in {"flock", "plain"} /\ Init /\ PlainInit
          /\ (build = "flock" => lock = None)

MCNext ==
    \/ build = "flock" /\ Next /\ UNCHANGED <<plainVars, build>>
    \/ build = "plain" /\ PlainNext /\ UNCHANGED <<vars, build>>

MCSpec == MCInit /\ [][MCNext]_<<vars, plainVars, build>>

(* The two gc of the build without flock are alike. *)
Symmetry == Permutations(PlainCollectors)
=============================================================================
