---------------------------- MODULE StoreAccess ----------------------------
(* What the lock directory .awa/locks promises to the rest of awa, without  *)
(* a word about files, flock or scans: writers (checkpoint, run, run rm,    *)
(* restore) share the store, a destructive pass (gc's plan and sweep,       *)
(* doctor --repair) has it alone, and at most one restore is applied.       *)
(* LockProtocol implements this specification.                              *)
EXTENDS FiniteSets

CONSTANTS Writers,     \* processes that write to the store
          Restorers,   \* those of them that run "awa restore --apply"
          Keepers,     \* processes that destroy state: gc and doctor --repair
          Nobody       \* no process

VARIABLES sharing,     \* writers that are inside the store
          owner        \* the keeper that has the store alone, or Nobody

vars == <<sharing, owner>>

TypeOK == sharing \subseteq Writers /\ owner \in Keepers \cup {Nobody}

Init == sharing = {} /\ owner = Nobody

(* A writer's Acquire returned a lease. *)
Enter(w) ==
    /\ owner = Nobody
    /\ w \notin sharing
    /\ w \in Restorers => sharing \cap Restorers = {}
    /\ sharing' = sharing \cup {w}
    /\ UNCHANGED owner

(* The writer released its lease, or died. *)
Leave(w) ==
    /\ w \in sharing
    /\ sharing' = sharing \ {w}
    /\ UNCHANGED owner

(* A keeper has established that nobody is inside. *)
Begin(k) ==
    /\ owner = Nobody
    /\ sharing = {}
    /\ owner' = k
    /\ UNCHANGED sharing

(* The keeper released the store, or died. *)
End(k) ==
    /\ owner = k
    /\ owner' = Nobody
    /\ UNCHANGED sharing

Next == \/ \E w \in Writers : Enter(w) \/ Leave(w)
        \/ \E k \in Keepers : Begin(k) \/ End(k)

Spec == Init /\ [][Next]_vars
=============================================================================
