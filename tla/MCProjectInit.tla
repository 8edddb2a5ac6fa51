--------------------------- MODULE MCProjectInit ---------------------------
(* Three processes in one directory and the enclosing one. *)
EXTENDS ProjectInit
Ended == \A p \in Starters : IsAt(p, "ended")
(* At most two of three initialise; the other two are any two that differ,  *)
(* and which of them is which makes no difference, nor does it which of two *)
(* that initialise is the stricter or the forced one.                       *)
Severity(p) == (IF task[p].profile = "strict" THEN 2 ELSE 0) + (IF task[p].force THEN 1 ELSE 0)
Two == /\ task["p1"].does = "init"
       /\ task["p2"].does = "init" => Severity("p1") <= Severity("p2")
       /\ <<task["p2"].does, task["p3"].does>> \in
            {<<"write", "read">>, <<"write", "configure">>, <<"configure", "read">>}
            \cup (IF node["above"] = "dir" THEN {"init"} \X {"write", "read", "configure"} ELSE {})
OneStart == /\ node = [d \in {Here, Above} |-> "absent"]
            /\ layoutDirs = {} /\ guard = "missing" /\ past = {}
            /\ task = [p \in Starters |-> CHOOSE t \in Tasks : t.does = "read" /\ t.profile = "default" /\ ~t.force]
============================================================================
