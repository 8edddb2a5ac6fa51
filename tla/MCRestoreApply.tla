--------------------------- MODULE MCRestoreApply ---------------------------
(* Two parts, in one run: restores of a directory with a subdirectory, a     *)
(* file in each, and a hidden entry; and the record streams they and others  *)
(* read from, of a directory, one below it and a file there.  The parts do   *)
(* not touch: a behaviour is of one of them, the other's state stands still. *)
EXTENDS RestoreApply, RecordStreams

VARIABLE part

MCPaths == {<<"d">>, <<"d", "s">>, <<"d", "s", "x">>, <<"d", "e">>}
MCHidden == {<<"d", "e">>}
MCSameRules == {MCHidden}
MCWiderRules == {MCHidden, MCHidden \cup {<<"d", "s">>, <<"d", "s", "x">>}}
MCSelections == {{<<"d">>}, {<<"d", "s", "x">>}}
MCInside == [p \in StreamPaths |-> {q \in StreamPaths : q > p}]

allVars == <<part, vars, streamVars>>
Bare == [p \in Paths |-> "absent"]
MCInit ==
    /\ Init /\ StreamInit
    /\ \/ part = "restore" /\ kind = "spool"
       \/ part = "streams" /\ tree = Bare /\ saved = [tree |-> Bare, hidden |-> MCHidden]
MCNext ==
    /\ UNCHANGED part
    /\ \/ part = "restore" /\ Next /\ UNCHANGED streamVars
       \/ part = "streams" /\ StreamNext /\ UNCHANGED vars
MCSpec == MCInit /\ [][MCNext]_allVars
=============================================================================
