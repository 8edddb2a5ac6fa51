---------------------------- MODULE MCRunHistory -----------------------------
(* Two directories, one of which a policy may waive, two contents, and two    *)
(* probes.  Ordinary runs and harmless commands are free; every option, every *)
(* effect of a command and every change between two runs is one departure.    *)
EXTENDS RunViews, TLC

CONSTANTS src, out, c1, c2, f1, f2, here

MCPlaces == {src, out}
MCContents == {c1, c2}
MCPrints == {f1, f2}

Policy(label, probes) ==
    [command |-> "test", label |-> label, dirs |-> {out}, probes |-> probes]
MCPolicies == {None, Policy("a", <<1, 2>>), Policy("b", <<1, 2>>), Policy("a", << >>)}

Base == [capture |-> TRUE, trust |-> "normal", cacheFailed |-> TRUE, ttl |-> 0,
         policy |-> None, scope |-> {here}, version |-> "this"]
MCConfigs == {Base, [Base EXCEPT !.ttl = 1, !.cacheFailed = FALSE],
              [Base EXCEPT !.policy = Policy("a", <<1, 2>>)]}

MCOrdinary == [command |-> "test", stdin |-> "null", record |-> FALSE, noCache |-> FALSE,
               refresh |-> FALSE, noFailures |-> FALSE, allowSkipped |-> FALSE, scope |-> None]
MCRequests == {MCOrdinary,
    [MCOrdinary EXCEPT !.command = "build"], [MCOrdinary EXCEPT !.stdin = "pipe"],
    [MCOrdinary EXCEPT !.record = TRUE], [MCOrdinary EXCEPT !.noCache = TRUE],
    [MCOrdinary EXCEPT !.refresh = TRUE], [MCOrdinary EXCEPT !.noFailures = TRUE],
    [MCOrdinary EXCEPT !.allowSkipped = TRUE], [MCOrdinary EXCEPT !.scope = {src}],
    [MCOrdinary EXCEPT !.scope = {out}],
    [MCOrdinary EXCEPT !.refresh = TRUE, !.noFailures = TRUE]}

MCHarmless == [failed |-> FALSE, tree |-> << >>, effect |-> None, report |-> None,
               scanFails |-> FALSE, elapsed |-> 1]
MCEndings == {MCHarmless,
    [MCHarmless EXCEPT !.failed = TRUE], [MCHarmless EXCEPT !.tree = src :> c2],
    [MCHarmless EXCEPT !.tree = out :> c2], [MCHarmless EXCEPT !.effect = c2],
    [MCHarmless EXCEPT !.effect = Unavailable], [MCHarmless EXCEPT !.report = f2],
    [MCHarmless EXCEPT !.report = ProbeFailed], [MCHarmless EXCEPT !.scanFails = TRUE],
    [MCHarmless EXCEPT !.elapsed = -1],
    [MCHarmless EXCEPT !.failed = TRUE, !.scanFails = TRUE],
    [MCHarmless EXCEPT !.failed = TRUE, !.report = f2]}
=============================================================================
