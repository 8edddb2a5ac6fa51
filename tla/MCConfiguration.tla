------------------------- MODULE MCConfiguration -------------------------
(* Small files for the configuration: each says one or two things, right or *)
(* wrong in one of the ways the loader tells apart.                         *)
EXTENDS Configuration

MCScale == ("B" :> 1) @@ ("KiB" :> 4) @@ ("MiB" :> 16) @@ ("GiB" :> 64) @@ ("TiB" :> 256)
           @@ ("s" :> 2) @@ ("m" :> 4) @@ ("h" :> 8) @@ ("d" :> 16)
Policy(name, argv, dirs) ==
    [name |-> name, argv |-> argv, cwd |-> Dir(<<".">>), dirs |-> dirs,
     probes |-> <<[name |-> "p", argv |-> <<"v">>]>>]
A == Dir(<<"a">>)
AB == Dir(<<"a", "b">>)
Saying ==
    {("hashing.trust_mode" :> "fast") @@ ("scope.include" :> <<AB>>),
     ("hashing.trust_mode" :> "bogus"),
     ("scope.include" :> <<Dir(<<"a", "..", "..", "b">>)>>),
     ("scope.include" :> <<>>),
     ("scope.symlink_max_depth" :> -1),
     ("hashing.max_file_size" :> Text(33, "KiB")),
     ("hashing.max_file_size" :> Text(12, "")) @@ ("run.ttl" :> Text(3, "h"))
       @@ ("doctor.store_warning_size" :> Off),
     ("run.env_allowlist" :> <<EnvName("ci", "CI"), EnvName("ci", "ci")>>),
     ("run.validation" :> <<Policy("one", <<"t">>, <<A>>), Policy("two", <<"t">>, <<AB>>)>>),
     ("run.validation" :> <<Policy("one", <<"t">>, <<AB>>), Policy("two", <<"u">>, <<A>>)>>),
     ("run.validation" :> <<Policy("one", <<"t">>, <<AB, A>>)>>),
     (HashOnly :> <<"pattern", "never">>),
     ("run.extra_effect_roots" :> <<A, Dir(<<"x", ".git">>)>>),
     ("scope.extra_excludes" :> <<"pattern">>) @@ (HashOnly :> <<>>)}
MCContents == {NoSuchFile, Unreadable, Malformed} \cup {Overlay(w) : w \in Saying}
MCRewrites == {NoSuchFile, Overlay("hashing.trust_mode" :> "strict")}

(* What cannot be read ends the load: the files after it are never opened,  *)
(* or an edit mends it, as if the edit had come before.                     *)
Opened ==
    \A i, j \in DOMAIN FileLayers :
        i < j /\ files[FileLayers[i]].kind \in {"unreadable", "malformed"} => files[FileLayers[j]] = NoSuchFile
LoadDone == loaded # NotYet
OneLoad == /\ explicitFile = FALSE /\ trustFlag = "none"
           /\ files = [l \in ToSet(FileLayers) |-> NoSuchFile]
==========================================================================
