---------------------------- MODULE MCCommands ----------------------------
(* What runs before and beside the evidence: the command line and the       *)
(* session it starts, the configuration, doctor's diagnosis and its walks,  *)
(* the probe grants and the coming into being of a project.  They share no  *)
(* state, so Init chooses one part and the others rest in one of their      *)
(* initial states.                                                          *)
EXTENDS CommandSession, MCConfiguration, MCDiagnosis, MCCapacity,
        MCProbeGrants, MCProjectInit

VARIABLES part   \* the part that moves

(* Every line of a few tokens, routed; the shortest are also executed, and  *)
(* so is every command by its name.                                         *)
MCTokens ==
    {Word("run"), Word("explain"), Word("config"), Word("changes"), Word("x"),
     Flag("--json"), Flag("--root"), FlagWith("--trust-mode", "fast"), Flag("--last"),
     Flag("--scope"), Dashes}
Every == {<<c>> : c \in Commands \ OwnsHelp} \cup {<<"run">>}
         \cup UNION {{<<c, s>> : s \in DOMAIN SubcommandsOf(c)} : c \in OwnsHelp}
NamedOutright(h) == \E given \in SUBSET {"json", "config"} :
    /\ given \subseteq Innermost(h)
    /\ answer = [kind |-> "command", handler |-> h, given |-> given]
CommandInit ==
    /\ SessionInit
    /\ \/ LineInit
       \/ /\ part = "line" /\ typed = <<>> /\ inv = NoInvocation
          /\ want = "none" /\ over = FALSE
          /\ \E h \in Every : NamedOutright(h)
CommandDone == exit # Pending \/ (answer.kind # "none" /\ Len(typed) > MaxRouted)

lineParts == <<lineVars, sessionVars>>
MCInit ==
    /\ part \in {"line", "configuration", "doctor", "audit", "grants", "init"}
    /\ CommandInit
    /\ (part # "configuration" => OneLoad) /\ LoadInit /\ Opened
    /\ (part # "doctor" => OneDiagnosis) /\ DoctorInit
    /\ (part # "audit" => OneAudit) /\ AuditInit
    /\ (part # "grants" => OneGrant) /\ GrantInit /\ Entered
    /\ (part # "init" => OneStart) /\ ProjectInitially /\ (part = "init" => Two)

LinePart ==
    /\ part = "line"
    /\ CommandNext \/ (CommandDone /\ UNCHANGED lineParts)
    /\ UNCHANGED <<configVars, doctorVars, auditVars, grantVars, initVars>>
ConfigurationPart ==
    /\ part = "configuration" /\ (LoadNext \/ (LoadDone /\ UNCHANGED configVars))
    /\ UNCHANGED <<lineParts, doctorVars, auditVars, grantVars, initVars>>
DoctorPart ==
    /\ part = "doctor" /\ (DiagnosisNext \/ (DoctorDone /\ UNCHANGED doctorVars))
    /\ UNCHANGED <<lineParts, configVars, auditVars, grantVars, initVars>>
AuditPart ==
    /\ part = "audit" /\ (AuditNext \/ (AuditDone /\ UNCHANGED auditVars))
    /\ UNCHANGED <<lineParts, configVars, doctorVars, grantVars, initVars>>
GrantPart ==
    /\ part = "grants" /\ (GrantNext \/ (moves = MaxMoves /\ UNCHANGED grantVars))
    /\ UNCHANGED <<lineParts, configVars, doctorVars, auditVars, initVars>>
InitPart ==
    /\ part = "init" /\ (ProjectNext \/ (Ended /\ UNCHANGED initVars))
    /\ UNCHANGED <<lineParts, configVars, doctorVars, auditVars, grantVars>>
MCNext ==
    /\ LinePart \/ ConfigurationPart \/ DoctorPart \/ AuditPart \/ GrantPart \/ InitPart
    /\ UNCHANGED part
MCSpec == MCInit /\ [][MCNext]_<<part, lineParts, configVars, doctorVars, auditVars, grantVars, initVars>>
=============================================================================
