--------------------------- MODULE CommandLine ---------------------------
(* What awa makes of the words it was typed (internal/cli: args.go,         *)
(* router.go and the wrapper commands of run.go and run_explain.go).  Three *)
(* parsers share one line: the top-level one takes global options wherever  *)
(* they stand, the command's own takes its flags, and the rest of a wrapped *)
(* command line belongs to the child, which must get it as it was typed.    *)
EXTENDS FiniteSets, Integers, Sequences, SequencesExt

CONSTANTS
    Tokens,    \* the tokens that can be typed, records as below
    MaxTokens  \* bound of the run: tokens on a line

(* A token is a word, a flag with or without an inline value, or "--".  A   *)
(* word is whatever does not begin with a dash, and the lone dash.  value   *)
(* is empty or holds the inline value.                                      *)
Word(text) == [kind |-> "word", name |-> text, value |-> <<>>]
Flag(text) == [kind |-> "flag", name |-> text, value |-> <<>>]
FlagWith(text, v) == [kind |-> "flag", name |-> text, value |-> <<v>>]
Dashes == [kind |-> "dashes", name |-> "--", value |-> <<>>]

ASSUME LineAssumption ==
    /\ MaxTokens \in Nat
    /\ \A t \in Tokens :
         /\ DOMAIN t = {"kind", "name", "value"} /\ t.kind \in {"word", "flag", "dashes"}
         /\ t.value \in Seq(STRING) /\ Len(t.value) <= 1

VARIABLES
    typed,   \* the tokens so far, in argv's order
    inv,     \* the invocation under construction
    want,    \* the global option whose value the next token is, or "none"
    over,    \* "--" has been read
    answer   \* what the line came to

lineVars == <<typed, inv, want, over, answer>>

(***************************** the registry *******************************)
Capabilities == {"root", "config", "json", "trust"}
BareGlobals == [flag \in {"-h", "--help", "--json", "--strict"} |->
    IF flag = "--json" THEN "json" ELSE IF flag = "--strict" THEN "trust" ELSE "help"]
ValuedGlobals == [flag \in {"--root", "--config", "--trust-mode"} |->
    CASE flag = "--root" -> "root" [] flag = "--config" -> "config" [] OTHER -> "trust"]
TrustModes == {"normal", "strict", "fast"}

Sub(caps, operands) == [caps |-> caps, operands |-> operands]
Stored == {"root", "config", "json"}

RunSubcommands == [s \in {"ls", "log", "show", "rm", "audit", "explain"} |->
    Sub(IF s \in {"ls", "explain"} THEN Capabilities ELSE Stored, s = "explain")]
ConfigSubcommands ==
    [s \in {"path", "show", "effective", "validate", "template", "init", "probes"} |->
        Sub(CASE s = "effective" -> Capabilities
              [] s = "template" -> {}
              [] s = "init" -> {"root", "json"}
              [] OTHER -> Stored, FALSE)]
StateSubcommands == [s \in {"resolve", "compare"} |-> Sub(Capabilities, FALSE)]
DocsSubcommands == [s \in {"export"} |-> Sub({}, FALSE)]

(* A command that owns subcommands renders its own help; every one but run  *)
(* does nothing without them.                                               *)
OwnsHelp == {"run", "config", "state", "docs"}
SubcommandsOf(command) ==
    CASE command = "run" -> RunSubcommands
      [] command = "config" -> ConfigSubcommands
      [] command = "state" -> StateSubcommands
      [] command = "docs" -> DocsSubcommands
      [] OTHER -> [s \in {} |-> Sub({}, FALSE)]

Commands ==
    {"init", "status", "checkpoint", "log", "changes", "diff", "restore", "run", "gc", "doctor",
     "config", "state", "docs", "help", "version"}
CommandCaps(command) ==
    CASE command \in {"init", "status", "log"} -> {"root", "json"}
      [] command \in {"checkpoint", "changes", "diff", "restore", "run", "doctor", "config",
                      "state"} -> Capabilities
      [] command = "gc" -> Stored
      [] command = "version" -> {"json"}
      [] command \in {"docs", "help"} -> {}
TakesOperands == {"changes", "diff", "restore", "run"}

(*************************** the global parser *****************************)
NoInvocation == [given |-> {}, command |-> "", args |-> <<>>, operands |-> <<>>, tail |-> <<>>]

Unanswered == [kind |-> "none"]
Refused == [kind |-> "refused"]
Page(of) == [kind |-> "page", of |-> of]
Answering == answer.kind = "none"
Named == inv.command # ""

(* A global option read after the command word is remembered in the tail,   *)
(* where a wrapper can see whether it stood inside the child's words.       *)
WithGlobal(cap) ==
    [inv EXCEPT !.given = @ \cup {cap}, !.tail = IF Named THEN Append(@, "global") ELSE @]
WithArgument(t) == [inv EXCEPT !.args = Append(@, t), !.tail = Append(@, "arg")]

Type(t) == /\ Answering /\ Len(typed) < MaxTokens
           /\ typed' = Append(typed, t)

(* Everything after "--" is an operand, never a flag. *)
TakeOperand(t) ==
    /\ Type(t) /\ over
    /\ inv' = [inv EXCEPT !.operands = Append(@, t)]
    /\ UNCHANGED <<want, over, answer>>

(* A global option's value is the next token, whatever it looks like. *)
TakeValue(t) ==
    /\ Type(t) /\ want # "none"
    /\ IF t.name = "" \/ (want = "--trust-mode" /\ t.name \notin TrustModes)
         THEN answer' = Refused /\ inv' = inv
         ELSE answer' = answer /\ inv' = WithGlobal(ValuedGlobals[want])
    /\ want' = "none" /\ UNCHANGED over

(* The next token is read for what it is. *)
Fresh(t) == Type(t) /\ ~over /\ want = "none"

Terminate(t) ==
    /\ Fresh(t) /\ t.kind = "dashes"
    /\ over' = TRUE /\ UNCHANGED <<inv, want, answer>>

(* The first word names the command.  An empty word names nothing and is    *)
(* forgotten, since an empty name is how the parser says "none yet".        *)
TakeWord(t) ==
    /\ Fresh(t) /\ t.kind = "word"
    /\ inv' = IF Named THEN WithArgument(t) ELSE [inv EXCEPT !.command = t.name]
    /\ UNCHANGED <<want, over, answer>>

TakeBareGlobal(t) ==
    /\ Fresh(t) /\ t.kind = "flag" /\ t.name \in DOMAIN BareGlobals
    /\ IF t.value # <<>> THEN answer' = Refused /\ inv' = inv
                         ELSE answer' = answer /\ inv' = WithGlobal(BareGlobals[t.name])
    /\ UNCHANGED <<want, over>>

TakeValuedGlobal(t) ==
    /\ Fresh(t) /\ t.kind = "flag" /\ t.name \in DOMAIN ValuedGlobals
    /\ LET bad == t.value = <<"">> \/ (t.name = "--trust-mode" /\ t.value[1] \notin TrustModes)
       IN IF t.value = <<>> THEN want' = t.name /\ UNCHANGED <<inv, answer>>
          ELSE /\ want' = want
               /\ IF bad THEN answer' = Refused /\ inv' = inv
                         ELSE answer' = answer /\ inv' = WithGlobal(ValuedGlobals[t.name])
    /\ UNCHANGED over

(* Any other flag belongs to the command; before a command it has no owner. *)
TakeFlag(t) ==
    /\ Fresh(t) /\ t.kind = "flag"
    /\ t.name \notin DOMAIN BareGlobals \cup DOMAIN ValuedGlobals
    /\ IF Named THEN inv' = WithArgument(t) /\ answer' = answer
                ELSE answer' = Refused /\ inv' = inv
    /\ UNCHANGED <<want, over>>

(************************ the wrappers' own flags **************************)
BareRunFlags == {"--refresh", "--no-cache", "--no-cache-failures", "--allow-skipped-inputs",
                 "--allow-tty"}
ValuedRunFlags == {"--scope", "--include", "--exclude", "--cwd", "--stdin"}
ForRun == [bare |-> BareRunFlags \cup {"--record"}, valued |-> ValuedRunFlags \cup {"--display"}]
ForExplain == [bare |-> BareRunFlags \cup {"--last", "--to-now"},
               valued |-> ValuedRunFlags \cup {"--from-run"}]
DisplayModes == {"full", "summary", "none"}

GoodValue(flag, v) ==
    /\ v # ""
    /\ flag = "--stdin" => v = "null"
    /\ flag = "--display" => v \in DisplayModes

(* The flags that lead args, and where they stop: the number of tokens      *)
(* before the child's first word.                                           *)
NoFlags == [ok |-> FALSE, stop |-> 0, flags |-> {}]
Also(rest, flag) == [rest EXCEPT !.flags = @ \cup {flag}]

(* What is read from the i-th argument on, when that is known of those      *)
(* behind it.                                                               *)
FlagsFrom(args, own, behind, i) ==
    LET t == args[i]
        next == IF i < Len(args) THEN args[i + 1].name ELSE ""
    IN CASE t.kind = "word" -> [ok |-> TRUE, stop |-> i - 1, flags |-> {}]
         [] t.kind = "flag" /\ t.name \in own.bare ->
               IF t.value = <<>> THEN Also(behind[i + 1], t.name) ELSE NoFlags
         [] t.kind = "flag" /\ t.name \in own.valued ->
               IF t.value = <<>>
                 THEN IF GoodValue(t.name, next) THEN Also(behind[i + 2], t.name) ELSE NoFlags
                 ELSE IF GoodValue(t.name, t.value[1]) THEN Also(behind[i + 1], t.name) ELSE NoFlags
         [] OTHER -> NoFlags

LeadingFlags(args, own) ==
    LET from[i \in 1 .. Len(args) + 2] ==
            IF i > Len(args) THEN [ok |-> TRUE, stop |-> Len(args), flags |-> {}]
            ELSE FlagsFrom(args, own, from, i)
    IN from[1]

(* Mutated: a global just behind the child's first word passes. *)
LateAmbiguousTailGlobal(tail, childArgsPos) ==
    \E k \in 1 .. Len(tail) :
        /\ tail[k] = "global"
        /\ Cardinality({j \in 1 .. k : tail[j] = "arg"}) > childArgsPos + 1

(* A global option behind the child's first word may have been meant for    *)
(* the child.                                                               *)
AmbiguousTailGlobal(tail, childArgsPos) ==
    \E k \in 1 .. Len(tail) :
        /\ tail[k] = "global"
        /\ Cardinality({j \in 1 .. k : tail[j] = "arg"}) > childArgsPos

(* What a wrapper wraps: the operands, or in the short form the arguments   *)
(* from the first word on.  before: the arguments that are the wrapper's    *)
(* own, 1 for the word "explain".                                           *)
Wrapped(parsed, args, before) ==
    IF inv.operands # <<>>
      THEN [ok |-> parsed.stop = Len(args), argv |-> inv.operands]
      ELSE [ok |-> parsed.stop < Len(args) => ~AmbiguousTailGlobal(inv.tail, before + parsed.stop),
            argv |-> SubSeq(args, parsed.stop + 1, Len(args))]

Child(handler, argv, flags) ==
    [kind |-> "child", handler |-> handler, argv |-> argv, flags |-> flags, given |-> inv.given]
Handler(name) == [kind |-> "command", handler |-> name, given |-> inv.given]

ConflictingRun(flags) ==
    \/ {"--no-cache", "--refresh"} \subseteq flags
    \/ {"--record", "--refresh"} \subseteq flags
    \/ {"--stdin", "--allow-tty"} \subseteq flags

RunChild ==
    LET parsed == LeadingFlags(inv.args, ForRun)
        child == Wrapped(parsed, inv.args, 0)
    IN IF ~parsed.ok \/ ~child.ok \/ child.argv = <<>> \/ ConflictingRun(parsed.flags)
         THEN Refused ELSE Child(<<"run">>, child.argv, parsed.flags)

ConflictingExplain(flags, wraps) ==
    \/ "--last" \in flags /\ ("--from-run" \in flags \/ wraps)
    \/ "--from-run" \in flags /\ (wraps \/ "--to-now" \notin flags)
    \/ "--to-now" \in flags /\ flags \cap {"--from-run", "--last"} = {}
    \/ {"--no-cache", "--refresh"} \subseteq flags
    \/ ~wraps /\ flags \cap {"--last", "--from-run"} = {}
    \/ ~wraps /\ flags \cap (BareRunFlags \cup ValuedRunFlags) # {}
    \/ {"--stdin", "--allow-tty"} \subseteq flags

RunExplain ==
    LET args == Tail(inv.args)
        parsed == LeadingFlags(args, ForExplain)
        child == Wrapped(parsed, args, 1)
    IN IF ~parsed.ok \/ ~child.ok \/ ConflictingExplain(parsed.flags, child.argv # <<>>)
         THEN Refused
         ELSE IF child.argv = <<>> THEN Handler(<<"run", "explain">>)
              ELSE Child(<<"run", "explain">>, child.argv, parsed.flags)

(******************************* the router ********************************)
Accepts(caps) == inv.given \cap Capabilities \subseteq caps

DispatchSubcommand(command, sub) ==
    LET spec == SubcommandsOf(command)[sub]
    IN IF ~Accepts(spec.caps) \/ (inv.operands # <<>> /\ ~spec.operands) THEN Refused
       ELSE IF sub = "explain" THEN RunExplain ELSE Handler(<<command, sub>>)

NamesSubcommand(command) ==
    inv.args # <<>> /\ Head(inv.args).kind = "word"
                    /\ Head(inv.args).name \in DOMAIN SubcommandsOf(command)

(* The wrapper's help: a --help behind the child's first word is as         *)
(* ambiguous as any other global, and the command is refused.               *)
RunWrapperHelp ==
    IF NamesSubcommand("run")
      THEN LET args == Tail(inv.args)
               parsed == LeadingFlags(args, ForExplain)
               stolen == /\ parsed.ok /\ parsed.stop < Len(args)
                         /\ AmbiguousTailGlobal(inv.tail, 1 + parsed.stop)
           IN IF Head(inv.args).name = "explain" /\ stolen
                THEN Refused ELSE Page(<<"run", Head(inv.args).name>>)
      ELSE LET parsed == LeadingFlags(inv.args, ForRun)
               stolen == parsed.stop < Len(inv.args) /\ AmbiguousTailGlobal(inv.tail, parsed.stop)
           IN IF inv.args # <<>> /\ (~parsed.ok \/ stolen) THEN Refused ELSE Page(<<"run">>)

HelpOf(command) ==
    IF command = "run" THEN RunWrapperHelp
    ELSE IF command \in OwnsHelp /\ NamesSubcommand(command)
           THEN Page(<<command, Head(inv.args).name>>) ELSE Page(<<command>>)

Dispatch(command) ==
    IF NamesSubcommand(command) THEN DispatchSubcommand(command, Head(inv.args).name)
    ELSE IF command = "run" THEN RunChild
    ELSE IF command \in OwnsHelp THEN Refused ELSE Handler(<<command>>)

Route ==
    LET command == IF Named THEN inv.command ELSE "status"
        help == "help" \in inv.given
    IN IF ~Named /\ help /\ inv.operands = <<>> THEN Page(<<>>)
       ELSE IF ~Named /\ inv.operands # <<>> THEN Refused
       ELSE IF command \notin Commands THEN IF help THEN Page(<<>>) ELSE Refused
       ELSE IF help THEN HelpOf(command)
       ELSE IF inv.operands # <<>> /\ command \notin TakesOperands THEN Refused
       ELSE IF ~Accepts(CommandCaps(command)) THEN Refused ELSE Dispatch(command)

(* The line ends: a global option still without its value refuses it. *)
End ==
    /\ Answering
    /\ answer' = IF want # "none" THEN Refused ELSE Route
    /\ UNCHANGED <<typed, inv, want, over>>

LineInit == /\ typed = <<>> /\ inv = NoInvocation /\ want = "none" /\ over = FALSE
            /\ answer = Unanswered

Typing ==
    \E t \in Tokens :
        \/ TakeOperand(t) \/ TakeValue(t) \/ Terminate(t) \/ TakeWord(t)
        \/ TakeBareGlobal(t) \/ TakeValuedGlobal(t) \/ TakeFlag(t)

LineNext == Typing \/ End

(******************************* properties ********************************)
(* A wrapped command line is a stretch of what was typed, to the end (but   *)
(* for a last "--" with nothing behind it), and every option awa took for   *)
(* its own stands before it.  Whatever command is reached, even a           *)
(* subcommand, acts on every global option and reads the operands it is     *)
(* given: none is silently dropped (run.go: ambiguousTailGlobal, runRun;    *)
(* router.go: dispatchSubcommand, requireAccepted).                         *)
LastDashes == typed # <<>> /\ Last(typed).kind = "dashes"
CapOf(t) ==
    IF t.name \in DOMAIN BareGlobals THEN {BareGlobals[t.name]}
    ELSE IF t.name \in DOMAIN ValuedGlobals THEN {ValuedGlobals[t.name]} ELSE {}
Innermost(handler) ==
    IF Len(handler) = 2 THEN SubcommandsOf(handler[1])[handler[2]].caps
                        ELSE CommandCaps(handler[1])
ReadsOperands == {<<"changes">>, <<"diff">>, <<"restore">>}

NothingIsStolen ==
    /\ answer.kind = "child" =>
        \E n \in 1 .. Len(typed) :
            /\ \/ answer.argv = SubSeq(typed, n, Len(typed))
               \/ LastDashes /\ answer.argv = SubSeq(typed, n, Len(typed) - 1)
            /\ answer.given \subseteq UNION {CapOf(typed[i]) : i \in 1 .. n - 1}
    /\ answer.kind \in {"child", "command"} =>
        /\ answer.given \subseteq Innermost(answer.handler)
        /\ inv.operands # <<>> =>
              IF answer.kind = "child" THEN answer.argv = inv.operands
                                       ELSE answer.handler \in ReadsOperands
=============================================================================
