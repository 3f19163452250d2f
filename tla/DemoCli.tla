------------------------------ MODULE DemoCli ------------------------------
(***************************************************************************)
(* democli: ParseArguments and the actions (apps/democli), over the        *)
(* command-line iterator of etlx::conf and the update state machine.       *)
(*                                                                         *)
(* A process may parse and execute several command lines, as the tests do; *)
(* the actions live in one static pool.  An argument is a token of a small *)
(* set of strings, and what the output says is left out.                   *)
(***************************************************************************)
EXTENDS UpdateFsm, Naturals, Sequences, FiniteSets

None == "none"   \* the empty string

CONSTANTS
  Tokens,        \* the arguments a command line is made of
  MaxArgs,       \* bound: arguments after the command name
  MaxCalls       \* bound: command lines in a process

ASSUME CliAssumption ==
  /\ Tokens \subseteq STRING /\ None \notin Tokens
  /\ MaxArgs \in Nat /\ MaxCalls \in Nat

VARIABLES
  \* the static ActionPool
  artifact, stopBefore,     \* install.artifact_, install.stop_before_
  helpFor,                  \* help.command_: None, or is it "known" or "unknown"
  \* ParseArguments and its CmdlineOptionsIterator
  command, argv,            \* the command name and what follows it
  index, argsOnly,          \* index_, args_only_
  argument, stop,           \* locals; argument is None when there is none
  \* InstallAction::Execute
  fsm, phase,               \* the machine, the phase the loop is at
  performed,                \* phases performed
  pc, code, calls

pool    == <<artifact, stopBefore, helpFor>>
parser  == <<command, argv, index, argsOnly, argument, stop>>
install == <<fsm, phase, performed>>
vars    == <<pool, parser, install, pc, code, calls>>

Commands == {"show-artifact", "check-update", "install", "commit", "rollback"}

\* Exit codes; ParseArguments' own errors, which Main maps to ExitError, are
\* kept apart.
ExitOk           == "Ok"
ExitError        == "Error"
ExitNoUpdate     == "NoUpdate"
ExitRebootNeeded == "RebootNeeded"
ParseError       == "ParseError"

\* The options a command declares; all of them take a value.
Options(cmd) == IF cmd \in {"install", "commit", "rollback"} THEN {"--stop-before"} ELSE {}

\* Tokens that start with two dashes, split at the equals sign.
Inline == [t \in {"--stop-before=verify", "--bogus=1"} |->
             IF t = "--bogus=1" THEN [name |-> "--bogus", value |-> "1"]
                                ELSE [name |-> "--stop-before", value |-> "verify"]]

StartsWithDashDash(t) == t \in {"--", "--stop-before", "--bogus", "--help"} \cup DOMAIN Inline

IsHelpFlag(t) == t \in {"--help", "-h"}

Phases == <<"download", "verify", "install">>

Init ==
  /\ artifact = None /\ stopBefore = None /\ helpFor = None
  /\ command = None /\ argv = <<>> /\ index = 1 /\ argsOnly = FALSE
  /\ argument = None /\ stop = None
  /\ fsm = "Idle" /\ phase = 1 /\ performed = <<>>
  /\ pc = "idle" /\ code = ExitOk /\ calls = 0

Finish(c) == pc' = "done" /\ code' = c

-----------------------------------------------------------------------------
(* ParseArguments up to the walk                                           *)

Start(cmd, args) ==
  /\ pc = "idle" /\ calls < MaxCalls
  /\ calls' = calls + 1
  /\ command' = cmd /\ argv' = args
  /\ UNCHANGED <<artifact, stopBefore, index, argsOnly, argument, stop, install>>

Known(t) == IF t \in Commands THEN "known" ELSE "unknown"

\* No command, --help or help, perhaps with the command to explain.
ParseHelp(args) ==
  /\ Start("help", args)
  /\ helpFor' = IF args # <<>> THEN Known(Head(args)) ELSE helpFor
  /\ pc' = "help"
  /\ UNCHANGED code

ParseUnknown(args) ==
  /\ Start("frobnicate", args)
  /\ Finish(ParseError)
  /\ UNCHANGED helpFor

\* A help flag anywhere after the command name.
ParseCommandHelp(cmd, args) ==
  /\ Start(cmd, args)
  /\ \E i \in 1..Len(args) : IsHelpFlag(args[i])
  /\ helpFor' = "known"
  /\ pc' = "help"
  /\ UNCHANGED code

ParseCommand(cmd, args) ==
  /\ Start(cmd, args)
  /\ \A i \in 1..Len(args) : ~IsHelpFlag(args[i])
  /\ pc' = "walk"
  /\ UNCHANGED <<helpFor, code>>

-----------------------------------------------------------------------------
(* CmdlineOptionsIterator::Next and what ParseArguments does with it       *)

\* The first "--" is skipped; after it everything is positional.
AtDashDash == ~argsOnly /\ index <= Len(argv) /\ argv[index] = "--"
At         == IF AtDashDash THEN index + 1 ELSE index
ArgsOnly   == argsOnly \/ AtDashDash

AtArgument == At <= Len(argv) /\ (ArgsOnly \/ ~StartsWithDashDash(argv[At]))
AtOption   == At <= Len(argv) /\ ~ArgsOnly /\ StartsWithDashDash(argv[At])

WalkUnchanged == UNCHANGED <<pool, command, argv, install, calls>>

WalkArgument ==
  /\ pc = "walk" /\ AtArgument
  /\ IF argument # None THEN Finish(ParseError) /\ UNCHANGED argument
                      ELSE argument' = argv[At] /\ UNCHANGED <<pc, code>>
  /\ index' = At + 1 /\ argsOnly' = ArgsOnly
  /\ UNCHANGED stop
  /\ WalkUnchanged

OptionName == IF argv[At] \in DOMAIN Inline THEN Inline[argv[At]].name ELSE argv[At]

\* --stop-before=value, or the value in the next token whatever it looks like.
\* democli declares no option without a value, so the branch of Next for flags is
\* left out.
WalkOption ==
  /\ pc = "walk" /\ AtOption
  /\ OptionName \in Options(command)
  /\ \/ /\ argv[At] \in DOMAIN Inline
        /\ stop' = Inline[argv[At]].value
        /\ index' = At + 1
     \/ /\ argv[At] \notin DOMAIN Inline /\ At < Len(argv)
        /\ stop' = argv[At + 1]
        /\ index' = At + 2
  /\ UNCHANGED <<argsOnly, argument, pc, code>>
  /\ WalkUnchanged

\* An unknown option, or a value missing at the end.
WalkRefuse ==
  /\ pc = "walk" /\ AtOption
  /\ \/ OptionName \notin Options(command)
     \/ argv[At] \notin DOMAIN Inline /\ At = Len(argv)
  /\ Finish(ParseError)
  /\ UNCHANGED <<index, argsOnly, argument, stop>>
  /\ WalkUnchanged

\* Mutant of Dispatch: the pool's stop state is not replaced.
DispatchKeepsStop ==
  /\ pc = "walk" /\ At > Len(argv)
  /\ IF command = "install"
     THEN /\ artifact' = IF argument # None THEN argument ELSE artifact
          /\ stopBefore' = IF stopBefore = None THEN stop ELSE stopBefore
          /\ pc' = "install"
          /\ UNCHANGED code
     ELSE /\ Finish(IF command \in {"commit", "rollback"} THEN ExitNoUpdate ELSE ExitOk)
          /\ UNCHANGED <<artifact, stopBefore>>
  /\ UNCHANGED <<helpFor, parser, install, calls>>

\* The walk is over: configure the pool's action and execute it.  Commit and
\* rollback never have an update to act on.
Dispatch ==
  /\ pc = "walk" /\ At > Len(argv)
  /\ IF command = "install"
     THEN /\ artifact' = IF argument # None THEN argument ELSE artifact
          /\ stopBefore' = IF stop # None THEN stop ELSE stopBefore
          /\ pc' = "install"
          /\ UNCHANGED code
     ELSE /\ Finish(IF command \in {"commit", "rollback"} THEN ExitNoUpdate ELSE ExitOk)
          /\ UNCHANGED <<artifact, stopBefore>>
  /\ UNCHANGED <<helpFor, parser, install, calls>>

-----------------------------------------------------------------------------
(* The actions                                                             *)

\* PrintCliHelp always knows what to print, PrintCliCommandHelp only for a
\* command of the application; the printing itself is left out.
HelpFails == helpFor = "unknown"

HelpExecute ==
  /\ pc = "help"
  /\ Finish(IF HelpFails THEN ExitError ELSE ExitOk)
  /\ UNCHANGED <<pool, parser, install, calls>>

\* Mutant of InstallBegin: the machine is not started.
InstallBeginIdle ==
  /\ pc = "install"
  /\ IF artifact = None THEN Finish(ExitError) /\ UNCHANGED fsm
     ELSE fsm' = "Idle" /\ pc' = "phase" /\ UNCHANGED code
  /\ UNCHANGED <<pool, parser, phase, performed, calls>>

InstallBegin ==
  /\ pc = "install"
  /\ IF artifact = None THEN Finish(ExitError) /\ UNCHANGED fsm
     ELSE fsm' = Receive("Idle", "Start") /\ pc' = "phase" /\ UNCHANGED code
  /\ UNCHANGED <<pool, parser, phase, performed, calls>>

\* Mutant of InstallPhase: the phase is performed before --stop-before is read.
InstallPhaseFirst ==
  /\ pc = "phase" /\ phase <= Len(Phases)
  /\ performed' = Append(performed, Phases[phase])
  /\ IF stopBefore = Phases[phase]
     THEN Finish(ExitOk) /\ UNCHANGED <<fsm, phase>>
     ELSE /\ fsm' = Receive(fsm, "Next")
          /\ phase' = phase + 1
          /\ UNCHANGED <<pc, code>>
  /\ UNCHANGED <<pool, parser, calls>>

InstallPhase ==
  /\ pc = "phase" /\ phase <= Len(Phases)
  /\ IF stopBefore = Phases[phase]
     THEN Finish(ExitOk) /\ UNCHANGED install
     ELSE /\ performed' = Append(performed, Phases[phase])
          /\ fsm' = Receive(fsm, "Next")
          /\ phase' = phase + 1
          /\ UNCHANGED <<pc, code>>
  /\ UNCHANGED <<pool, parser, calls>>

InstallEnd ==
  /\ pc = "phase" /\ phase > Len(Phases)
  /\ Finish(ExitRebootNeeded)
  /\ UNCHANGED <<pool, parser, install, calls>>

\* The call returns and its locals are gone; the pool stays.
Return ==
  /\ pc = "done"
  /\ pc' = "idle" /\ code' = ExitOk
  /\ command' = None /\ argv' = <<>> /\ index' = 1 /\ argsOnly' = FALSE
  /\ argument' = None /\ stop' = None
  /\ fsm' = "Idle" /\ phase' = 1 /\ performed' = <<>>
  /\ UNCHANGED <<pool, calls>>

Argvs == UNION {[1..n -> Tokens] : n \in 0..MaxArgs}

Next ==
  \/ /\ pc = "idle"
     /\ \E args \in Argvs :
          \/ ParseHelp(args) \/ ParseUnknown(args)
          \/ \E cmd \in Commands : ParseCommand(cmd, args) \/ ParseCommandHelp(cmd, args)
  \/ WalkArgument \/ WalkOption \/ WalkRefuse \/ Dispatch
  \/ HelpExecute \/ InstallBegin \/ InstallPhase \/ InstallEnd
  \/ Return

Spec == Init /\ [][Next]_vars

-----------------------------------------------------------------------------
(* Properties                                                              *)

\* Type correctness; the iterator never reads past argc.
TypeOK ==
  /\ argv \in Seq(Tokens)
  /\ helpFor \in {None, "known", "unknown"}
  /\ index \in 1..(Len(argv) + 1) /\ argsOnly \in BOOLEAN
  /\ fsm \in FsmStates /\ phase \in 1..4
  /\ pc \in {"idle", "walk", "help", "install", "phase", "done"}
  /\ code \in {ParseError, ExitOk, ExitError, ExitNoUpdate, ExitRebootNeeded}

\* The role of a token behind one of the given role: what follows a
\* --stop-before is its value, what follows the first free "--" is positional.
RoleAfter(role, t) ==
  IF role = "option" THEN "value"
  ELSE IF role \in {"cut", "rest"} THEN "rest"
  ELSE IF t = "--" THEN "cut"
  ELSE IF t = "--stop-before" THEN "option"
  ELSE IF t = "--stop-before=verify" THEN "inline"
  ELSE IF StartsWithDashDash(t) THEN "bad" ELSE "word"

\* The roles of the tokens of the command line, read off from left to right.
Role[i \in 0..Len(argv)] == IF i = 0 THEN "start" ELSE RoleAfter(Role[i - 1], argv[i])

Last(S) == CHOOSE i \in S : \A j \in S : j <= i

\* What that reading makes of the whole command line: is it well formed, its
\* argument and its last --stop-before value, None where there is none.
Reading ==
  LET role       == [i \in 1..Len(argv) |-> Role[i]]
      With(kinds) == {i \in 1..Len(argv) : role[i] \in kinds}
      words      == With({"word", "rest"})
      stops      == With({"value", "inline"})
  IN  [ wellFormed |->
          /\ Cardinality(words) <= 1
          /\ With({"bad"}) = {}
          /\ With({"option", "inline"}) # {} => command \in {"install", "commit", "rollback"}
          /\ argv # <<>> => role[Len(argv)] # "option",
        argument   |-> IF words = {} THEN None ELSE argv[Last(words)],
        stop       |-> IF stops = {} THEN None
                       ELSE IF role[Last(stops)] = "inline" THEN "verify" ELSE argv[Last(stops)] ]

Walked == command \in Commands /\ \A i \in 1..Len(argv) : ~IsHelpFlag(argv[i])

\* A command line is refused exactly when it is malformed by the reading
\* above, and install gets the argument and the last --stop-before of it:
\* no token is skipped, read twice or taken for another kind, and a field
\* left by an earlier command line never replaces one given in this one.
ParseIsRight ==
  (pc \in {"install", "done"} /\ Walked) =>
     LET reading == Reading
     IN  /\ pc = "done" => (code = ParseError <=> ~reading.wellFormed)
         /\ pc = "install" =>
              /\ reading.wellFormed
              /\ reading.argument # None => artifact = reading.argument
              /\ reading.stop # None => stopBefore = reading.stop

\* A phase is performed in the state of the machine that stands for it, and
\* the reboot is asked for in AwaitCommit.
PhaseInState ==
  /\ pc = "phase" => fsm = <<"Download", "Verify", "Install", "AwaitCommit">>[phase]
  /\ code = ExitRebootNeeded => fsm = "AwaitCommit" /\ performed = Phases

\* --stop-before halts in time: no phase from the named one on is performed,
\* however many command lines came before.
StopBeforeObeyed ==
  \A i \in 1..Len(Phases) : stop = Phases[i] => Len(performed) < i

=============================================================================
