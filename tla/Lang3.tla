------------------------------- MODULE Lang3 -------------------------------
(***************************************************************************)
(* main of apps/lang3: the command line (CommandLine), the choice of the   *)
(* input, and the stages: parsing, printing the tree, compiling, printing  *)
(* the bytecode, executing.  What a stage does to a program is left to the *)
(* other modules; here it succeeds, reports an error, or throws what       *)
(* nothing catches.                                                        *)
(***************************************************************************)
EXTENDS CommandLine

CONSTANT Missing   \* the arguments that name no file

VARIABLES
  stage,    \* the stage that is next, or "exited"
  input,    \* the name of the file, or <<>> for the standard input
  effects,  \* history: what was printed, written and run, in order
  failure,  \* history: the error that was reported, or "none"
  exit      \* EXIT_SUCCESS, EXIT_FAILURE, an abort, or none yet

mainVars == <<stage, input, effects, failure, exit>>
vars == <<parseVars, mainVars>>

Stages == {"arguments", "input", "parse", "print_ast", "write_graph", "stop_after_ast",
           "compile", "print_bytecode", "execute", "exited"}
Effects == {"usage", "ast", "graph", "bytecode", "execution"}
Failures == {"none", "command_line", "syntax", "compiler", "runtime", "not_caught"}

\* cli_parser()
Both(short, long) == [short |-> short, long |-> long]
Long(long) == [short |-> NoName, long |-> long]
CliFlags ==
  <<Both("d", "debug"), Both("O", "optimize"), Long("debug-lexer"), Long("debug-parser"),
    Long("debug-ast"), Long("debug-vm"), Long("debug-bytecode"), Long("timings")>>
CliOptions == <<Long("debug-ast-graph")>>

\* Mutant: -d does not stand for the others.
NamedOnly(name) == name \in flags

\* struct Debug.  Timings only print.
Debug(name) == "debug" \in flags \/ name \in flags

WantsGraph == "debug-ast-graph" \in DOMAIN values

----------------------------------------------------------------------------
(* Leaving main *)

Exit(code, reported) ==
  /\ stage' = "exited"
  /\ exit' = code
  /\ failure' = reported
  /\ UNCHANGED <<parseVars, input>>

Succeed == Exit("success", "none") /\ UNCHANGED effects
Report(kind) == Exit("failure", kind) /\ UNCHANGED effects

\* std::terminate
Abort == Exit("abort", "not_caught") /\ UNCHANGED effects

GoOn(next, done) ==
  /\ stage' = next
  /\ effects' = effects \o done
  /\ UNCHANGED <<parseVars, input, failure, exit>>

----------------------------------------------------------------------------
(* Stages *)

ReadArguments == stage = "arguments" /\ ParseStep /\ UNCHANGED mainVars

\* generate_help, std::exit
Usage ==
  /\ stage = "arguments"
  /\ status = "help"
  /\ Exit("success", "none")
  /\ effects' = Append(effects, "usage")

RefuseArguments ==
  /\ stage = "arguments"
  /\ status = "error"
  /\ Report("command_line")

\* The first positional argument; further ones are ignored.
ChooseInput ==
  /\ stage = "arguments"
  /\ status = "parsed"
  /\ input' = IF positional # <<>> /\ positional[1].form # "dash" THEN <<positional[1]>> ELSE <<>>
  /\ stage' = "parse"
  /\ UNCHANGED <<parseVars, effects, failure, exit>>

IsMissing == input # <<>> /\ input[1] \in Missing

\* parse_ast.  A file that cannot be opened reads as an empty one, and a program
\* has at least one statement.
ParseAst ==
  /\ stage = "parse"
  /\ \/ ~IsMissing /\ GoOn("print_ast", <<>>)
     \/ Report("syntax")

PrintAst ==
  /\ stage = "print_ast"
  /\ GoOn("write_graph", IF Debug("debug-ast") THEN <<"ast">> ELSE <<>>)

WriteGraph ==
  /\ stage = "write_graph"
  /\ GoOn("stop_after_ast", IF WantsGraph THEN <<"graph">> ELSE <<>>)

\* Mutant: the graph does not end the program.
StopsIgnoringGraph ==
  /\ \E name \in {"debug-lexer", "debug-parser", "debug-ast"} : Debug(name)
  /\ ~Debug("debug-vm")

StopsAfterAst ==
  /\ WantsGraph \/ \E name \in {"debug-lexer", "debug-parser", "debug-ast"} : Debug(name)
  /\ ~Debug("debug-vm")

StopOrCompile ==
  /\ stage = "stop_after_ast"
  /\ IF StopsAfterAst THEN Succeed ELSE GoOn("compile", <<>>)

\* compile_ast catches CompileError; the optimizer can throw
\* UnsupportedOperation, which it does not catch.
CompileAst ==
  /\ stage = "compile"
  /\ GoOn("print_bytecode", <<>>) \/ Report("compiler") \/ Abort

PrintBytecode ==
  /\ stage = "print_bytecode"
  /\ IF ~Debug("debug-bytecode") THEN GoOn("execute", <<>>)
     ELSE IF Debug("debug-vm") THEN GoOn("execute", <<"bytecode">>)
     ELSE Exit("success", "none") /\ effects' = Append(effects, "bytecode")

\* BytecodeVM::execute, which may not end.  Exceptions that are not RuntimeErrors
\* pass through it and through main.
Execute ==
  /\ stage = "execute"
  /\ Exit("success", "none") \/ Exit("failure", "runtime") \/ Exit("abort", "not_caught")
  /\ effects' = Append(effects, "execution")

----------------------------------------------------------------------------

Init ==
  /\ ParseInit
  /\ stage = "arguments"
  /\ input = <<>>
  /\ effects = <<>>
  /\ failure = "none"
  /\ exit = "none"

BeforeExecution ==
  \/ ReadArguments \/ Usage \/ RefuseArguments \/ ChooseInput
  \/ ParseAst \/ PrintAst \/ WriteGraph \/ StopOrCompile
  \/ CompileAst \/ PrintBytecode

Exited == stage = "exited" /\ UNCHANGED vars

Next == BeforeExecution \/ Execute \/ Exited

\* One thread with nothing to wait for: it makes steps until the program runs,
\* which may take for ever.
Spec == Init /\ [][Next]_vars /\ WF_vars(BeforeExecution)

----------------------------------------------------------------------------
(* Properties *)

TypeOK ==
  /\ ParseTypeOK
  /\ stage \in Stages
  /\ input \in {<<>>} \cup {<<a>> : a \in Arguments}
  /\ effects \in Seq(Effects)
  /\ failure \in Failures
  /\ exit \in {"none", "success", "failure", "abort"}

\* What a command line asks for, by its words.
FlagGiven(name) == name \in Meaning.flags
Asked(name) == {"debug", name} \cap Meaning.flags # {}
AskedForVm == Asked("debug-vm")
AskedForTree ==
  \/ \E name \in {"debug-lexer", "debug-parser", "debug-ast"} : Asked(name)
  \/ "debug-ast-graph" \in DOMAIN Meaning.values
AskedForDump == AskedForTree \/ Asked("debug-bytecode")

\* README.md:63-65 and doc/main.tex:190-192 say that --debug or --debug-ast lifts
\* the early exit after a dump of tokens or trees; main asks for --debug or
\* --debug-vm (main.cpp:162-163).  The command lines on which the two differ.
DisputedExit ==
  /\ AskedForTree
  /\ ~FlagGiven("debug")
  /\ FlagGiven("debug-ast") # FlagGiven("debug-vm")

Did(effect) == \E k \in DOMAIN effects : effects[k] = effect

\* What the program runs is the first file that is neither a flag, nor an option,
\* nor an option's value, and one that exists.  Outside the disputed command lines:
\* one that asks for a dump, in any spelling, does not run the program unless it
\* also asks for the VM's; one that does not ask for a dump, or asks for the VM's
\* too, ends well only by running the program to its end, or after the usage was
\* printed (the early returns of main).
RunsWhenAsked ==
  /\ Did("execution") =>
       /\ input = IF Meaning.positional = <<>> \/ Meaning.positional[1].form = "dash" THEN <<>>
                  ELSE <<Meaning.positional[1]>>
       /\ ~IsMissing
       /\ ~DisputedExit => AskedForVm \/ ~AskedForDump
  /\ exit = "success" /\ ~Did("usage") /\ ~DisputedExit =>
       (Did("execution") <=> AskedForVm \/ ~AskedForDump)

\* The place of an effect in the order of the stages.
Rank(effect) ==
  LET order == <<"usage", "ast", "graph", "bytecode", "execution">>
  IN  CHOOSE r \in DOMAIN order : order[r] = effect

\* The dumps come in the order of the stages, each once and before the program
\* runs, so that nothing a program prints stands in front of them; whatever fails,
\* the dumps that were asked for and that precede it have been written.
DumpsInOrder ==
  /\ \A k, l \in DOMAIN effects : k < l => Rank(effects[k]) < Rank(effects[l])
  /\ failure \in {"compiler", "runtime"} /\ Asked("debug-ast") => Did("ast")
  /\ failure = "runtime" /\ Asked("debug-bytecode") => Did("bytecode")

\* The command line and the stages before the program's own execution end.
GetsToRun == <>(stage \in {"execute", "exited"})
=============================================================================
