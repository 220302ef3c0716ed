-------------------------------- MODULE Driver --------------------------------
(***************************************************************************)
(* loxo_main of shared/loxo_driver.cpp, on the ExecutionContext of          *)
(* shared/execution_context.hpp: the stages a command goes through, what    *)
(* one leaves for the next, and the exit code.                              *)
(*                                                                         *)
(* A stage's result is any that its own module (Lexer, Parser, Interpreter) *)
(* shows possible for what it is given.  Builds without AC_CPP_DEBUG are    *)
(* modelled (contract_assert is empty).                                     *)
(***************************************************************************)
EXTENDS Integers, Sequences

CONSTANTS
  MaxFiles    \* bound: input files on the command line

ASSUME MaxFilesAssumption == MaxFiles \in Nat

\* ExecutionContext::commands_t; "other" stands for help, repl, stdin, version
\* and test, which need no stage
Commands == {"lex", "parse", "evaluate", "interpret", "other"}
NoCommand == "none"           \* none given, or one that addCommands does not know
NeedsLex == {"lex", "parse", "evaluate", "interpret"}
NeedsParse == {"parse", "evaluate", "interpret"}

Results == {"ok", "emptyInput", "notFound", "lexError", "parseError", "runtimeError",
            "returning"}

VARIABLES
  command,
  files,         \* how many input files there are
  lexer,         \* "null", or the tokens it has: none, only the end of file, or more
  lex_result, parse_result, run_result,
  output, error, \* what the streams have been given, by stage
  stage,         \* what loxo_main does next
  exit           \* its result

vars == <<command, files, lexer, lex_result, parse_result, run_result, output, error,
          stage, exit>>

Exit(code) == stage' = "done" /\ exit' = code

\* a null pointer or a token that is not there is used, or nobody catches what is thrown
Crash == stage' = "crashed" /\ UNCHANGED exit

-----------------------------------------------------------------------------
\* what main and inspectArgs make of the command line
Init ==
  /\ command \in Commands \cup {NoCommand}
  /\ files \in 0 .. MaxFiles
  /\ lexer = "null"
  /\ lex_result = "ok" /\ parse_result = "ok" /\ run_result = "ok"
  /\ output = <<>> /\ error = <<>>
  /\ stage = "begin"
  /\ exit = -1

Begin ==
  /\ stage = "begin"
  /\ IF command = NoCommand \/ files = 0
     THEN Exit(1)
     ELSE stage' = "lex" /\ UNCHANGED exit
  /\ UNCHANGED <<command, files, lexer, lex_result, parse_result, run_result, output, error>>

\* tokenize: show_msg makes no lexer; a lexer that cannot load has no tokens
Tokenize ==
  /\ stage = "lex"
  /\ stage' = "lexed"
  /\ IF command \in NeedsLex
     THEN \/ files # 1 /\ lex_result' = "emptyInput" /\ UNCHANGED lexer
          \/ files = 1 /\ lex_result' = "notFound" /\ lexer' = "none"
          \/ files = 1 /\ lex_result' = "ok" /\ lexer' \in {"eof", "some"}
          \/ files = 1 /\ lex_result' = "lexError" /\ lexer' = "some"
     ELSE UNCHANGED <<lexer, lex_result>>
  /\ UNCHANGED <<command, files, parse_result, run_result, output, error, exit>>

\* Mutant: the exit code does not tell of errors.
MutantReportTokens ==
  /\ stage = "lexed" /\ command = "lex"
  /\ IF lexer = "null"
     THEN Crash /\ UNCHANGED <<output, error>>
     ELSE /\ error' = IF lex_result = "lexError" THEN Append(error, "lex") ELSE error
          /\ output' = IF lexer = "none" THEN output ELSE Append(output, "lex")
          /\ Exit(0)
  /\ UNCHANGED <<command, files, lexer, lex_result, parse_result, run_result>>

\* the lex command ends here
ReportTokens ==
  /\ stage = "lexed" /\ command = "lex"
  /\ IF lexer = "null"
     THEN Crash /\ UNCHANGED <<output, error>>
     ELSE /\ error' = IF lex_result = "lexError" THEN Append(error, "lex") ELSE error
          /\ output' = IF lexer = "none" THEN output ELSE Append(output, "lex")
          /\ Exit(IF lex_result = "ok" THEN 0 ELSE 65)
  /\ UNCHANGED <<command, files, lexer, lex_result, parse_result, run_result>>

\* how the parser may end, given the lexer's tokens (module Parser): a program
\* may be empty, an expression may not
ParseResults ==
  IF lexer = "some" THEN {"ok", "parseError"}
  ELSE IF command = "interpret" THEN {"ok"} ELSE {"parseError"}

\* of these tokens get() may be asked for one more than there are (Parser's
\* Overrun): the first one of an expression, or what follows a last `fun`
Overruns == IF command = "interpret" THEN lexer = "some" ELSE lexer = "none"

\* parse, the result of tokenize unseen
Parse ==
  /\ stage = "lexed" /\ command # "lex"
  /\ IF command \in NeedsParse
     THEN \/ (lexer = "null" \/ Overruns) /\ Crash /\ UNCHANGED parse_result
          \/ lexer # "null" /\ stage' = "parsed" /\ parse_result' \in ParseResults /\ UNCHANGED exit
     ELSE stage' = "parsed" /\ UNCHANGED <<parse_result, exit>>
  /\ UNCHANGED <<command, files, lexer, lex_result, run_result, output, error>>

\* Mutant: the message of a parse error is not written.
MutantParseFailed ==
  /\ stage = "parsed" /\ parse_result # "ok"
  /\ Exit(65)
  /\ UNCHANGED <<command, files, lexer, lex_result, parse_result, run_result, output, error>>

ParseFailed ==
  /\ stage = "parsed" /\ parse_result # "ok"
  /\ error' = Append(error, "parse")
  /\ Exit(65)
  /\ UNCHANGED <<command, files, lexer, lex_result, parse_result, run_result, output>>

\* not every tree can be printed: what to_string throws nobody catches
ReportTree ==
  /\ stage = "parsed" /\ parse_result = "ok" /\ command = "parse"
  /\ \/ output' = Append(output, "parse") /\ Exit(0)
     \/ Crash /\ UNCHANGED output
  /\ UNCHANGED <<command, files, lexer, lex_result, parse_result, run_result, error>>

\* evaluate and interpret: a new interpreter; only statements can return, and
\* there must be one that fails.  Nobody catches what to_string throws when the
\* message of a call with the wrong number of arguments would show its callee;
\* what evaluate is given has nothing to call.
Run ==
  /\ stage = "parsed" /\ parse_result = "ok" /\ command \in {"evaluate", "interpret"}
  /\ \/ /\ stage' = "run"
        /\ run_result' \in IF command = "evaluate" THEN {"ok", "runtimeError"}
                           ELSE IF lexer = "some" THEN {"ok", "runtimeError", "returning"}
                           ELSE {"ok"}
        /\ UNCHANGED exit
     \/ command = "interpret" /\ lexer = "some" /\ Crash /\ UNCHANGED run_result
  /\ UNCHANGED <<command, files, lexer, lex_result, parse_result, output, error>>

\* Mutant: the exit code of a program that fails is its status code.
MutantReportRun ==
  /\ stage = "run"
  /\ output' = IF command = "interpret" \/ run_result = "ok" THEN Append(output, "run") ELSE output
  /\ error' = IF run_result = "ok" THEN error ELSE Append(error, "run")
  /\ Exit(CASE run_result = "ok" -> 0 [] run_result = "returning" -> 12 [] OTHER -> 6)
  /\ UNCHANGED <<command, files, lexer, lex_result, parse_result, run_result>>

\* interpret writes what was printed before an error too, evaluate only a value
ReportRun ==
  /\ stage = "run"
  /\ output' = IF command = "interpret" \/ run_result = "ok" THEN Append(output, "run") ELSE output
  /\ error' = IF run_result = "ok" THEN error ELSE Append(error, "run")
  /\ Exit(IF run_result = "ok" THEN 0 ELSE 70)
  /\ UNCHANGED <<command, files, lexer, lex_result, parse_result, run_result>>

\* onCommandNotFound: kCommandNotFound is the exit code
CommandNotFound ==
  /\ stage = "parsed" /\ command = "other"
  /\ Exit(7)
  /\ UNCHANGED <<command, files, lexer, lex_result, parse_result, run_result, output, error>>

Ended == stage \in {"done", "crashed"} /\ UNCHANGED vars

Next ==
  \/ Begin \/ Tokenize \/ ReportTokens
  \/ Parse \/ ParseFailed \/ ReportTree
  \/ Run \/ ReportRun \/ CommandNotFound \/ Ended

Spec == Init /\ [][Next]_vars

-----------------------------------------------------------------------------
\* Type invariant.
TypeOK ==
  /\ command \in Commands \cup {NoCommand} /\ files \in 0 .. MaxFiles
  /\ lexer \in {"null", "none", "eof", "some"}
  /\ {lex_result, parse_result, run_result} \subseteq Results
  /\ output \in Seq({"lex", "parse", "run"}) /\ error \in Seq({"lex", "parse", "run"})
  /\ stage \in {"begin", "lex", "lexed", "parsed", "run", "done", "crashed"}
  /\ exit \in {-1, 0, 1, 7, 65, 70}

\* The exit code tells which stage failed: 65 the source, 70 the program, and 0
\* neither - but for what tokenize found, which only the lex command looks at.
ExitCodeTells ==
  stage = "done" =>
    /\ exit = 0 => parse_result = "ok" /\ run_result = "ok" /\ (command = "lex" => lex_result = "ok")
    /\ exit = 65 => parse_result # "ok" \/ lex_result # "ok"
    /\ exit = 70 <=> run_result # "ok"

\* A failure is written to the error stream, and nothing else is; only a file
\* that cannot be loaded fails the lex command without a word.
FailuresReported ==
  stage = "done" =>
    /\ exit = 0 => error = <<>>
    /\ exit \in {65, 70} => Len(error) = 1 \/ (command = "lex" /\ lexer = "none")

\* set_views' assertion: "tokens must have at least 1 token and ends with EOF".
ParserGetsTokens ==
  stage = "lexed" /\ command \in NeedsParse /\ lexer # "null" => lexer \in {"eof", "some"}
=============================================================================
