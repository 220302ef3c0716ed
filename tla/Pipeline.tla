------------------------------- MODULE Pipeline -------------------------------
(***************************************************************************)
(* The stages put together: loxo_main with a real lexer and a real parser.  *)
(* Driver's tokenize is the lexer's load and lex, its parse is the parser's *)
(* set_views and parse on the tokens that the lexer left; what the          *)
(* interpreter makes of a tree stays Driver's Run.                          *)
(***************************************************************************)
EXTENDS Driver

CONSTANTS
  Sources,     \* the texts that a file may have, as in Lexer
  MaxDigits,   \* as in Lexer
  MaxList,     \* as in Parser
  CanPrint(_), \* can `parse` write this tree? Printer's Printable says it
  MayThrow(_)  \* is a call in it whose callee cannot be written? Printer's
               \* CallsUnprintable says it

ASSUME MaxListAssumption == MaxList \in Nat

VARIABLES
  contents, cursor, current_line, tokens, error_count, lexing, calls,   \* Lexer's
  source, read, ahead, todo, built, status, at                          \* Parser's

lexerVars == <<contents, cursor, current_line, tokens, error_count, lexing, calls>>
parserVars == <<source, read, ahead, todo, built, status, at>>
pipelineVars == <<vars, lexerVars, parserVars>>

\* tokenize calls load once, and then lex once
L == INSTANCE Lexer WITH MaxCalls <- 2
\* the parser is given the tokens of the lexer and no other
P == INSTANCE Parser WITH Sources <- {}

-----------------------------------------------------------------------------
(* What the parser sees of a token.                                         *)

KindOfLexeme ==
  LET Kinds == {
    <<<<"(">>, "kLeftParen">>, <<<<")">>, "kRightParen">>,
    <<<<"{">>, "kLeftBrace">>, <<<<"}">>, "kRightBrace">>,
    <<<<",">>, "kComma">>, <<<<"+">>, "kPlus">>, <<<<";">>, "kSemicolon">>,
    <<<<"/">>, "kSlash">>, <<<<"!">>, "kBang">>, <<<<"!", "=">>, "kBangEqual">>,
    <<<<"=">>, "kEqual">>, <<<<"=", "=">>, "kEqualEqual">>,
    <<<<"o", "r">>, "kOr">>, <<<<"f", "u", "n">>, "kFun">>}
  IN [lexeme \in {k[1] : k \in Kinds} |-> (CHOOSE k \in Kinds : k[1] = lexeme)[2]]

KindOf(token) ==
  LET lexeme == SubSeq(contents, token.from, token.to - 1) IN
  CASE token.type = "kEndOfFile" -> P!Eof
    [] token.type = "identifier" -> "kIdentifier"
    [] token.type = "string"     -> "kString"
    [] token.type = "number"     -> "kNumber"
    [] token.type \in {"single", "pairing", "slash", "keyword"} /\ lexeme \in DOMAIN KindOfLexeme
         -> KindOfLexeme[lexeme]
    [] OTHER -> P!Other

\* Mutant: `parse` takes a program, as its name says.
MutantPolicy == IF command = "evaluate" THEN "kExpression" ELSE "kStatement"

\* parse's choice of a policy
Policy == IF command = "interpret" THEN "kStatement" ELSE "kExpression"

Views == [policy |-> Policy, kinds |-> [i \in 1 .. Len(tokens) |-> {KindOf(tokens[i])}]]

-----------------------------------------------------------------------------
(* tokenize                                                                 *)

Tokenizing == stage = "lex" /\ command \in NeedsLex /\ files = 1

NoLexing ==
  /\ stage = "lex" /\ ~ Tokenizing
  /\ stage' = "lexed"
  /\ lex_result' = IF command \in NeedsLex THEN "emptyInput" ELSE lex_result
  /\ UNCHANGED <<command, files, lexer, parse_result, run_result, output, error, exit>>
  /\ UNCHANGED <<lexerVars, parserVars>>

FailLoad ==
  /\ Tokenizing /\ calls = 0
  /\ stage' = "lexed"
  /\ lexer' = "none" /\ lex_result' = "notFound"
  /\ UNCHANGED <<command, files, parse_result, run_result, output, error, exit>>
  /\ UNCHANGED <<lexerVars, parserVars>>

LoadFile ==
  /\ Tokenizing /\ calls = 0
  /\ L!Load(FALSE)
  /\ UNCHANGED <<vars, parserVars>>

LexerStep ==
  /\ Tokenizing
  /\ \/ calls = 1 /\ L!Lex
     \/ L!NextToken
     \/ L!EndLex
  /\ UNCHANGED <<vars, parserVars>>

EndTokenize ==
  /\ Tokenizing /\ calls = 2 /\ ~ lexing
  /\ stage' = "lexed"
  /\ lexer' = IF Len(tokens) = 1 THEN "eof" ELSE "some"
  /\ lex_result' = IF error_count = 0 THEN "ok" ELSE "lexError"
  /\ UNCHANGED <<command, files, parse_result, run_result, output, error, exit>>
  /\ UNCHANGED <<lexerVars, parserVars>>

-----------------------------------------------------------------------------
(* parse                                                                    *)

Parsing == stage = "lexed" /\ command \in NeedsParse

NoParsing ==
  /\ stage = "lexed" /\ command = "other"
  /\ stage' = "parsed"
  /\ UNCHANGED <<command, files, lexer, lex_result, parse_result, run_result, output, error, exit>>
  /\ UNCHANGED <<lexerVars, parserVars>>

\* the lexer is looked at without asking whether there is one
NoLexer ==
  /\ Parsing /\ lexer = "null"
  /\ Crash
  /\ UNCHANGED <<command, files, lexer, lex_result, parse_result, run_result, output, error>>
  /\ UNCHANGED <<lexerVars, parserVars>>

ParserStep ==
  /\ Parsing /\ lexer # "null"
  /\ \/ P!SetViews(Views)
     \/ P!Step /\ UNCHANGED source
  /\ UNCHANGED <<vars, lexerVars>>

EndParse ==
  /\ Parsing
  /\ \/ /\ status \in {"ok", "error"}
        /\ stage' = "parsed"
        /\ parse_result' = IF status = "ok" THEN "ok" ELSE "parseError"
        /\ UNCHANGED exit
     \/ status = "crashed" /\ Crash /\ UNCHANGED parse_result
  /\ UNCHANGED <<command, files, lexer, lex_result, run_result, output, error>>
  /\ UNCHANGED <<lexerVars, parserVars>>

-----------------------------------------------------------------------------
\* what loxo_main does itself; whether a tree can be printed the tree says, and
\* whether a program that runs may throw
MainStep ==
  /\ \/ Begin \/ ReportTokens \/ ParseFailed \/ ReportRun \/ CommandNotFound
     \/ ReportTree /\ (stage' = "crashed" <=> ~ CanPrint(built[1]))
     \/ Run /\ (stage' = "crashed" => MayThrow(built[1]))
  /\ UNCHANGED <<lexerVars, parserVars>>

PipelineInit == Init /\ L!Init /\ P!Init

PipelineStep ==
  \/ NoLexing \/ FailLoad \/ LexerStep \/ EndTokenize
  \/ NoParsing \/ NoLexer \/ ParserStep \/ EndParse
  \/ MainStep

PipelineNext == LoadFile \/ PipelineStep \/ (Ended /\ UNCHANGED <<lexerVars, parserVars>>)

PipelineSpec == PipelineInit /\ [][PipelineNext]_pipelineVars

\* the program runs on one thread until it exits; loading a file, which FailLoad
\* stands for here, ends in one way or the other
FairPipeline == PipelineSpec /\ WF_pipelineVars(PipelineStep)

-----------------------------------------------------------------------------
\* The stages together do what Driver says of them: among others, that an error
\* of the lexer leaves a token, that of no tokens but the end of file there is a
\* program and no expression, and that the parser runs past the end of the tokens
\* only where Driver has it so.
ImplementsDriver == Spec

\* Every command ends: lex() and parse() return, and no stage waits for another, or
\* goes round in circles on what another left.
CommandEnds == <>(stage \in {"done", "crashed"})

Parsed == stage = "parsed" /\ command \in NeedsParse /\ tokens # <<>>

\* An interpreted program is the whole source: the parser accepts it with its
\* cursor on the last token, which is the end of file.
WholeSourceRead ==
  Parsed /\ parse_result = "ok" /\ command = "interpret" =>
    /\ Len(read) = Len(tokens) - 1
    /\ tokens[Len(tokens)].type = "kEndOfFile"

FollowsAny(i, kinds) == i > 1 /\ KindOf(tokens[i - 1]) \in kinds

\* What the lexer rejected the parser does not let through, although nobody has
\* told it of the error: no such token is in what it accepted, nor before the one
\* that its error names.  Excepted are the name of a function, which it does not
\* look at, and a parameter, whose error names the next token.
ErrorsNotParsed ==
  Parsed =>
    \A i \in 1 .. IF parse_result = "ok" THEN Len(read) ELSE at - 1 :
      i <= Len(tokens) /\ tokens[i].type = "kLexError" =>
        \/ FollowsAny(i, {"kFun"})
        \/ parse_result = "parseError" /\ i = at - 1 /\ FollowsAny(i, {"kLeftParen", "kComma"})

\* The program is accepted and runs.
Running == command = "interpret" /\ status = "ok"

\* Only these crash without having run anything: two files; an expression in a
\* file that cannot be read; a text that ends in the middle of a function's head;
\* and for `parse` alone, which has to print the tree, a text with an assignment
\* or a bracket in it.
ReadingCrashesKnown ==
  stage = "crashed" /\ ~ Running =>
    \/ files # 1
    \/ tokens = <<>> /\ command # "interpret"
    \/ /\ command = "interpret" /\ FollowsAny(Len(tokens), {"kFun", "kLeftParen", "kComma"})
       /\ \E i \in 1 .. Len(tokens) : KindOf(tokens[i]) = "kFun"
    \/ /\ command = "parse"
       /\ \E i \in 1 .. Len(tokens) : KindOf(tokens[i]) \in {"kEqual", "kLeftParen"}

\* A program that crashes while it runs calls what a bracket ends, `f()(x)` or
\* `(f = g)(x)`: the message of a failed call can show every other callee.
RunningCrashesKnown ==
  stage = "crashed" /\ Running =>
    \E i \in 1 .. Len(tokens) :
      KindOf(tokens[i]) = "kLeftParen" /\ FollowsAny(i, {"kRightParen"})

\* The message of a rejected source names one of its tokens; only when the end of
\* file stands for a function's name or a parameter it names what comes after.
ErrorNamesToken ==
  Parsed /\ parse_result = "parseError" =>
    \/ at \in 1 .. Len(tokens)
    \/ at = Len(tokens) + 1 /\ FollowsAny(Len(tokens), {"kFun", "kLeftParen", "kComma"})
=============================================================================
