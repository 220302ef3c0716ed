---------------------------- MODULE PipelineProofs ----------------------------
(***************************************************************************)
(* What Driver promises, and that Pipeline implements Driver, for texts of  *)
(* any length: what the lexer and the parser leave is what Driver lets each *)
(* stage leave.  With it, what Pipeline promises of the tokens that a parse *)
(* accepts or names, and of what it crashes on.                             *)
(*                                                                         *)
(* What is said of Pipeline rests on one invariant of the parser's work:    *)
(* which items may come where in todo, given the tokens read, and so where  *)
(* get() may run past the end of file.  What is said of crashes needs the   *)
(* invariant of ParserProofs too.                                           *)
(***************************************************************************)
EXTENDS Pipeline, FiniteSetTheorems, SequenceTheorems, TLAPS

-----------------------------------------------------------------------------
(* Driver: what the exit code and the error stream tell, for any number of   *)
(* input files.                                                             *)

\* What each stage has left when loxo_main gets to the next: no result is other
\* than "ok" before its stage has run, and nothing is written before the end.
Reached(stages) == stage \in stages

StagesInv ==
  /\ Reached({"begin", "lex"}) => lex_result = "ok" /\ lexer = "null"
  /\ Reached({"begin", "lex", "lexed"}) => parse_result = "ok"
  /\ Reached({"begin", "lex", "lexed", "parsed"}) => run_result = "ok"
  /\ Reached({"run"}) => parse_result = "ok" /\ command \in {"evaluate", "interpret"}
  /\ ~ Reached({"done", "crashed"}) => output = <<>> /\ error = <<>> /\ exit = -1
  /\ lex_result = "notFound" => lexer = "none"
  /\ lex_result # "ok" => lex_result \in {"emptyInput", "notFound", "lexError"}
  /\ lex_result = "emptyInput" /\ command = "lex" => lexer = "null"
  /\ lexer = "none" => lex_result = "notFound"

Inv == TypeOK /\ StagesInv /\ ExitCodeTells /\ FailuresReported

\* the one line that is written
LEMMA OneLine ==
  \A s \in {"lex", "parse", "run"} :
    /\ Append(<<>>, s) \in Seq({"lex", "parse", "run"})
    /\ Len(Append(<<>>, s)) = 1
    /\ Append(<<>>, s) # <<>>
  OBVIOUS

LEMMA InitInv == Init => Inv
  BY MaxFilesAssumption DEF Init, Inv, TypeOK, StagesInv, ExitCodeTells, FailuresReported,
     Results, Commands, Reached

LEMMA NextInv == Inv /\ [Next]_vars => Inv'
<1> SUFFICES ASSUME Inv, [Next]_vars PROVE Inv'
  OBVIOUS
<1> USE DEF Inv, TypeOK, StagesInv, ExitCodeTells, FailuresReported, Results, Commands,
            Reached, Crash, Exit
<1>1. CASE Begin
  BY <1>1 DEF Begin
<1>2. CASE Tokenize
  <2>1. TypeOK'
    BY <1>2, OneLine DEF Tokenize, NeedsLex
  <2>2. StagesInv'
    BY <1>2 DEF Tokenize, NeedsLex
  <2>3. ExitCodeTells'
    BY <1>2 DEF Tokenize, NeedsLex
  <2>4. FailuresReported'
    BY <1>2, OneLine DEF Tokenize, NeedsLex
  <2> QED
    BY <2>1, <2>2, <2>3, <2>4
<1>3. CASE ReportTokens
  <2>1. TypeOK'
    BY <1>3, OneLine DEF ReportTokens
  <2>2. StagesInv'
    BY <1>3 DEF ReportTokens
  <2>3. ExitCodeTells'
    BY <1>3 DEF ReportTokens
  <2>4. FailuresReported'
    BY <1>3, OneLine DEF ReportTokens
  <2> QED
    BY <2>1, <2>2, <2>3, <2>4
<1>4. CASE Parse
  BY <1>4 DEF Parse, ParseResults, Overruns, NeedsParse
<1>5. CASE ParseFailed
  BY <1>5, OneLine DEF ParseFailed
<1>6. CASE ReportTree
  <2>1. TypeOK'
    BY <1>6, OneLine DEF ReportTree
  <2>2. StagesInv'
    BY <1>6 DEF ReportTree
  <2>3. ExitCodeTells'
    BY <1>6 DEF ReportTree
  <2>4. FailuresReported'
    BY <1>6, OneLine DEF ReportTree
  <2> QED
    BY <2>1, <2>2, <2>3, <2>4
<1>7. CASE Run
  <2>1. CASE stage' = "run"
    BY <1>7, <2>1 DEF Run
  <2>2. CASE stage' = "crashed" /\ UNCHANGED run_result /\ UNCHANGED exit
    BY <1>7, <2>2 DEF Run
  <2> QED
    BY <1>7, <2>1, <2>2 DEF Run
<1>8. CASE ReportRun
  <2>1. TypeOK'
    BY <1>8, OneLine DEF ReportRun
  <2>2. StagesInv'
    BY <1>8 DEF ReportRun
  <2>3. ExitCodeTells'
    BY <1>8 DEF ReportRun
  <2>4. FailuresReported'
    BY <1>8, OneLine DEF ReportRun
  <2> QED
    BY <2>1, <2>2, <2>3, <2>4
<1>9. CASE CommandNotFound
  BY <1>9 DEF CommandNotFound
<1>10. CASE Ended \/ UNCHANGED vars
  BY <1>10 DEF Ended, vars
<1> QED
  BY <1>1, <1>2, <1>3, <1>4, <1>5, <1>6, <1>7, <1>8, <1>9, <1>10 DEF Next

LEMMA Invariance == Spec => []Inv
  BY InitInv, NextInv, PTL DEF Spec

-----------------------------------------------------------------------------
\* Type correctness: in particular the only exit codes are 0, 1, 7, 65 and 70.
THEOREM DriverTypeCorrect == Spec => []TypeOK
<1>1. Inv => TypeOK
  BY DEF Inv
<1> QED
  BY Invariance, <1>1, PTL

\* loxo_main's exit code tells which stage failed, but for what only the lex
\* command looks at.
THEOREM ExitCodesTell == Spec => []ExitCodeTells
<1>1. Inv => ExitCodeTells
  BY DEF Inv
<1> QED
  BY Invariance, <1>1, PTL

\* loxo_main writes a failure to the error stream once, and nothing else.
THEOREM FailuresAreReported == Spec => []FailuresReported
<1>1. Inv => FailuresReported
  BY DEF Inv
<1> QED
  BY Invariance, <1>1, PTL

-----------------------------------------------------------------------------
(* Sequences.                                                               *)

IsSeq(s) == \E S : s \in Seq(S)

LEMMA SeqLength == ASSUME NEW s, IsSeq(s) PROVE Len(s) \in Nat /\ (s = <<>> <=> Len(s) = 0)
<1>1. PICK S : s \in Seq(S)
  BY DEF IsSeq
<1> QED BY <1>1, LenProperties, EmptySeq

LEMMA Appending ==
  ASSUME NEW s, IsSeq(s), NEW x
  PROVE  /\ IsSeq(Append(s, x)) /\ Len(Append(s, x)) = Len(s) + 1
         /\ Append(s, x)[Len(s) + 1] = x
         /\ \A i \in 1 .. Len(s) : Append(s, x)[i] = s[i]
<1>1. PICK S : s \in Seq(S)
  BY DEF IsSeq
<1>2. s \in Seq(S \cup {x}) /\ x \in S \cup {x}
  BY <1>1, SeqMonotonic
<1>3. /\ Append(s, x) \in Seq(S \cup {x}) /\ Len(Append(s, x)) = Len(s) + 1
      /\ Append(s, x)[Len(s) + 1] = x
      /\ \A i \in 1 .. Len(s) : Append(s, x)[i] = s[i]
  BY <1>2, AppendProperties
<1> QED BY <1>3 DEF IsSeq

\* The first item gives way to the items u.
LEMMA GivingWay ==
  ASSUME NEW s, IsSeq(s), s # <<>>, NEW u, IsSeq(u)
  PROVE  /\ IsSeq(u \o Tail(s)) /\ Len(u \o Tail(s)) = Len(u) + Len(s) - 1
         /\ Head(s) = s[1]
         /\ \A i \in 1 .. Len(u) : (u \o Tail(s))[i] = u[i]
         /\ \A i \in 1 .. Len(s) - 1 : (u \o Tail(s))[Len(u) + i] = s[i + 1]
<1>1. PICK S, T : s \in Seq(S) /\ u \in Seq(T)
  BY DEF IsSeq
<1>2. s \in Seq(S \cup T) /\ u \in Seq(S \cup T)
  BY <1>1, SeqMonotonic
<1>3. /\ Tail(s) \in Seq(S \cup T) /\ Len(Tail(s)) = Len(s) - 1
      /\ \A i \in 1 .. Len(Tail(s)) : Tail(s)[i] = s[i + 1]
  BY <1>2, HeadTailProperties
<1>4. Len(u) \in Nat /\ Len(s) \in Nat /\ Len(s) >= 1
  BY <1>2, LenProperties, EmptySeq
<1>5. /\ u \o Tail(s) \in Seq(S \cup T) /\ Len(u \o Tail(s)) = Len(u) + Len(Tail(s))
      /\ \A i \in 1 .. Len(u) + Len(Tail(s)) :
           (u \o Tail(s))[i] = IF i <= Len(u) THEN u[i] ELSE Tail(s)[i - Len(u)]
  BY <1>2, <1>3, ConcatProperties
<1>6. \A i \in 1 .. Len(u) : (u \o Tail(s))[i] = u[i]
  BY <1>3, <1>4, <1>5
<1>7. ASSUME NEW i \in 1 .. Len(s) - 1 PROVE (u \o Tail(s))[Len(u) + i] = s[i + 1]
  <2>1. /\ Len(u) + i \in 1 .. Len(u) + Len(Tail(s)) /\ ~ (Len(u) + i <= Len(u))
        /\ (Len(u) + i) - Len(u) = i /\ i \in 1 .. Len(Tail(s))
    BY <1>3, <1>4
  <2> QED BY <1>3, <1>5, <2>1
<1> QED BY <1>2, <1>3, <1>5, <1>6, <1>7 DEF IsSeq

-----------------------------------------------------------------------------
(* The items a function may leave to do, and where they may come.           *)

Unseen == {P!Other, P!Eof, P!Past}

\* what parsing an expression consists of
ExprFunctions ==
  P!Levels \cup {"next_expression", "assignment", "assigned?", "assigned!", "unary", "call",
                 "primary", "get_args"}
ExprItem(it) ==
  \/ it.do = "call" /\ it.what \in ExprFunctions
  \/ it.do = "loop" /\ it.what \in P!Levels \cup {"calls", "get_args", "end of list"}
  \/ it.do \in {"expect", "make"}

\* what may come anywhere in todo
OnTopOnly == {"function_decl", "get_params", "parameter", "throw"}
Anywhere(it) == it.do \notin {"take", "skip"} /\ (it.do = "call" => it.what \notin OnTopOnly)

\* e says that an expression is parsed
Suits(it, e) == it.kind \notin Unseen /\ (IF e THEN ExprItem(it) ELSE Anywhere(it))
Fine(u, e) == IsSeq(u) /\ \A i \in 1 .. Len(u) : Suits(u[i], e)

LEMMA Fine0 == ASSUME NEW e PROVE Fine(<<>>, e)
<1>1. IsSeq(<<>>) /\ Len(<<>>) = 0
  BY EmptySeq DEF IsSeq
<1> QED BY <1>1 DEF Fine

LEMMA Fine1 ==
  ASSUME NEW e, NEW a, Suits(a, e)
  PROVE  Fine(<<a>>, e)
<1> DEFINE u == <<a>>
<1>1. u \in Seq({a}) /\ Len(u) = 1 /\ u[1] = a
  OBVIOUS
<1> HIDE DEF u
<1>2. Fine(u, e)
  BY <1>1 DEF Fine, IsSeq
<1> QED BY <1>2 DEF u

LEMMA Fine2 ==
  ASSUME NEW e, NEW a, NEW b, Suits(a, e), Suits(b, e)
  PROVE  Fine(<<a, b>>, e)
<1> DEFINE u == <<a, b>>
<1>1. u \in Seq({a, b}) /\ Len(u) = 2 /\ u[1] = a /\ u[2] = b
  OBVIOUS
<1> HIDE DEF u
<1>2. Fine(u, e)
  BY <1>1 DEF Fine, IsSeq
<1> QED BY <1>2 DEF u

LEMMA Fine3 ==
  ASSUME NEW e, NEW a, NEW b, NEW c, Suits(a, e), Suits(b, e), Suits(c, e)
  PROVE  Fine(<<a, b, c>>, e)
<1> DEFINE u == <<a, b, c>>
<1>1. u \in Seq({a, b, c}) /\ Len(u) = 3 /\ u[1] = a /\ u[2] = b /\ u[3] = c
  OBVIOUS
<1> HIDE DEF u
<1>2. Fine(u, e)
  BY <1>1 DEF Fine, IsSeq
<1> QED BY <1>2 DEF u

LEMMA Fine4 ==
  ASSUME NEW e, NEW a, NEW b, NEW c, NEW d, Suits(a, e), Suits(b, e), Suits(c, e), Suits(d, e)
  PROVE  Fine(<<a, b, c, d>>, e)
<1> DEFINE u == <<a, b, c, d>>
<1>1. u \in Seq({a, b, c, d}) /\ Len(u) = 4 /\ u[1] = a /\ u[2] = b /\ u[3] = c /\ u[4] = d
  OBVIOUS
<1> HIDE DEF u
<1>2. Fine(u, e)
  BY <1>1 DEF Fine, IsSeq
<1> QED BY <1>2 DEF u

LEMMA Fine8 ==
  ASSUME NEW e, NEW a, NEW b, NEW c, NEW d, NEW f, NEW g, NEW h, NEW i,
         Suits(a, e), Suits(b, e), Suits(c, e), Suits(d, e),
         Suits(f, e), Suits(g, e), Suits(h, e), Suits(i, e)
  PROVE  Fine(<<a, b, c, d, f, g, h, i>>, e)
<1> DEFINE u == <<a, b, c, d, f, g, h, i>>
<1>1. /\ u \in Seq({a, b, c, d, f, g, h, i}) /\ Len(u) = 8
      /\ u[1] = a /\ u[2] = b /\ u[3] = c /\ u[4] = d
      /\ u[5] = f /\ u[6] = g /\ u[7] = h /\ u[8] = i
  OBVIOUS
<1> HIDE DEF u
<1>2. Fine(u, e)
  BY <1>1 DEF Fine, IsSeq
<1> QED BY <1>2 DEF u

LEMMA CallSuits ==
  ASSUME NEW f
  PROVE  /\ f \notin OnTopOnly => Suits(P!Call(f), FALSE)
         /\ f \in ExprFunctions => Suits(P!Call(f), TRUE)
  BY DEF Suits, ExprItem, Anywhere, Unseen, P!Call, P!Item, P!Other, P!Eof, P!Past

LEMMA TokenSuits ==
  ASSUME NEW k, k \notin Unseen
  PROVE  /\ \A e \in BOOLEAN : Suits(P!Expect(k), e)
         /\ Suits(P!Opt(k), FALSE) /\ Suits(P!Unless(k), FALSE)
         /\ \A node : \A e \in BOOLEAN : Suits(P!Make(node, k), e)
  BY DEF Suits, ExprItem, Anywhere, P!Expect, P!Opt, P!Unless, P!Make, P!Item

LEMMA LoopSuits ==
  ASSUME NEW l, NEW n
  PROVE  /\ Suits(P!Loop(l, n), FALSE)
         /\ l \in P!Levels \cup {"calls", "get_args", "end of list"} => Suits(P!Loop(l, n), TRUE)
  BY DEF Suits, ExprItem, Anywhere, Unseen, P!Loop, P!Item, P!Other, P!Eof, P!Past

LEMMA Kinds ==
  {"kLeftParen", "kRightParen", "kLeftBrace", "kRightBrace", "kComma", "kEqual", "kSemicolon",
   "kElse", "kVar", "kFun", "kIf", "kWhile", "kFor", "kReturn", "kPrint", ""} \cap Unseen = {}
  BY DEF Unseen, P!Other, P!Eof, P!Past

\* The body of each function but function_decl, whose name comes first.
LEMMA BodyFine ==
  /\ \A f \in {"next_expression", "assignment", "call"} : Fine(P!Body[f], TRUE)
  /\ \A f \in DOMAIN P!Body \ {"function_decl"} : Fine(P!Body[f], FALSE)
<1> USE Kinds, CallSuits, TokenSuits, LoopSuits
<1>1. ASSUME NEW e \in BOOLEAN PROVE Fine(P!Body.next_expression, e)
  BY Fine1 DEF P!Body, OnTopOnly, ExprFunctions
<1>2. ASSUME NEW e \in BOOLEAN PROVE Fine(P!Body.assignment, e)
  <2>1. Suits(P!Call("logical_or"), e) /\ Suits(P!Call("assigned?"), e)
    BY DEF OnTopOnly, ExprFunctions, P!Levels, P!Ops
  <2> QED BY <2>1, Fine2 DEF P!Body
<1>3. ASSUME NEW e \in BOOLEAN PROVE Fine(P!Body.call, e)
  <2>1. Suits(P!Call("primary"), e) /\ Suits(P!Loop("calls", 0), e)
    BY DEF OnTopOnly, ExprFunctions
  <2> QED BY <2>1, Fine2 DEF P!Body
<1>4. Fine(P!Body.var_decl, FALSE)
  <2>1. /\ Suits(P!Call("identifier"), FALSE) /\ Suits(P!Opt("kEqual"), FALSE)
        /\ Suits(P!Expect("kSemicolon"), FALSE) /\ Suits(P!Make("Var", "kVar"), FALSE)
    BY DEF OnTopOnly
  <2> QED BY <2>1, Fine4 DEF P!Body
<1>5. Fine(P!Body.get_condition, FALSE)
  <2>1. /\ Suits(P!Expect("kLeftParen"), FALSE) /\ Suits(P!Call("next_expression"), FALSE)
        /\ Suits(P!Expect("kRightParen"), FALSE)
    BY DEF OnTopOnly
  <2> QED BY <2>1, Fine3 DEF P!Body
<1>6. Fine(P!Body.if_stmt, FALSE)
  <2>1. /\ Suits(P!Call("get_condition"), FALSE) /\ Suits(P!Call("next_statement"), FALSE)
        /\ Suits(P!Opt("kElse"), FALSE) /\ Suits(P!Make("If", "kIf"), FALSE)
    BY DEF OnTopOnly
  <2> QED BY <2>1, Fine4 DEF P!Body
<1>7. Fine(P!Body.block_stmt, FALSE)
  <2>1. Suits(P!Call("get_stmts"), FALSE) /\ Suits(P!Make("Block", "kLeftBrace"), FALSE)
    BY DEF OnTopOnly
  <2> QED BY <2>1, Fine2 DEF P!Body
<1>8. Fine(P!Body.while_stmt, FALSE)
  <2>1. /\ Suits(P!Call("get_condition"), FALSE) /\ Suits(P!Call("next_statement"), FALSE)
        /\ Suits(P!Make("While", "kWhile"), FALSE)
    BY DEF OnTopOnly
  <2> QED BY <2>1, Fine3 DEF P!Body
<1>9. Fine(P!Body.for_stmt, FALSE)
  <2>1. /\ Suits(P!Expect("kLeftParen"), FALSE) /\ Suits(P!Call("initializer"), FALSE)
        /\ Suits(P!Unless("kSemicolon"), FALSE) /\ Suits(P!Expect("kSemicolon"), FALSE)
        /\ Suits(P!Unless("kRightParen"), FALSE) /\ Suits(P!Expect("kRightParen"), FALSE)
        /\ Suits(P!Call("next_statement"), FALSE) /\ Suits(P!Make("For", "kFor"), FALSE)
    BY DEF OnTopOnly
  <2> QED BY <2>1, Fine8 DEF P!Body
<1>10. Fine(P!Body.return_stmt, FALSE)
  <2>1. /\ Suits(P!Unless("kSemicolon"), FALSE) /\ Suits(P!Expect("kSemicolon"), FALSE)
        /\ Suits(P!Make("Return", "kReturn"), FALSE)
    OBVIOUS
  <2> QED BY <2>1, Fine3 DEF P!Body
<1>11. Fine(P!Body.print_stmt, FALSE)
  <2>1. /\ Suits(P!Call("next_expression"), FALSE) /\ Suits(P!Expect("kSemicolon"), FALSE)
        /\ Suits(P!Make("Print", "kPrint"), FALSE)
    BY DEF OnTopOnly
  <2> QED BY <2>1, Fine3 DEF P!Body
<1>12. Fine(P!Body.expr_stmt, FALSE)
  <2>1. /\ Suits(P!Call("next_expression"), FALSE) /\ Suits(P!Expect("kSemicolon"), FALSE)
        /\ Suits(P!Make("Expression", ""), FALSE)
    BY DEF OnTopOnly
  <2> QED BY <2>1, Fine3 DEF P!Body
<1>13. DOMAIN P!Body = {"next_expression", "assignment", "call", "var_decl", "function_decl",
          "get_condition", "if_stmt", "block_stmt", "while_stmt", "for_stmt", "return_stmt",
          "print_stmt", "expr_stmt"}
  BY DEF P!Body
<1> QED BY <1>1, <1>2, <1>3, <1>4, <1>5, <1>6, <1>7, <1>8, <1>9, <1>10, <1>11, <1>12, <1>13

\* The last token read is one of these.
Ends(r, kinds) == Len(r) >= 1 /\ r[Len(r)] \in kinds

Opening == {"kLeftParen", "kComma"}

\* What may only be done next, and after which tokens: the name of a function and
\* its parameters, which are taken before they are looked at.
AtTop(s, r) ==
  \/ s[1] = P!Take /\ Len(s) >= 2 /\ s[2] = P!Expect("kLeftParen") /\ Ends(r, {"kFun"})
  \/ s[1] = P!Call("function_decl") /\ Ends(r, {"kFun"})
  \/ s[1] = P!Call("get_params") /\ Ends(r, {"kLeftParen"})
  \/ s[1] = P!Call("parameter") /\ Ends(r, Opening)
  \/ s[1] = P!Call("throw") /\ Len(r) >= 2 /\ r[Len(r) - 1] \in Opening

AfterBracket(s, i) == i > 1 /\ s[i] = P!Call("get_params") /\ s[i - 1] = P!Expect("kLeftParen")

Guarded(s, r) ==
  \A i \in 1 .. Len(s) :
    Suits(s[i], FALSE) \/ (i = 1 /\ AtTop(s, r)) \/ AfterBracket(s, i)

LEMMA FineFacts ==
  ASSUME NEW u, NEW e \in BOOLEAN, Fine(u, e), NEW r
  PROVE  IsSeq(u) /\ Guarded(u, r)
  BY DEF Fine, Guarded, Suits, ExprItem, Anywhere, ExprFunctions, OnTopOnly, P!Levels, P!Ops

LEMMA OneOnTop ==
  ASSUME NEW a, NEW r, AtTop(<<a>>, r)
  PROVE  IsSeq(<<a>>) /\ Guarded(<<a>>, r)
<1> DEFINE u == <<a>>
<1>1. u \in Seq({a}) /\ Len(u) = 1
  OBVIOUS
<1> HIDE DEF u
<1>2. AtTop(u, r)
  BY DEF u
<1>3. ASSUME NEW i \in 1 .. Len(u) PROVE i = 1 /\ AtTop(u, r)
  BY <1>1, <1>2
<1>4. IsSeq(u) /\ Guarded(u, r)
  BY <1>1, <1>3 DEF IsSeq, Guarded
<1> QED BY <1>4 DEF u

LEMMA FunctionGuarded ==
  ASSUME NEW r, Ends(r, {"kFun"})
  PROVE  IsSeq(P!Body.function_decl) /\ Guarded(P!Body.function_decl, r)
<1> DEFINE u == P!Body.function_decl
           paren == P!Expect("kLeftParen")
           params == P!Call("get_params")
           brace == P!Expect("kLeftBrace")
           stmts == P!Call("get_stmts")
           node == P!Make("Function", "kFun")
<1>1. /\ u \in Seq({P!Take, paren, params, brace, stmts, node}) /\ Len(u) = 6
      /\ u[1] = P!Take /\ u[2] = paren /\ u[3] = params /\ u[4] = brace /\ u[5] = stmts
      /\ u[6] = node
  BY DEF P!Body
<1>2. Suits(paren, FALSE) /\ Suits(brace, FALSE) /\ Suits(stmts, FALSE) /\ Suits(node, FALSE)
  BY Kinds, TokenSuits, CallSuits DEF OnTopOnly
<1>3. AtTop(u, r)
  BY <1>1 DEF AtTop
<1>4. AfterBracket(u, 3)
  BY <1>1 DEF AfterBracket
<1> HIDE DEF u, paren, params, brace, stmts, node
<1>5. ASSUME NEW i \in 1 .. Len(u)
      PROVE  Suits(u[i], FALSE) \/ (i = 1 /\ AtTop(u, r)) \/ AfterBracket(u, i)
  <2>1. i = 1 \/ i = 2 \/ i = 3 \/ i = 4 \/ i = 5 \/ i = 6
    BY <1>1
  <2> QED BY <1>1, <1>2, <1>3, <1>4, <2>1
<1>6. IsSeq(u) /\ Guarded(u, r)
  BY <1>1, <1>5 DEF IsSeq, Guarded
<1> QED BY <1>6 DEF u

LEMMA ParameterGuarded ==
  ASSUME NEW r, NEW a, NEW b, Ends(r, Opening), Suits(a, FALSE), Suits(b, FALSE)
  PROVE  /\ IsSeq(<<P!Call("parameter"), a>>) /\ Guarded(<<P!Call("parameter"), a>>, r)
         /\ IsSeq(<<P!Call("parameter"), a, b>>) /\ Guarded(<<P!Call("parameter"), a, b>>, r)
<1> DEFINE p == P!Call("parameter")
           u == <<p, a>>
           w == <<p, a, b>>
<1>1. /\ u \in Seq({p, a}) /\ Len(u) = 2 /\ u[1] = p /\ u[2] = a
      /\ w \in Seq({p, a, b}) /\ Len(w) = 3 /\ w[1] = p /\ w[2] = a /\ w[3] = b
  OBVIOUS
<1> HIDE DEF u, w
<1>2. AtTop(u, r) /\ AtTop(w, r)
  BY <1>1 DEF AtTop
<1> HIDE DEF p
<1>3. Guarded(u, r)
  <2>1. ASSUME NEW i \in 1 .. Len(u) PROVE Suits(u[i], FALSE) \/ (i = 1 /\ AtTop(u, r))
    <3>1. i = 1 \/ i = 2
      BY <1>1
    <3> QED BY <1>1, <1>2, <3>1
  <2> QED BY <2>1 DEF Guarded
<1>4. Guarded(w, r)
  <2>1. ASSUME NEW i \in 1 .. Len(w) PROVE Suits(w[i], FALSE) \/ (i = 1 /\ AtTop(w, r))
    <3>1. i = 1 \/ i = 2 \/ i = 3
      BY <1>1
    <3> QED BY <1>1, <1>2, <3>1
  <2> QED BY <2>1 DEF Guarded
<1> QED BY <1>1, <1>3, <1>4 DEF IsSeq, u, w, p

-----------------------------------------------------------------------------
(* What one step of parse() does with the tokens and the first item.        *)

IsLoop(it, l) == it.do = "loop" /\ it.what = l
IsCall(it, f) == it.do = "call" /\ it.what = f
AtProgram(it) == IsLoop(it, "parse") \/ IsLoop(it, "end of list")

\* the calls on the way from an expression to its first token
Descends(it) ==
  it.do = "call" /\ it.what \in P!Levels \cup {"next_expression", "assignment", "unary", "call",
                                               "primary"}

\* it gives way to u, and no token is taken
Stays(u) ==
  /\ todo # <<>> /\ IsSeq(u) /\ todo' = u \o Tail(todo)
  /\ read' = read /\ ahead' = ahead /\ status = "parsing" /\ status' = status /\ at' = at
  /\ P!Top.do \notin {"expect", "take", "skip"} /\ ~ IsCall(P!Top, "throw")
  /\ Guarded(u, read)
  /\ ExprItem(P!Top) => Fine(u, TRUE)
  /\ IsLoop(P!Top, "parse") =>
       IF P!AtEnd THEN Len(u) = 1 /\ IsLoop(u[1], "end of list") ELSE Len(u) = 2 /\ u[2] = P!Top
  /\ IsLoop(P!Top, "end of list") => u = <<>>
  /\ Descends(P!Top) /\ P!AtEnd => Len(u) >= 1 /\ Descends(u[1])

\* it gives way to u, and a token is taken that was looked at
Shifts(u) ==
  /\ todo # <<>> /\ IsSeq(u) /\ todo' = u \o Tail(todo)
  /\ P!Advance /\ status = "parsing" /\ status' = status /\ at' = at
  /\ ahead \notin Unseen
  /\ P!Top.do \notin {"take", "skip"} /\ ~ AtProgram(P!Top) /\ ~ IsCall(P!Top, "throw")
  /\ Guarded(u, read')
  /\ ExprItem(P!Top) => Fine(u, TRUE)
  /\ P!Top.do = "expect" => u = <<>> /\ ahead = P!Top.kind

\* the name of a function is taken, or what is in the place of a parameter
Takes ==
  /\ todo # <<>> /\ P!Top.do = "take" /\ todo' = <<>> \o Tail(todo)
  /\ P!Advance /\ status = "parsing" /\ status' = status /\ at' = at
Looks ==
  /\ todo # <<>> /\ IsCall(P!Top, "parameter") /\ todo' = <<P!Call("throw")>> \o Tail(todo)
  /\ P!Advance /\ status = "parsing" /\ status' = status /\ at' = at

Fails ==
  /\ todo # <<>> /\ P!Throw /\ status = "parsing"
  /\ P!Top.do # "skip" /\ ~ AtProgram(P!Top)

Moved ==
  \/ \E u : Stays(u) \/ Shifts(u)
  \/ Takes \/ Looks \/ Fails
  \/ P!Skip \/ P!Accept \/ P!Overrun

Ready == IsSeq(todo) /\ IsSeq(read) /\ Guarded(todo, read)

LEMMA FirstItem ==
  ASSUME Ready, todo # <<>>
  PROVE  /\ P!Top = todo[1] /\ Len(todo) \in Nat /\ Len(todo) >= 1
         /\ Suits(P!Top, FALSE) \/ AtTop(todo, read)
<1>1. P!Top = todo[1] /\ Len(todo) \in Nat /\ Len(todo) >= 1
  BY GivingWay, SeqLength, Fine0 DEF Ready, P!Top, Fine
<1>2. 1 \in 1 .. Len(todo) /\ ~ AfterBracket(todo, 1)
  BY <1>1 DEF AfterBracket
<1> QED BY <1>1, <1>2 DEF Ready, Guarded

\* What the first item tells of the tokens read, or of the one it is about.
LEMMA FirstTells ==
  ASSUME Ready, todo # <<>>
  PROVE  /\ P!Top.do \in {"expect", "opt"} => P!Top.kind \notin Unseen
         /\ P!Top.do = "take" => /\ Len(todo) >= 2 /\ todo[2] = P!Expect("kLeftParen")
                                 /\ Ends(read, {"kFun"})
         /\ IsCall(P!Top, "function_decl") => Ends(read, {"kFun"})
         /\ IsCall(P!Top, "get_params") => Ends(read, {"kLeftParen"})
         /\ IsCall(P!Top, "parameter") => Ends(read, Opening)
         /\ IsCall(P!Top, "throw") => Len(read) >= 2 /\ read[Len(read) - 1] \in Opening
         /\ P!Top.do # "skip"
         /\ P!Top.do \notin {"call", "take"} => Suits(P!Top, FALSE) /\ P!Top.kind \notin Unseen
<1>1. P!Top = todo[1]
  BY FirstItem
<1>2. CASE Suits(P!Top, FALSE)
  BY <1>2 DEF Suits, Anywhere, OnTopOnly, IsCall
<1>3. CASE AtTop(todo, read)
  <2>1. P!Take.do = "take" /\ \A f : P!Call(f).do = "call" /\ P!Call(f).what = f
    BY DEF P!Take, P!Call, P!Item
  <2>2. CASE P!Top = P!Take
    <3>1. Len(todo) >= 2 /\ todo[2] = P!Expect("kLeftParen") /\ Ends(read, {"kFun"})
      BY <1>1, <1>3, <2>1, <2>2 DEF AtTop
    <3> QED BY <2>1, <2>2, <3>1 DEF IsCall
  <2>3. CASE P!Top # P!Take
    <3>1. \/ P!Top = P!Call("function_decl") /\ Ends(read, {"kFun"})
          \/ P!Top = P!Call("get_params") /\ Ends(read, {"kLeftParen"})
          \/ P!Top = P!Call("parameter") /\ Ends(read, Opening)
          \/ P!Top = P!Call("throw") /\ Len(read) >= 2 /\ read[Len(read) - 1] \in Opening
      BY <1>1, <1>3, <2>3 DEF AtTop
    <3> QED BY <2>1, <3>1 DEF IsCall
  <2> QED BY <2>2, <2>3
<1> QED BY <1>2, <1>3, FirstItem

\* get() adds the token under the cursor to those that are read.
LEMMA TokenTaken ==
  ASSUME Ready, P!Advance
  PROVE  /\ IsSeq(read') /\ Len(read') = Len(read) + 1 /\ read'[Len(read) + 1] = ahead
         /\ \A i \in 1 .. Len(read) : read'[i] = read[i]
         /\ \A K : ahead \in K => Ends(read', K)
         /\ ahead # P!Past
<1>1. read' = Append(read, ahead) /\ ahead # P!Past
  BY DEF P!Advance, P!Get
<1>2. Len(read) \in Nat
  BY SeqLength DEF Ready
<1> QED BY <1>1, <1>2, Appending DEF Ready, Ends

LEMMA Enters ==
  ASSUME Ready, P!Enter
  PROVE  Moved
<1>1. /\ todo # <<>> /\ P!Top.do = "call" /\ status = "parsing" /\ status' = status /\ at' = at
      /\ read' = read /\ ahead' = ahead
  BY DEF P!Enter, P!Doing
<1>2. CASE P!Top.what \in DOMAIN P!Body /\ P!Then(P!Body[P!Top.what])
  <2> DEFINE u == P!Body[P!Top.what]
  <2>1. IsSeq(u) /\ Guarded(u, read)
    <3>1. CASE P!Top.what = "function_decl"
      <4>1. u = P!Body.function_decl
        BY <3>1 DEF P!Body
      <4> QED BY <1>1, <3>1, <4>1, FirstTells, FunctionGuarded DEF IsCall
    <3>2. CASE P!Top.what # "function_decl"
      BY <1>2, <3>2, BodyFine, FineFacts
    <3> QED BY <3>1, <3>2
  <2>2. P!Top.what # "throw"
    BY <1>2 DEF P!Body
  <2>3. ExprItem(P!Top) => Fine(u, TRUE)
    <3>1. ExprItem(P!Top) => P!Top.what \in ExprFunctions
      BY <1>1 DEF ExprItem
    <3>2. P!Top.what \in ExprFunctions => P!Top.what \in {"next_expression", "assignment", "call"}
      BY <1>2 DEF ExprFunctions, P!Levels, P!Ops, P!Body
    <3> QED BY <3>1, <3>2, BodyFine
  <2>4. Descends(P!Top) => Len(u) >= 1 /\ Descends(u[1])
    <3>1. Descends(P!Top) => P!Top.what \in {"next_expression", "assignment", "call"}
      BY <1>2 DEF Descends, P!Levels, P!Ops, P!Body
    <3>2. \A f \in {"assignment", "logical_or", "primary"} : Descends(P!Call(f))
      BY DEF Descends, P!Levels, P!Ops, P!Call, P!Item
    <3>3. /\ Len(P!Body.next_expression) = 1 /\ P!Body.next_expression[1] = P!Call("assignment")
          /\ Len(P!Body.assignment) = 2 /\ P!Body.assignment[1] = P!Call("logical_or")
          /\ Len(P!Body.call) = 2 /\ P!Body.call[1] = P!Call("primary")
      BY DEF P!Body
    <3>4. /\ P!Body["next_expression"] = P!Body.next_expression
          /\ P!Body["assignment"] = P!Body.assignment /\ P!Body["call"] = P!Body.call
      BY DEF P!Body
    <3> QED BY <3>1, <3>2, <3>3, <3>4
  <2>5. todo' = u \o Tail(todo)
    BY <1>2 DEF P!Then
  <2> HIDE DEF u
  <2>6. Stays(u)
    BY <1>1, <2>1, <2>2, <2>3, <2>4, <2>5 DEF Stays, IsCall, IsLoop
  <2> QED BY <2>6 DEF Moved
<1>3. CASE P!Top.what \in P!Levels /\ P!Then(<<P!Call(P!Operand[P!Top.what]), P!Loop(P!Top.what, 0)>>)
  <2> DEFINE a == P!Call(P!Operand[P!Top.what])
             u == <<a, P!Loop(P!Top.what, 0)>>
  <2>1. /\ P!Operand[P!Top.what] \in (P!Levels \cup {"unary"}) \ OnTopOnly
        /\ P!Top.what # "throw"
    BY <1>3 DEF P!Levels, P!Ops, P!Operand, OnTopOnly
  <2>2. Fine(u, TRUE)
    BY <1>3, <2>1, Fine2, CallSuits, LoopSuits DEF ExprFunctions
  <2>3. IsSeq(u) /\ Guarded(u, read)
    BY <2>2, FineFacts
  <2>4. Len(u) >= 1 /\ Descends(u[1])
    <3>1. Descends(a)
      BY <2>1 DEF Descends, P!Call, P!Item
    <3> HIDE DEF a
    <3>2. Len(u) = 2 /\ u[1] = a
      OBVIOUS
    <3> QED BY <3>1, <3>2
  <2>5. todo' = u \o Tail(todo)
    BY <1>3 DEF P!Then
  <2> HIDE DEF u, a
  <2>6. Stays(u)
    BY <1>1, <2>1, <2>2, <2>3, <2>4, <2>5 DEF Stays, IsCall, IsLoop
  <2> QED BY <2>6 DEF Moved
<1> QED BY <1>2, <1>3 DEF P!Enter

\* What is common to the steps in which the first item gives way to u.
LEMMA StepStays ==
  ASSUME NEW u, Fine(u, FALSE), ExprItem(P!Top) => Fine(u, TRUE),
         todo # <<>>, todo' = u \o Tail(todo),
         read' = read, ahead' = ahead, status = "parsing", status' = status, at' = at,
         P!Top.do \notin {"expect", "take", "skip"}, ~ IsCall(P!Top, "throw"),
         ~ AtProgram(P!Top),
         Descends(P!Top) /\ P!AtEnd => Len(u) >= 1 /\ Descends(u[1])
  PROVE  Moved
<1>1. IsSeq(u) /\ Guarded(u, read)
  BY FineFacts
<1>2. Stays(u)
  BY <1>1 DEF Stays, AtProgram
<1> QED BY <1>2 DEF Moved

LEMMA StepShifts ==
  ASSUME NEW u, Fine(u, FALSE), ExprItem(P!Top) => Fine(u, TRUE),
         todo # <<>>, todo' = u \o Tail(todo),
         P!Advance, status = "parsing", status' = status, at' = at,
         ahead \notin Unseen,
         P!Top.do \notin {"take", "skip"}, ~ AtProgram(P!Top), ~ IsCall(P!Top, "throw"),
         P!Top.do = "expect" => u = <<>> /\ ahead = P!Top.kind
  PROVE  Moved
<1>1. IsSeq(u) /\ Guarded(u, read')
  BY FineFacts
<1>2. Shifts(u)
  BY <1>1 DEF Shifts
<1> QED BY <1>2 DEF Moved

\* an item that is done
LEMMA NoneFine == Fine(<<>>, FALSE) /\ Fine(<<>>, TRUE)
  BY Fine0

LEMMA Chosen ==
  ASSUME Ready, P!Choose
  PROVE  Moved
<1>1. /\ todo # <<>> /\ P!Top.do = "call" /\ status = "parsing" /\ status' = status /\ at' = at
      /\ P!Top.what \in {"next_declaration", "next_statement", "initializer"}
  BY DEF P!Choose, P!Doing, P!Chooses
<1>2. ~ ExprItem(P!Top) /\ ~ Descends(P!Top) /\ ~ IsCall(P!Top, "throw") /\ ~ AtProgram(P!Top)
  BY <1>1 DEF ExprItem, ExprFunctions, Descends, IsCall, AtProgram, IsLoop, P!Levels, P!Ops
<1>3. CASE ahead \in DOMAIN P!Chooses[P!Top.what]
  <2> DEFINE f == P!Chooses[P!Top.what][ahead]
             u == <<P!Call(f)>>
  <2>1. todo' = u \o Tail(todo) /\ P!Advance
    BY <1>3 DEF P!Choose, P!Then
  <2>2. ahead \in {"kVar", "kFun", "kPrint", "kLeftBrace", "kIf", "kWhile", "kFor", "kReturn",
                   "kSemicolon"}
    BY <1>1, <1>3 DEF P!Chooses
  <2>3. ahead \notin Unseen
    BY <2>2, Kinds
  <2>4. (f = "function_decl" /\ ahead = "kFun") \/ f \notin OnTopOnly
    BY <1>1, <1>3 DEF P!Chooses, OnTopOnly
  <2>5. IsSeq(u) /\ Guarded(u, read')
    <3>1. CASE f = "function_decl" /\ ahead = "kFun"
      <4>1. Ends(read', {"kFun"})
        BY <2>1, <3>1, TokenTaken
      <4>2. AtTop(<<P!Call("function_decl")>>, read')
        BY <4>1 DEF AtTop
      <4> QED BY <3>1, <4>2, OneOnTop
    <3>2. CASE f \notin OnTopOnly
      BY <3>2, CallSuits, Fine1, FineFacts
    <3> QED BY <2>4, <3>1, <3>2
  <2> HIDE DEF u, f
  <2>6. Shifts(u)
    BY <1>1, <1>2, <2>1, <2>3, <2>5 DEF Shifts
  <2> QED BY <2>6 DEF Moved
<1>4. CASE ahead \notin DOMAIN P!Chooses[P!Top.what]
  <2> DEFINE f == P!Otherwise[P!Top.what]
             u == <<P!Call(f)>>
  <2>1. todo' = u \o Tail(todo) /\ read' = read /\ ahead' = ahead
    BY <1>4 DEF P!Choose, P!Then
  <2>2. f \notin OnTopOnly
    BY <1>1 DEF P!Otherwise, OnTopOnly
  <2>3. Fine(u, FALSE)
    BY <2>2, CallSuits, Fine1
  <2> HIDE DEF u, f
  <2> QED BY <1>1, <1>2, <2>1, <2>3, StepStays
<1> QED BY <1>3, <1>4

LEMMA NothingDone ==
  ASSUME Ready, P!Nothing
  PROVE  Moved
<1>1. /\ todo # <<>> /\ P!Top.do = "call" /\ P!Top.what = "nothing" /\ status = "parsing"
      /\ status' = status /\ at' = at /\ read' = read /\ ahead' = ahead
      /\ todo' = <<>> \o Tail(todo)
  BY DEF P!Nothing, P!Calling, P!Doing, P!Then
<1>2. ~ Descends(P!Top) /\ ~ IsCall(P!Top, "throw") /\ ~ AtProgram(P!Top)
  BY <1>1 DEF Descends, IsCall, AtProgram, IsLoop, P!Levels, P!Ops
<1> QED BY <1>1, <1>2, NoneFine, StepStays

LEMMA Wanted ==
  ASSUME Ready, P!Want
  PROVE  Moved
<1>1. /\ todo # <<>> /\ P!Top.do = "expect" /\ status = "parsing"
      /\ ~ IsCall(P!Top, "throw") /\ ~ AtProgram(P!Top)
  BY DEF P!Want, P!Doing, IsCall, AtProgram, IsLoop
<1>2. CASE ahead = P!Top.kind
  <2>1. todo' = <<>> \o Tail(todo) /\ P!Advance /\ status' = status /\ at' = at
    BY <1>2 DEF P!Want, P!Then
  <2>2. ahead \notin Unseen
    BY <1>1, <1>2, FirstTells
  <2> QED BY <1>1, <1>2, <2>1, <2>2, NoneFine, StepShifts
<1>3. CASE ahead # P!Top.kind
  BY <1>1, <1>3 DEF P!Want, Fails, Moved
<1> QED BY <1>2, <1>3

LEMMA IdentifierTaken ==
  ASSUME Ready, P!Identifier
  PROVE  Moved
<1>1. /\ todo # <<>> /\ P!Top.do = "call" /\ P!Top.what = "identifier" /\ status = "parsing"
      /\ ~ IsCall(P!Top, "throw") /\ ~ AtProgram(P!Top)
  BY DEF P!Identifier, P!Calling, P!Doing, IsCall, AtProgram, IsLoop
<1>2. CASE ahead = "kIdentifier"
  <2>1. todo' = <<>> \o Tail(todo) /\ P!Advance /\ status' = status /\ at' = at
    BY <1>2 DEF P!Identifier, P!Then
  <2>2. ahead \notin Unseen
    BY <1>2 DEF Unseen, P!Other, P!Eof, P!Past
  <2> QED BY <1>1, <2>1, <2>2, NoneFine, StepShifts
<1>3. CASE ahead # "kIdentifier"
  BY <1>1, <1>3 DEF P!Identifier, Fails, Moved
<1> QED BY <1>2, <1>3

LEMMA NameTaken ==
  ASSUME P!TakeName
  PROVE  Moved
  BY DEF P!TakeName, P!Doing, P!Then, Takes, Moved

LEMMA OptionTaken ==
  ASSUME Ready, P!Optional
  PROVE  Moved
<1>1. /\ todo # <<>> /\ P!Top.do = "opt" /\ status = "parsing" /\ status' = status /\ at' = at
      /\ ~ IsCall(P!Top, "throw") /\ ~ AtProgram(P!Top) /\ ~ ExprItem(P!Top)
      /\ ~ Descends(P!Top)
  BY DEF P!Optional, P!Doing, IsCall, AtProgram, IsLoop, ExprItem, Descends
<1>2. CASE ahead = P!Top.kind
  <2> DEFINE f == IF P!Top.kind = "kElse" THEN "next_statement" ELSE "next_expression"
             u == <<P!Call(f)>>
  <2>1. todo' = u \o Tail(todo) /\ P!Advance
    BY <1>2 DEF P!Optional, P!Then
  <2>2. ahead \notin Unseen
    BY <1>1, <1>2, FirstTells
  <2>3. f \notin OnTopOnly
    BY DEF OnTopOnly
  <2>4. Fine(u, FALSE)
    BY <2>3, CallSuits, Fine1
  <2> HIDE DEF u, f
  <2> QED BY <1>1, <2>1, <2>2, <2>4, StepShifts
<1>3. CASE ahead # P!Top.kind
  <2>1. todo' = <<>> \o Tail(todo) /\ read' = read /\ ahead' = ahead
    BY <1>3 DEF P!Optional, P!Then
  <2> QED BY <1>1, <2>1, NoneFine, StepStays
<1> QED BY <1>2, <1>3

LEMMA PossiblyParsed ==
  ASSUME Ready, P!Possible
  PROVE  Moved
<1>1. /\ todo # <<>> /\ P!Top.do = "unless" /\ status = "parsing" /\ status' = status /\ at' = at
      /\ read' = read /\ ahead' = ahead
      /\ ~ IsCall(P!Top, "throw") /\ ~ AtProgram(P!Top) /\ ~ ExprItem(P!Top)
      /\ ~ Descends(P!Top)
  BY DEF P!Possible, P!Doing, IsCall, AtProgram, IsLoop, ExprItem, Descends
<1>2. \/ todo' = <<>> \o Tail(todo)
      \/ todo' = <<P!Call("next_expression")>> \o Tail(todo)
  BY DEF P!Possible, P!Then
<1>3. Fine(<<P!Call("next_expression")>>, FALSE)
  BY CallSuits, Fine1 DEF OnTopOnly
<1> QED BY <1>1, <1>2, <1>3, NoneFine, StepStays

LEMMA NodeMade ==
  ASSUME P!MakeNode
  PROVE  Moved
<1>1. /\ todo # <<>> /\ P!Top.do = "make" /\ status = "parsing" /\ status' = status /\ at' = at
      /\ read' = read /\ ahead' = ahead /\ todo' = <<>> \o Tail(todo)
      /\ ~ IsCall(P!Top, "throw") /\ ~ AtProgram(P!Top) /\ ~ Descends(P!Top)
  BY DEF P!MakeNode, P!Doing, P!Then, IsCall, AtProgram, IsLoop, Descends
<1> QED BY <1>1, NoneFine, StepStays

LEMMA AssignmentSeen ==
  ASSUME Ready, P!Assigned
  PROVE  Moved
<1>1. /\ todo # <<>> /\ P!Top.do = "call" /\ P!Top.what = "assigned?" /\ status = "parsing"
      /\ status' = status /\ at' = at
      /\ ~ IsCall(P!Top, "throw") /\ ~ AtProgram(P!Top) /\ ~ Descends(P!Top)
  BY DEF P!Assigned, P!Calling, P!Doing, IsCall, AtProgram, IsLoop, Descends, P!Levels, P!Ops
<1>2. CASE ahead = "kEqual"
  <2> DEFINE u == <<P!Call("assignment"), P!Call("assigned!")>>
  <2>1. todo' = u \o Tail(todo) /\ P!Advance
    BY <1>2 DEF P!Assigned, P!Then
  <2>2. ahead \notin Unseen
    BY <1>2, Kinds
  <2>3. Fine(u, FALSE) /\ Fine(u, TRUE)
    BY CallSuits, Fine2 DEF OnTopOnly, ExprFunctions
  <2> HIDE DEF u
  <2> QED BY <1>1, <2>1, <2>2, <2>3, StepShifts
<1>3. CASE ahead # "kEqual"
  <2>1. todo' = <<>> \o Tail(todo) /\ read' = read /\ ahead' = ahead
    BY <1>3 DEF P!Assigned, P!Then
  <2> QED BY <1>1, <2>1, NoneFine, StepStays
<1> QED BY <1>2, <1>3

LEMMA TargetSeen ==
  ASSUME Ready, P!Target
  PROVE  Moved
<1>1. /\ todo # <<>> /\ P!Top.do = "call" /\ P!Top.what = "assigned!" /\ status = "parsing"
      /\ ~ IsCall(P!Top, "throw") /\ ~ AtProgram(P!Top) /\ ~ Descends(P!Top)
  BY DEF P!Target, P!Calling, P!Doing, IsCall, AtProgram, IsLoop, Descends, P!Levels, P!Ops
<1>2. CASE P!Throw
  BY <1>1, <1>2 DEF Fails, Moved
<1>3. CASE ~ P!Throw
  <2> DEFINE u == <<P!Make("Assignment", "kEqual")>>
  <2>1. /\ todo' = u \o Tail(todo) /\ read' = read /\ ahead' = ahead
        /\ status' = status /\ at' = at
    BY <1>3 DEF P!Target, P!Then
  <2>2. Fine(u, FALSE) /\ Fine(u, TRUE)
    BY Kinds, TokenSuits, Fine1
  <2> HIDE DEF u
  <2> QED BY <1>1, <2>1, <2>2, StepStays
<1> QED BY <1>2, <1>3

LEMMA OperatorSeen ==
  ASSUME Ready, P!Operator
  PROVE  Moved
<1>1. /\ todo # <<>> /\ P!Top.do = "loop" /\ P!Top.what \in P!Levels /\ status = "parsing"
      /\ status' = status /\ at' = at
  BY DEF P!Operator, P!Doing
<1>2. ~ IsCall(P!Top, "throw") /\ ~ AtProgram(P!Top) /\ ~ Descends(P!Top)
  BY <1>1 DEF IsCall, AtProgram, IsLoop, Descends, P!Levels, P!Ops
<1>3. CASE ahead \in P!Ops[P!Top.what]
  <2> DEFINE right == P!Call(P!RightOperand(P!Top.what))
             node == P!Make(P!OpNode(P!Top.what), ahead)
             u == <<right, node, P!Top>>
  <2>1. todo' = u \o Tail(todo) /\ P!Advance
    BY <1>3 DEF P!Operator, P!Then
  <2>2. ahead \notin Unseen
    BY <1>1, <1>3 DEF P!Levels, P!Ops, Unseen, P!Other, P!Eof, P!Past
  <2>3. Suits(right, FALSE) /\ Suits(right, TRUE)
    <3>1. P!RightOperand(P!Top.what) \in ExprFunctions \ OnTopOnly
      BY <1>1 DEF P!RightOperand, P!Operand, P!Levels, P!Ops, ExprFunctions, OnTopOnly
    <3> QED BY <3>1, CallSuits
  <2>4. Suits(node, FALSE) /\ Suits(node, TRUE)
    BY <2>2, TokenSuits
  <2>5. Suits(P!Top, FALSE) /\ Suits(P!Top, TRUE)
    BY <1>1, FirstTells DEF Suits, ExprItem
  <2>6. Fine(u, FALSE) /\ Fine(u, TRUE)
    BY <2>3, <2>4, <2>5, Fine3
  <2> HIDE DEF u
  <2> QED BY <1>1, <1>2, <2>1, <2>2, <2>6, StepShifts
<1>4. CASE ahead \notin P!Ops[P!Top.what]
  <2>1. todo' = <<>> \o Tail(todo) /\ read' = read /\ ahead' = ahead
    BY <1>4 DEF P!Operator, P!Then
  <2> QED BY <1>1, <1>2, <2>1, NoneFine, StepStays
<1> QED BY <1>3, <1>4

LEMMA UnaryBegun ==
  ASSUME Ready, P!Unary
  PROVE  Moved
<1>1. /\ todo # <<>> /\ P!Top.do = "call" /\ P!Top.what = "unary" /\ status = "parsing"
      /\ status' = status /\ at' = at
      /\ ~ IsCall(P!Top, "throw") /\ ~ AtProgram(P!Top)
  BY DEF P!Unary, P!Calling, P!Doing, IsCall, AtProgram, IsLoop
<1>2. CASE ahead \in {"kBang", "kMinus"}
  <2> DEFINE u == <<P!Call("unary"), P!Make("Unary", ahead)>>
  <2>1. todo' = u \o Tail(todo) /\ P!Advance
    BY <1>2 DEF P!Unary, P!Then
  <2>2. ahead \notin Unseen
    BY <1>2 DEF Unseen, P!Other, P!Eof, P!Past
  <2>3. Fine(u, FALSE) /\ Fine(u, TRUE)
    BY <2>2, CallSuits, TokenSuits, Fine2 DEF OnTopOnly, ExprFunctions
  <2> HIDE DEF u
  <2> QED BY <1>1, <2>1, <2>2, <2>3, StepShifts
<1>3. CASE ahead \notin {"kBang", "kMinus"}
  <2> DEFINE u == <<P!Call("call")>>
  <2>1. todo' = u \o Tail(todo) /\ read' = read /\ ahead' = ahead
    BY <1>3 DEF P!Unary, P!Then
  <2>2. Fine(u, FALSE) /\ Fine(u, TRUE)
    BY CallSuits, Fine1 DEF OnTopOnly, ExprFunctions
  <2>3. Len(u) >= 1 /\ u[1] = P!Call("call") /\ Descends(P!Call("call"))
    BY DEF Descends, P!Call, P!Item
  <2> HIDE DEF u
  <2> QED BY <1>1, <2>1, <2>2, <2>3, StepStays
<1> QED BY <1>2, <1>3

LEMMA CallsSeen ==
  ASSUME Ready, P!Calls
  PROVE  Moved
<1>1. /\ todo # <<>> /\ P!Top.do = "loop" /\ P!Top.what = "calls" /\ status = "parsing"
      /\ status' = status /\ at' = at
      /\ ~ IsCall(P!Top, "throw") /\ ~ AtProgram(P!Top) /\ ~ Descends(P!Top)
  BY DEF P!Calls, P!Looping, P!Doing, IsCall, AtProgram, IsLoop, Descends
<1>2. CASE ahead = "kLeftParen"
  <2> DEFINE u == <<P!Call("get_args"), P!Make("Call", "kLeftParen"), P!Top>>
  <2>1. todo' = u \o Tail(todo) /\ P!Advance
    BY <1>2 DEF P!Calls, P!Then
  <2>2. ahead \notin Unseen
    BY <1>2, Kinds
  <2>3. Suits(P!Top, FALSE) /\ Suits(P!Top, TRUE)
    BY <1>1, FirstTells DEF Suits, ExprItem
  <2>4. Suits(P!Call("get_args"), FALSE) /\ Suits(P!Call("get_args"), TRUE)
    BY CallSuits DEF OnTopOnly, ExprFunctions
  <2>5. /\ Suits(P!Make("Call", "kLeftParen"), FALSE)
        /\ Suits(P!Make("Call", "kLeftParen"), TRUE)
    BY Kinds, TokenSuits
  <2>6. Fine(u, FALSE) /\ Fine(u, TRUE)
    BY <2>3, <2>4, <2>5, Fine3
  <2> HIDE DEF u
  <2> QED BY <1>1, <2>1, <2>2, <2>6, StepShifts
<1>3. CASE ahead # "kLeftParen"
  <2>1. todo' = <<>> \o Tail(todo) /\ read' = read /\ ahead' = ahead
    BY <1>3 DEF P!Calls, P!Then
  <2> QED BY <1>1, <2>1, NoneFine, StepStays
<1> QED BY <1>2, <1>3

LEMMA PrimaryTaken ==
  ASSUME Ready, P!Primary
  PROVE  Moved
<1>1. /\ todo # <<>> /\ P!Top.do = "call" /\ P!Top.what = "primary" /\ status = "parsing"
      /\ ~ IsCall(P!Top, "throw") /\ ~ AtProgram(P!Top)
  BY DEF P!Primary, P!Calling, P!Doing, IsCall, AtProgram, IsLoop
<1>2. CASE P!Throw
  BY <1>1, <1>2 DEF Fails, Moved
<1>3. CASE ahead \in P!Constants \cup {"kIdentifier"} /\ ~ P!Throw
  <2>1. todo' = <<>> \o Tail(todo) /\ P!Advance /\ status' = status /\ at' = at
    BY <1>3 DEF P!Primary, P!Then, P!Constants
  <2>2. ahead \notin Unseen
    BY <1>3 DEF P!Constants, Unseen, P!Other, P!Eof, P!Past
  <2> QED BY <1>1, <2>1, <2>2, NoneFine, StepShifts
<1>4. CASE ahead = "kLeftParen" /\ ~ P!Throw
  <2> DEFINE u == <<P!Call("next_expression"), P!Expect("kRightParen"), P!Make("Grouping", ahead)>>
  <2>1. todo' = u \o Tail(todo) /\ P!Advance /\ status' = status /\ at' = at
    BY <1>4 DEF P!Primary, P!Then, P!Constants
  <2>2. ahead \notin Unseen
    BY <1>4, Kinds
  <2>3. /\ Suits(P!Call("next_expression"), FALSE) /\ Suits(P!Call("next_expression"), TRUE)
        /\ Suits(P!Expect("kRightParen"), FALSE) /\ Suits(P!Expect("kRightParen"), TRUE)
        /\ Suits(P!Make("Grouping", ahead), FALSE) /\ Suits(P!Make("Grouping", ahead), TRUE)
    BY <2>2, Kinds, CallSuits, TokenSuits DEF OnTopOnly, ExprFunctions
  <2>4. Fine(u, FALSE) /\ Fine(u, TRUE)
    BY <2>3, Fine3
  <2> HIDE DEF u
  <2> QED BY <1>1, <2>1, <2>2, <2>4, StepShifts
<1> QED BY <1>2, <1>3, <1>4 DEF P!Primary

LEMMA ListBegun ==
  ASSUME Ready, P!BeginList
  PROVE  Moved
<1>1. /\ todo # <<>> /\ P!Top.do = "call" /\ P!Top.what \in {"get_args", "get_params"}
      /\ status = "parsing" /\ status' = status /\ at' = at /\ read' = read /\ ahead' = ahead
  BY DEF P!BeginList, P!Doing
<1>2. /\ ~ IsCall(P!Top, "throw") /\ ~ AtProgram(P!Top) /\ ~ Descends(P!Top)
  BY <1>1 DEF IsCall, AtProgram, IsLoop, Descends, P!Levels, P!Ops
<1> DEFINE paren == P!Expect("kRightParen")
           loop == P!Loop(P!Top.what, Len(built))
<1>3. Suits(paren, FALSE) /\ Suits(paren, TRUE)
  BY Kinds, TokenSuits
<1>4. CASE ahead = "kRightParen"
  <2> DEFINE u == <<P!Loop("end of list", Len(built)), paren>>
  <2>1. todo' = u \o Tail(todo)
    BY <1>4 DEF P!BeginList, P!Then
  <2>2. Fine(u, FALSE) /\ Fine(u, TRUE)
    BY <1>3, LoopSuits, Fine2
  <2> HIDE DEF u
  <2> QED BY <1>1, <1>2, <2>1, <2>2, StepStays
<1>5. CASE ahead # "kRightParen" /\ P!Top.what = "get_args"
  <2> DEFINE u == <<P!Call("next_expression"), loop, paren>>
  <2>1. todo' = u \o Tail(todo)
    BY <1>5 DEF P!BeginList, P!Then
  <2>2. /\ Suits(P!Call("next_expression"), FALSE) /\ Suits(P!Call("next_expression"), TRUE)
        /\ Suits(loop, FALSE) /\ Suits(loop, TRUE)
    BY <1>5, CallSuits, LoopSuits DEF OnTopOnly, ExprFunctions
  <2>3. Fine(u, FALSE) /\ Fine(u, TRUE)
    BY <1>3, <2>2, Fine3
  <2> HIDE DEF u
  <2> QED BY <1>1, <1>2, <2>1, <2>3, StepStays
<1>6. CASE ahead # "kRightParen" /\ P!Top.what = "get_params"
  <2> DEFINE u == <<P!Call("parameter"), loop, paren>>
  <2>1. todo' = u \o Tail(todo)
    BY <1>6 DEF P!BeginList, P!Then
  <2>2. Suits(loop, FALSE) /\ Ends(read, Opening)
    BY <1>1, <1>6, LoopSuits, FirstTells DEF IsCall, Ends, Opening
  <2>3. IsSeq(u) /\ Guarded(u, read)
    BY <1>3, <2>2, ParameterGuarded
  <2>4. ~ ExprItem(P!Top)
    BY <1>1, <1>6 DEF ExprItem, ExprFunctions, P!Levels, P!Ops
  <2> HIDE DEF u
  <2>5. Stays(u)
    BY <1>1, <1>2, <2>1, <2>3, <2>4 DEF Stays, AtProgram
  <2> QED BY <2>5 DEF Moved
<1> QED BY <1>1, <1>4, <1>5, <1>6

LEMMA ParameterTaken ==
  ASSUME Ready, P!Parameter
  PROVE  Moved
<1>1. /\ todo # <<>> /\ P!Top.do = "call" /\ P!Top.what = "parameter" /\ status = "parsing"
      /\ status' = status /\ at' = at /\ P!Advance
      /\ ~ IsCall(P!Top, "throw") /\ ~ AtProgram(P!Top)
  BY DEF P!Parameter, P!Calling, P!Doing, IsCall, AtProgram, IsLoop
<1>2. CASE ahead = "kIdentifier"
  <2>1. todo' = <<>> \o Tail(todo)
    BY <1>2 DEF P!Parameter, P!Then
  <2>2. ahead \notin Unseen
    BY <1>2 DEF Unseen, P!Other, P!Eof, P!Past
  <2> QED BY <1>1, <2>1, <2>2, NoneFine, StepShifts
<1>3. CASE ahead # "kIdentifier"
  BY <1>1, <1>3 DEF P!Parameter, P!Then, Looks, IsCall, Moved
<1> QED BY <1>2, <1>3

LEMMA NotAParameter ==
  ASSUME P!ThrowParameter
  PROVE  Moved
  BY DEF P!ThrowParameter, P!Calling, P!Doing, Fails, AtProgram, IsLoop, Moved

LEMMA ElementWanted ==
  ASSUME Ready, P!NextElement
  PROVE  Moved
<1>1. /\ todo # <<>> /\ P!Top.do = "loop" /\ P!Top.what \in {"get_args", "get_params"}
      /\ status = "parsing"
      /\ ~ IsCall(P!Top, "throw") /\ ~ AtProgram(P!Top) /\ ~ Descends(P!Top)
  BY DEF P!NextElement, P!Doing, IsCall, AtProgram, IsLoop, Descends
<1>2. CASE P!Throw
  BY <1>1, <1>2 DEF Fails, Moved
<1>3. Suits(P!Top, FALSE) /\ (ExprItem(P!Top) => Suits(P!Top, TRUE))
  BY <1>1, FirstTells DEF Suits
<1>4. CASE ~ P!Throw /\ ahead = "kComma"
  <2>1. P!Advance /\ status' = status /\ at' = at
    BY <1>4 DEF P!NextElement
  <2>2. ahead \notin Unseen
    BY <1>4, Kinds
  <2>3. CASE P!Top.what = "get_args"
    <3> DEFINE u == <<P!Call("next_expression"), P!Top>>
    <3>1. todo' = u \o Tail(todo)
      BY <1>4, <2>3 DEF P!NextElement, P!Then
    <3>2. /\ Suits(P!Call("next_expression"), FALSE) /\ Suits(P!Call("next_expression"), TRUE)
      BY CallSuits DEF OnTopOnly, ExprFunctions
    <3>3. Fine(u, FALSE) /\ (ExprItem(P!Top) => Fine(u, TRUE))
      BY <1>3, <3>2, Fine2
    <3> HIDE DEF u
    <3> QED BY <1>1, <2>1, <2>2, <3>1, <3>3, StepShifts
  <2>4. CASE P!Top.what = "get_params"
    <3> DEFINE u == <<P!Call("parameter"), P!Top>>
    <3>1. todo' = u \o Tail(todo)
      BY <1>4, <2>4 DEF P!NextElement, P!Then
    <3>2. Ends(read', Opening)
      BY <1>4, <2>1, TokenTaken DEF Opening
    <3>3. IsSeq(u) /\ Guarded(u, read')
      BY <1>3, <3>2, ParameterGuarded
    <3>4. ~ ExprItem(P!Top)
      BY <1>1, <2>4 DEF ExprItem, P!Levels, P!Ops
    <3> HIDE DEF u
    <3>5. Shifts(u)
      BY <1>1, <2>1, <2>2, <3>1, <3>3, <3>4 DEF Shifts
    <3> QED BY <3>5 DEF Moved
  <2> QED BY <1>1, <2>3, <2>4
<1>5. CASE ~ P!Throw /\ ahead # "kComma"
  <2> DEFINE u == <<P!Loop("end of list", P!Top.n)>>
  <2>1. /\ todo' = u \o Tail(todo) /\ read' = read /\ ahead' = ahead
        /\ status' = status /\ at' = at
    BY <1>5 DEF P!NextElement, P!Then
  <2>2. Fine(u, FALSE) /\ Fine(u, TRUE)
    BY LoopSuits, Fine1
  <2> HIDE DEF u
  <2> QED BY <1>1, <2>1, <2>2, StepStays
<1> QED BY <1>2, <1>4, <1>5

LEMMA ListMade ==
  ASSUME P!MakeList
  PROVE  Moved
<1>1. /\ todo # <<>> /\ IsLoop(P!Top, "end of list") /\ status = "parsing"
      /\ status' = status /\ at' = at /\ read' = read /\ ahead' = ahead
      /\ todo' = <<>> \o Tail(todo)
  BY DEF P!MakeList, P!Looping, P!Doing, P!Then, IsLoop
<1>2. IsSeq(<<>>) /\ Guarded(<<>>, read) /\ Fine(<<>>, TRUE)
  BY NoneFine, FineFacts
<1>3. Stays(<<>>)
  BY <1>1, <1>2 DEF Stays, IsLoop, IsCall, Descends
<1> QED BY <1>3 DEF Moved

LEMMA StmtsBegun ==
  ASSUME Ready, P!BeginStmts
  PROVE  Moved
<1> DEFINE u == <<P!Loop("get_stmts", Len(built)), P!Expect("kRightBrace")>>
<1>1. /\ todo # <<>> /\ P!Top.do = "call" /\ P!Top.what = "get_stmts" /\ status = "parsing"
      /\ status' = status /\ at' = at /\ read' = read /\ ahead' = ahead
      /\ todo' = u \o Tail(todo)
  BY DEF P!BeginStmts, P!Calling, P!Doing, P!Then
<1>2. /\ ~ IsCall(P!Top, "throw") /\ ~ AtProgram(P!Top) /\ ~ Descends(P!Top)
      /\ ~ ExprItem(P!Top)
  BY <1>1 DEF IsCall, AtProgram, IsLoop, Descends, ExprItem, ExprFunctions, P!Levels, P!Ops
<1>3. Fine(u, FALSE)
  BY Kinds, LoopSuits, TokenSuits, Fine2
<1> HIDE DEF u
<1> QED BY <1>1, <1>2, <1>3, StepStays

LEMMA StmtWanted ==
  ASSUME Ready, P!NextStmt
  PROVE  Moved
<1> DEFINE u == <<P!Call("next_declaration"), P!Top>>
           w == <<P!Loop("end of list", P!Top.n)>>
<1>1. /\ todo # <<>> /\ P!Top.do = "loop" /\ P!Top.what = "get_stmts" /\ status = "parsing"
      /\ status' = status /\ at' = at /\ read' = read /\ ahead' = ahead
      /\ todo' = u \o Tail(todo) \/ todo' = w \o Tail(todo)
  BY DEF P!NextStmt, P!Looping, P!Doing, P!Then
<1>2. /\ ~ IsCall(P!Top, "throw") /\ ~ AtProgram(P!Top) /\ ~ Descends(P!Top)
      /\ ~ ExprItem(P!Top)
  BY <1>1 DEF IsCall, AtProgram, IsLoop, Descends, ExprItem, P!Levels, P!Ops
<1>3. Suits(P!Call("next_declaration"), FALSE) /\ Suits(P!Top, FALSE)
  BY <1>1, CallSuits, FirstTells DEF OnTopOnly
<1>4. Fine(u, FALSE) /\ Fine(w, FALSE)
  BY <1>3, LoopSuits, Fine1, Fine2
<1> HIDE DEF u, w
<1> QED BY <1>1, <1>2, <1>4, StepStays

LEMMA DeclarationWanted ==
  ASSUME Ready, P!NextDeclaration
  PROVE  Moved
<1> DEFINE u == <<P!Call("next_declaration"), P!Top>>
           w == <<P!Loop("end of list", P!Top.n)>>
<1>1. /\ todo # <<>> /\ P!Top.do = "loop" /\ P!Top.what = "parse" /\ status = "parsing"
      /\ status' = status /\ at' = at /\ read' = read /\ ahead' = ahead
      /\ IF P!AtEnd THEN todo' = w \o Tail(todo) ELSE todo' = u \o Tail(todo)
  BY DEF P!NextDeclaration, P!Looping, P!Doing, P!Then
<1>2. /\ ~ IsCall(P!Top, "throw") /\ ~ IsLoop(P!Top, "end of list") /\ ~ Descends(P!Top)
      /\ ~ ExprItem(P!Top)
  BY <1>1 DEF IsCall, IsLoop, Descends, ExprItem, P!Levels, P!Ops
<1>3. Suits(P!Call("next_declaration"), FALSE) /\ Suits(P!Top, FALSE)
  BY <1>1, CallSuits, FirstTells DEF OnTopOnly
<1>4. Fine(u, FALSE) /\ Fine(w, FALSE)
  BY <1>3, LoopSuits, Fine1, Fine2
<1>5. IsSeq(u) /\ Guarded(u, read) /\ IsSeq(w) /\ Guarded(w, read)
  BY <1>4, FineFacts
<1>6. /\ Len(u) = 2 /\ u[2] = P!Top /\ Len(w) = 1 /\ IsLoop(w[1], "end of list")
  BY DEF IsLoop, P!Loop, P!Item
<1> HIDE DEF u, w
<1>7. Stays(u) \/ Stays(w)
  BY <1>1, <1>2, <1>5, <1>6 DEF Stays
<1> QED BY <1>7 DEF Moved

\* Every step of parse() is one of those.
LEMMA StepMoves ==
  ASSUME Ready, P!Step
  PROVE  Moved
<1>1. CASE P!Skip \/ P!Accept \/ P!Overrun
  BY <1>1 DEF Moved
<1> QED BY <1>1, Enters, Chosen, NothingDone, Wanted, IdentifierTaken, NameTaken, OptionTaken,
     PossiblyParsed, NodeMade, AssignmentSeen, TargetSeen, OperatorSeen, UnaryBegun, CallsSeen,
     PrimaryTaken, ListBegun, ParameterTaken, NotAParameter, ElementWanted, ListMade, StmtsBegun,
     StmtWanted, DeclarationWanted
     DEF P!Step

-----------------------------------------------------------------------------
(* The inductive invariant.                                                 *)

N == Len(tokens)
K(i) == KindOf(tokens[i])

\* The lexer ends the tokens with the end of file, which is nowhere else; an
\* error has left a token.
OnlyLastEnds(last) ==
  \A i \in 1 .. N : tokens[i].type = "kEndOfFile" <=> i = last
Unfinished == OnlyLastEnds(0) /\ (error_count # 0 => N >= 1)
Finished == OnlyLastEnds(N) /\ N >= 1 /\ (error_count # 0 => N >= 2)

LexerInv ==
  /\ IsSeq(tokens) /\ lexing \in BOOLEAN /\ calls \in 0 .. 2
  /\ calls # 0 => command \in NeedsLex /\ files = 1 /\ stage # "begin"
  /\ calls # 2 => tokens = <<>> /\ error_count = 0 /\ ~ lexing
  /\ calls = 2 => IF lexing THEN Unfinished ELSE Finished
  /\ stage \notin {"begin", "lex"} =>
       \/ lexer \in {"null", "none"} /\ calls = 0
       \/ lexer = "eof" /\ calls = 2 /\ ~ lexing /\ N = 1
       \/ lexer = "some" /\ calls = 2 /\ ~ lexing /\ N > 1

\* the tokens under the parser's cursor and before it
Exact ==
  /\ IsSeq(read) /\ Len(read) <= N
  /\ \A i \in 1 .. Len(read) : read[i] = K(i)
  /\ ahead = IF Len(read) < N THEN K(Len(read) + 1) ELSE P!Past

\* parse(kStatement) is left when its loop ends, at the end of the tokens
LoopsLast ==
  \/ P!AtEnd /\ (todo = <<>> \/ (Len(todo) = 1 /\ IsLoop(todo[1], "end of list")))
  \/ todo # <<>> /\ IsLoop(todo[Len(todo)], "parse")

\* the end of file can only be taken for the name of a function or a parameter
PastHead ==
  /\ Policy = "kStatement" /\ FollowsAny(N, {"kFun"} \cup Opening)
  /\ todo # <<>> /\ (todo[1].do = "expect" \/ IsCall(todo[1], "throw"))

\* with no token but the end of file nothing is taken, and an expression is not
\* parsed before its first token is looked at
NothingTaken ==
  /\ Len(read) = 0
  /\ Policy = "kStatement" => todo = <<>> \/ (Len(todo) = 1 /\ AtProgram(todo[1]))
  /\ Policy = "kExpression" => todo # <<>> /\ Descends(todo[1])

\* a token that the lexer rejected is not before position n, but for the name of
\* a function and, at n itself if that is said, a parameter
Rejected(n, last) ==
  \A i \in 1 .. n :
    i <= N /\ K(i) = P!Other =>
      FollowsAny(i, {"kFun"}) \/ (last /\ i = n /\ FollowsAny(i, Opening))

Working ==
  /\ Exact /\ IsSeq(todo) /\ Guarded(todo, read)
  /\ Policy = "kExpression" => \A i \in 1 .. Len(todo) : ExprItem(todo[i])
  /\ Policy = "kStatement" => LoopsLast
  /\ ahead = P!Past /\ N >= 1 => PastHead
  /\ N <= 1 => NothingTaken
  /\ Rejected(Len(read), todo # <<>> /\ IsCall(todo[1], "throw"))

Failed ==
  /\ N <= 1 => Policy = "kExpression"
  /\ N >= 1 =>
       /\ at \in 1 .. N \/ (at = N + 1 /\ FollowsAny(N, {"kFun"} \cup Opening))
       /\ Rejected(at - 1, TRUE)

Succeeded ==
  /\ Exact
  /\ N <= 1 => Policy = "kStatement"
  /\ N >= 1 /\ Policy = "kStatement" => ahead = P!Eof
  /\ Rejected(Len(read), FALSE)

Skipping == P!Item("skip", "", "", 0)

ParserInv ==
  CASE status = "new"     -> read = <<>> /\ at = 0
    [] status = "parsing" -> IF at = 0 THEN Working ELSE todo = <<Skipping>> /\ Failed
    [] status = "ok"      -> Succeeded
    [] status = "error"   -> Failed
    [] status = "crashed" -> IF Policy = "kStatement" THEN N > 1 ELSE N = 0
    [] OTHER              -> FALSE

HandOver ==
  /\ stage \in {"begin", "lex"} => lexer = "null"
  /\ status # "new" => /\ stage \notin {"begin", "lex"} /\ lexer # "null" /\ source = Views
                       /\ command \in NeedsParse
  /\ stage = "parsed" /\ command \in NeedsParse =>
       \/ parse_result = "ok" /\ status = "ok"
       \/ parse_result = "parseError" /\ status = "error"

PipelineInv == LexerInv /\ ParserInv /\ HandOver

-----------------------------------------------------------------------------
(* What the parser sees of the tokens.                                      *)

LEMMA KindFacts ==
  ASSUME NEW token
  PROVE  /\ KindOf(token) # P!Past
         /\ KindOf(token) = P!Eof <=> token.type = "kEndOfFile"
         /\ token.type = "kLexError" => KindOf(token) = P!Other
<1> DEFINE lexeme == SubSeq(contents, token.from, token.to - 1)
           G == {"kLeftParen", "kRightParen", "kLeftBrace", "kRightBrace", "kComma", "kPlus",
                 "kSemicolon", "kSlash", "kBang", "kBangEqual", "kEqual", "kEqualEqual", "kOr",
                 "kFun"}
           named == KindOfLexeme[lexeme]
<1>1. lexeme \in DOMAIN KindOfLexeme => named \in G
  <2> DEFINE S == {
    <<<<"(">>, "kLeftParen">>, <<<<")">>, "kRightParen">>,
    <<<<"{">>, "kLeftBrace">>, <<<<"}">>, "kRightBrace">>,
    <<<<",">>, "kComma">>, <<<<"+">>, "kPlus">>, <<<<";">>, "kSemicolon">>,
    <<<<"/">>, "kSlash">>, <<<<"!">>, "kBang">>, <<<<"!", "=">>, "kBangEqual">>,
    <<<<"=">>, "kEqual">>, <<<<"=", "=">>, "kEqualEqual">>,
    <<<<"o", "r">>, "kOr">>, <<<<"f", "u", "n">>, "kFun">>}
  <2>1. \A k \in S : k[2] \in G
    <3>1. \A k \in S : \E l : \E g \in G : k = <<l, g>>
      BY ZenonT(60)
    <3> HIDE DEF S, G
    <3> QED BY <3>1
  <2>2. KindOfLexeme = [l \in {k[1] : k \in S} |-> (CHOOSE k \in S : k[1] = l)[2]]
    BY DEF KindOfLexeme
  <2> HIDE DEF S, G, lexeme
  <2>3. ASSUME NEW l \in {k[1] : k \in S} PROVE (CHOOSE k \in S : k[1] = l)[2] \in G
    <3>1. \E k \in S : k[1] = l
      BY <2>3
    <3>2. (CHOOSE k \in S : k[1] = l) \in S
      BY <3>1
    <3> QED BY <2>1, <3>2
  <2> QED BY <2>2, <2>3
<1>2. P!Past \notin G /\ P!Eof \notin G
  BY DEF P!Past, P!Eof
<1>3. KindOf(token) =
        CASE token.type = "kEndOfFile" -> P!Eof
          [] token.type = "identifier" -> "kIdentifier"
          [] token.type = "string"     -> "kString"
          [] token.type = "number"     -> "kNumber"
          [] token.type \in {"single", "pairing", "slash", "keyword"}
             /\ lexeme \in DOMAIN KindOfLexeme -> named
          [] OTHER -> P!Other
  BY DEF KindOf
<1> HIDE DEF lexeme, named, G
<1>4. KindOf(token) # P!Past
  BY <1>1, <1>2, <1>3 DEF P!Past, P!Eof, P!Other
<1>5. token.type = "kEndOfFile" => KindOf(token) = P!Eof
  BY <1>3 DEF P!Eof, P!Other
<1>6. token.type = "kLexError" => KindOf(token) = P!Other
  BY <1>3
<1>7. token.type # "kEndOfFile" => KindOf(token) # P!Eof
  BY <1>1, <1>2, <1>3 DEF P!Eof, P!Other
<1> QED BY <1>4, <1>5, <1>6, <1>7

LEMMA ViewsAhead ==
  ASSUME IsSeq(tokens), NEW n \in Nat
  PROVE  P!After(Views, n) = IF n < N THEN {K(n + 1)} ELSE {P!Past}
<1>1. N \in Nat
  BY SeqLength DEF N
<1>2. Views.kinds = [i \in 1 .. N |-> {K(i)}]
  BY DEF Views, N, K
<1>3. Views.kinds \in Seq({{K(i)} : i \in 1 .. N}) /\ Len(Views.kinds) = N
  BY <1>1, <1>2, SeqDef, LenProperties
<1> QED BY <1>1, <1>2, <1>3 DEF P!After

\* Tokens that are all there, or none: what the parser is given.
Given == IsSeq(tokens) /\ (tokens = <<>> \/ Finished)

LEMMA GivenFacts ==
  ASSUME Given
  PROVE  /\ N \in Nat /\ (N = 0 <=> tokens = <<>>)
         /\ \A i \in 1 .. N : K(i) # P!Past /\ (K(i) = P!Eof <=> i = N)
<1>1. N \in Nat /\ (N = 0 <=> tokens = <<>>)
  BY SeqLength DEF Given, N
<1> QED BY <1>1, KindFacts DEF Given, Finished, OnlyLastEnds, K

Same == UNCHANGED <<command, tokens, contents>>

LEMMA SameFacts ==
  ASSUME Same
  PROVE  /\ N' = N /\ Policy' = Policy /\ Views' = Views
         /\ \A i : K(i)' = K(i)
         /\ \A i, kinds : FollowsAny(i, kinds)' = FollowsAny(i, kinds)
  BY DEF Same, N, Policy, Views, K, KindOf, FollowsAny

\* get() with a token under the cursor.
LEMMA ExactAdvances ==
  ASSUME Given, source = Views, Exact, Same, P!Advance
  PROVE  /\ Exact' /\ Len(read) < N /\ ahead = K(Len(read) + 1)
         /\ Len(read') = Len(read) + 1
         /\ ahead' = P!Past <=> Len(read) + 1 = N
<1>1. N \in Nat /\ Len(read) \in Nat /\ Len(read) <= N /\ IsSeq(read)
  BY GivenFacts, SeqLength DEF Exact
<1>2. read' = Append(read, ahead) /\ ahead # P!Past
  BY DEF P!Advance, P!Get
<1>3. Len(read) < N /\ ahead = K(Len(read) + 1)
  BY <1>2 DEF Exact
<1>4. /\ IsSeq(read') /\ Len(read') = Len(read) + 1 /\ read'[Len(read) + 1] = ahead
      /\ \A i \in 1 .. Len(read) : read'[i] = read[i]
  BY <1>1, <1>2, Appending
<1>5. ahead = P!Eof <=> Len(read) + 1 = N
  BY <1>1, <1>3, GivenFacts
<1>6. P!After(source, Len(read) + 1) =
        IF Len(read) + 1 < N THEN {K(Len(read) + 2)} ELSE {P!Past}
  <2> DEFINE n == Len(read) + 1
  <2>1. n \in Nat /\ n + 1 = Len(read) + 2
    BY <1>1
  <2> HIDE DEF n
  <2>2. P!After(Views, n) = IF n < N THEN {K(n + 1)} ELSE {P!Past}
    BY <2>1, ViewsAhead DEF Given
  <2> QED BY <2>1, <2>2 DEF n
<1>7. ahead' = IF Len(read) + 1 < N THEN K(Len(read) + 2) ELSE P!Past
  BY <1>1, <1>3, <1>5, <1>6 DEF P!Advance, P!Get
<1>8. Exact'
  <2>1. \A i \in 1 .. Len(read') : read'[i] = K(i)
    BY <1>1, <1>3, <1>4 DEF Exact
  <2>2. ahead' = IF Len(read') < N THEN K(Len(read') + 1) ELSE P!Past
    <3>1. Len(read') + 1 = Len(read) + 2
      BY <1>1, <1>4
    <3> QED BY <1>4, <1>7, <3>1
  <2> QED BY <1>1, <1>3, <1>4, <2>1, <2>2, SameFacts DEF Exact
<1>9. ahead' = P!Past <=> Len(read) + 1 = N
  <2>1. CASE Len(read) + 1 < N
    BY <1>1, <1>7, <2>1, GivenFacts
  <2>2. CASE Len(read) + 1 = N
    BY <1>1, <1>7, <2>2
  <2> QED BY <1>1, <1>3, <2>1, <2>2
<1> QED BY <1>3, <1>4, <1>8, <1>9

-----------------------------------------------------------------------------
(* What the first item gives way to.                                        *)

LEMMA NewItems ==
  ASSUME IsSeq(todo), todo # <<>>, NEW u, IsSeq(u), todo' = u \o Tail(todo)
  PROVE  /\ IsSeq(todo') /\ Len(todo') = Len(u) + Len(todo) - 1
         /\ Len(todo') \in Nat /\ Len(todo) \in Nat /\ Len(todo) >= 1 /\ Len(u) \in Nat
         /\ todo' = <<>> <=> Len(todo') = 0
         /\ P!Top = todo[1]
         /\ \A i \in 1 .. Len(u) : todo'[i] = u[i]
         /\ \A i \in 1 .. Len(todo) - 1 : todo'[Len(u) + i] = todo[i + 1]
<1>1. Len(todo) \in Nat /\ Len(todo) >= 1 /\ Len(u) \in Nat
  BY SeqLength
<1>2. /\ IsSeq(todo') /\ Len(todo') = Len(u) + Len(todo) - 1
      /\ P!Top = todo[1]
      /\ \A i \in 1 .. Len(u) : todo'[i] = u[i]
      /\ \A i \in 1 .. Len(todo) - 1 : todo'[Len(u) + i] = todo[i + 1]
  BY GivingWay DEF P!Top
<1>3. Len(todo') \in Nat /\ (todo' = <<>> <=> Len(todo') = 0)
  BY <1>2, SeqLength
<1> QED BY <1>1, <1>2, <1>3

\* The first of them, the last, and any.
LEMMA NewEnds ==
  ASSUME IsSeq(todo), todo # <<>>, NEW u, IsSeq(u), todo' = u \o Tail(todo)
  PROVE  /\ u = <<>> /\ Len(todo) = 1 => todo' = <<>>
         /\ u = <<>> /\ Len(todo) >= 2 => todo' # <<>> /\ todo'[1] = todo[2]
         /\ Len(u) >= 1 => todo' # <<>> /\ todo'[1] = u[1]
         /\ Len(todo) = 1 => Len(todo') = Len(u)
         /\ Len(todo) = 1 /\ Len(u) >= 1 => todo'[Len(todo')] = u[Len(u)]
         /\ Len(todo) > 1 => todo' # <<>> /\ todo'[Len(todo')] = todo[Len(todo)]
         /\ \A i \in 1 .. Len(todo') :
              (\E j \in 1 .. Len(u) : todo'[i] = u[j]) \/ \E j \in 1 .. Len(todo) : todo'[i] = todo[j]
<1>1. /\ Len(todo') = Len(u) + Len(todo) - 1
      /\ Len(todo') \in Nat /\ Len(todo) \in Nat /\ Len(todo) >= 1 /\ Len(u) \in Nat
      /\ todo' = <<>> <=> Len(todo') = 0
      /\ u = <<>> <=> Len(u) = 0
  BY NewItems, SeqLength
<1>2. /\ \A i \in 1 .. Len(u) : todo'[i] = u[i]
      /\ \A i \in 1 .. Len(todo) - 1 : todo'[Len(u) + i] = todo[i + 1]
  BY NewItems
<1>3. u = <<>> /\ Len(todo) = 1 => todo' = <<>>
  BY <1>1
<1>4. ASSUME u = <<>>, Len(todo) >= 2 PROVE todo' # <<>> /\ todo'[1] = todo[2]
  <2>1. 1 \in 1 .. Len(todo) - 1 /\ Len(u) + 1 = 1 /\ 1 + 1 = 2 /\ Len(todo') # 0
    BY <1>1, <1>4
  <2> QED BY <1>1, <1>2, <2>1
<1>5. ASSUME Len(u) >= 1 PROVE todo' # <<>> /\ todo'[1] = u[1]
  <2>1. 1 \in 1 .. Len(u) /\ Len(todo') # 0
    BY <1>1, <1>5
  <2> QED BY <1>1, <1>2, <2>1
<1>6. ASSUME Len(todo) = 1
      PROVE  Len(todo') = Len(u) /\ (Len(u) >= 1 => todo'[Len(todo')] = u[Len(u)])
  <2>1. Len(todo') = Len(u) /\ (Len(u) >= 1 => Len(u) \in 1 .. Len(u))
    BY <1>1, <1>6
  <2> QED BY <1>2, <2>1
<1>7. ASSUME Len(todo) > 1 PROVE todo' # <<>> /\ todo'[Len(todo')] = todo[Len(todo)]
  <2>1. /\ Len(todo) - 1 \in 1 .. Len(todo) - 1 /\ (Len(todo) - 1) + 1 = Len(todo)
        /\ Len(u) + (Len(todo) - 1) = Len(todo') /\ Len(todo') # 0
    BY <1>1, <1>7
  <2> QED BY <1>1, <1>2, <2>1
<1>8. ASSUME NEW i \in 1 .. Len(todo')
      PROVE  (\E j \in 1 .. Len(u) : todo'[i] = u[j]) \/ \E j \in 1 .. Len(todo) : todo'[i] = todo[j]
  <2>1. CASE i <= Len(u)
    <3>1. i \in 1 .. Len(u)
      BY <1>1, <2>1
    <3> QED BY <1>2, <3>1
  <2>2. CASE i > Len(u)
    <3>1. /\ i - Len(u) \in 1 .. Len(todo) - 1 /\ Len(u) + (i - Len(u)) = i
          /\ (i - Len(u)) + 1 \in 1 .. Len(todo)
      BY <1>1, <2>2
    <3> QED BY <1>2, <3>1
  <2>3. i <= Len(u) \/ i > Len(u)
    BY <1>1
  <2> QED BY <2>1, <2>2, <2>3
<1> QED BY <1>3, <1>4, <1>5, <1>6, <1>7, <1>8

\* What all items satisfy those of the new todo do, if the items u do.
LEMMA GuardedKept ==
  ASSUME Ready, todo # <<>>, NEW u, IsSeq(u), todo' = u \o Tail(todo),
         NEW r, Guarded(u, r),
         P!Top = P!Expect("kLeftParen") => u = <<>> /\ Ends(r, {"kLeftParen"})
  PROVE  Guarded(todo', r)
<1>1. /\ Len(todo') = Len(u) + Len(todo) - 1
      /\ Len(todo') \in Nat /\ Len(todo) \in Nat /\ Len(todo) >= 1 /\ Len(u) \in Nat
      /\ P!Top = todo[1]
      /\ \A i \in 1 .. Len(u) : todo'[i] = u[i]
      /\ \A i \in 1 .. Len(todo) - 1 : todo'[Len(u) + i] = todo[i + 1]
  BY NewItems DEF Ready
<1> SUFFICES ASSUME NEW i \in 1 .. Len(todo')
             PROVE  Suits(todo'[i], FALSE) \/ (i = 1 /\ AtTop(todo', r)) \/ AfterBracket(todo', i)
  BY DEF Guarded
<1>2. CASE i <= Len(u)
  <2>1. i \in 1 .. Len(u) /\ todo'[i] = u[i]
    BY <1>1, <1>2
  <2>2. CASE Suits(u[i], FALSE)
    BY <2>1, <2>2
  <2>3. CASE i = 1 /\ AtTop(u, r)
    <3>1. todo'[1] = u[1] /\ (Len(u) >= 2 => Len(todo') >= 2 /\ todo'[2] = u[2])
      BY <1>1, <2>1, <2>3
    <3> QED BY <2>3, <3>1 DEF AtTop
  <2>4. CASE AfterBracket(u, i)
    <3>1. i > 1 /\ i - 1 \in 1 .. Len(u)
      BY <1>1, <2>1, <2>4 DEF AfterBracket
    <3> QED BY <1>1, <2>1, <2>4, <3>1 DEF AfterBracket
  <2> QED BY <2>1, <2>2, <2>3, <2>4 DEF Guarded
<1>3. CASE i > Len(u)
  <2> DEFINE j == i - Len(u)
  <2>1. j \in 1 .. Len(todo) - 1 /\ i = Len(u) + j /\ j + 1 \in 1 .. Len(todo) /\ j + 1 # 1
    BY <1>1, <1>3
  <2>2. todo'[i] = todo[j + 1]
    BY <1>1, <2>1
  <2> HIDE DEF j
  <2>3. CASE Suits(todo[j + 1], FALSE)
    BY <2>2, <2>3
  <2>4. CASE AfterBracket(todo, j + 1) /\ j = 1
    <3>1. todo[2] = P!Call("get_params") /\ todo[1] = P!Expect("kLeftParen")
      BY <2>4 DEF AfterBracket
    <3>2. i = 1 /\ todo'[1] = P!Call("get_params") /\ Ends(r, {"kLeftParen"})
      BY <1>1, <2>1, <2>2, <2>4, <3>1, SeqLength
    <3> QED BY <3>2 DEF AtTop
  <2>5. CASE AfterBracket(todo, j + 1) /\ j # 1
    <3>1. /\ j - 1 \in 1 .. Len(todo) - 1 /\ i - 1 = Len(u) + (j - 1) /\ (j - 1) + 1 = j
          /\ (j + 1) - 1 = j /\ i > 1
      BY <1>1, <2>1, <2>5
    <3>2. todo'[i - 1] = todo[j]
      BY <1>1, <3>1
    <3> QED BY <2>2, <2>5, <3>1, <3>2 DEF AfterBracket
  <2> QED BY <2>1, <2>3, <2>4, <2>5 DEF Ready, Guarded
<1>4. i <= Len(u) \/ i > Len(u)
  BY <1>1
<1> QED BY <1>2, <1>3, <1>4

-----------------------------------------------------------------------------
(* Each kind of step keeps the invariant of the work.                       *)

WorkStarts == Given /\ source = Views /\ Working /\ Same /\ status = "parsing" /\ at = 0

LEMMA WorkFacts ==
  ASSUME WorkStarts
  PROVE  /\ Ready /\ Exact /\ N \in Nat /\ Len(read) \in Nat /\ Len(read) <= N
         /\ Policy \in {"kStatement", "kExpression"}
         /\ N <= 1 => P!AtEnd
         /\ P!AtEnd /\ N >= 1 => ahead = P!Past \/ (ahead = P!Eof /\ Len(read) = N - 1)
<1>1. N \in Nat /\ Len(read) \in Nat /\ Len(read) <= N
  BY GivenFacts, SeqLength DEF WorkStarts, Working, Exact
<1>2. ahead = IF Len(read) < N THEN K(Len(read) + 1) ELSE P!Past
  BY DEF WorkStarts, Working, Exact
<1>3. N <= 1 => P!AtEnd
  <2>1. CASE N = 0
    BY <1>1, <1>2, <2>1 DEF P!AtEnd
  <2>2. CASE N = 1
    <3>1. Len(read) = 0 /\ K(1) = P!Eof
      BY <2>2, GivenFacts DEF WorkStarts, Working, NothingTaken
    <3> QED BY <1>2, <2>2, <3>1 DEF P!AtEnd
  <2> QED BY <1>1, <2>1, <2>2
<1>4. P!AtEnd /\ N >= 1 => ahead = P!Past \/ (ahead = P!Eof /\ Len(read) = N - 1)
  <2>1. CASE Len(read) < N /\ ahead = P!Eof
    <3>1. Len(read) + 1 \in 1 .. N /\ K(Len(read) + 1) = P!Eof
      BY <1>1, <1>2, <2>1
    <3>2. Len(read) + 1 = N
      BY <3>1, GivenFacts DEF WorkStarts
    <3> QED BY <1>1, <2>1, <3>2
  <2>2. CASE ~ (Len(read) < N)
    BY <1>2, <2>2
  <2> QED BY <2>1, <2>2 DEF P!AtEnd
<1>5. Ready /\ Exact
  BY DEF WorkStarts, Working, Exact, Ready
<1>6. Policy \in {"kStatement", "kExpression"}
  BY DEF Policy
<1> QED BY <1>1, <1>3, <1>4, <1>5, <1>6

\* an expression consists of its own items
LEMMA ExprKept ==
  ASSUME WorkStarts, Policy = "kExpression",
         todo # <<>>, NEW u, IsSeq(u), todo' = u \o Tail(todo), ExprItem(P!Top) => Fine(u, TRUE)
  PROVE  \A i \in 1 .. Len(todo') : ExprItem(todo'[i])
<1>1. IsSeq(todo) /\ \A j \in 1 .. Len(todo) : ExprItem(todo[j])
  BY DEF WorkStarts, Working
<1>2. P!Top = todo[1] /\ 1 \in 1 .. Len(todo)
  <2>1. Len(todo) \in Nat /\ Len(todo) >= 1
    BY <1>1, NewItems
  <2>2. 1 \in 1 .. Len(todo)
    BY <2>1
  <2> QED BY <1>1, <2>2, NewItems
<1>3. \A j \in 1 .. Len(u) : ExprItem(u[j])
  BY <1>1, <1>2 DEF Fine, Suits
<1>4. \A i \in 1 .. Len(todo') :
        (\E j \in 1 .. Len(u) : todo'[i] = u[j]) \/ \E j \in 1 .. Len(todo) : todo'[i] = todo[j]
  BY <1>1, NewEnds
<1> QED BY <1>1, <1>3, <1>4

LEMMA StaysWorks ==
  ASSUME WorkStarts, NEW u, Stays(u)
  PROVE  status' = "parsing" /\ at' = 0 /\ Working'
<1>1. /\ todo # <<>> /\ IsSeq(u) /\ IsSeq(todo) /\ todo' = u \o Tail(todo)
      /\ read' = read /\ ahead' = ahead
  BY WorkFacts DEF Stays, Ready
<1>2. P!Top = todo[1] /\ IsSeq(todo')
  BY <1>1, NewItems
<1>0. /\ Len(todo) = 1 \/ Len(todo) > 1
      /\ Len(u) \in Nat /\ (Len(u) \in {1, 2} => Len(u) >= 1)
  <2>1. Len(todo) \in Nat /\ Len(todo) >= 1 /\ Len(u) \in Nat
    BY <1>1, NewItems
  <2>2. \A n \in Nat : (n >= 1 => n = 1 \/ n > 1) /\ (n \in {1, 2} => n >= 1)
    OBVIOUS
  <2> QED BY <2>1, <2>2, Zenon
<1>3. /\ N' = N /\ Policy' = Policy /\ P!AtEnd' = P!AtEnd
      /\ \A i, kinds : FollowsAny(i, kinds)' = FollowsAny(i, kinds)
      /\ \A i : K(i)' = K(i)
  BY <1>1, SameFacts DEF WorkStarts, P!AtEnd
<1>4. Exact'
  BY <1>1, <1>3 DEF WorkStarts, Working, Exact
<1>5. Guarded(todo', read')
  <2>1. P!Expect("kLeftParen").do = "expect" /\ P!Top.do # "expect"
    BY DEF Stays, P!Expect, P!Item
  <2>2. P!Top # P!Expect("kLeftParen")
    BY <2>1
  <2> QED BY <1>1, <2>2, WorkFacts, GuardedKept DEF Stays
<1>6. Policy = "kExpression" => \A i \in 1 .. Len(todo') : ExprItem(todo'[i])
  BY <1>1, ExprKept DEF Stays
<1>7. Policy = "kStatement" => LoopsLast'
  <2> SUFFICES ASSUME Policy = "kStatement" PROVE LoopsLast'
    OBVIOUS
  <2>1. LoopsLast
    BY DEF WorkStarts, Working
  <2>2. CASE P!AtEnd /\ Len(todo) = 1 /\ IsLoop(todo[1], "end of list")
    <3>1. u = <<>>
      BY <1>2, <2>2 DEF Stays
    <3>2. todo' = <<>>
      BY <1>1, <2>2, <3>1, NewEnds
    <3> QED BY <1>3, <2>2, <3>2 DEF LoopsLast
  <2>3. CASE IsLoop(todo[Len(todo)], "parse") /\ Len(todo) = 1
    <3>1. CASE P!AtEnd
      <4>1. Len(u) = 1 /\ IsLoop(u[1], "end of list")
        BY <1>2, <2>3, <3>1 DEF Stays
      <4>2. Len(todo') = 1 /\ todo'[1] = u[1]
        BY <1>0, <1>1, <2>3, <4>1, NewEnds
      <4> QED BY <1>3, <3>1, <4>1, <4>2 DEF LoopsLast
    <3>2. CASE ~ P!AtEnd
      <4>1. Len(u) = 2 /\ u[2] = todo[1]
        BY <1>2, <2>3, <3>2 DEF Stays
      <4>2. todo' # <<>> /\ todo'[Len(todo')] = todo[Len(todo)]
        BY <1>0, <1>1, <2>3, <4>1, NewEnds
      <4> QED BY <2>3, <4>2 DEF LoopsLast
    <3> QED BY <3>1, <3>2
  <2>4. CASE IsLoop(todo[Len(todo)], "parse") /\ Len(todo) > 1
    <3>1. todo' # <<>> /\ todo'[Len(todo')] = todo[Len(todo)]
      BY <1>1, <2>4, NewEnds
    <3> QED BY <2>4, <3>1 DEF LoopsLast
  <2> QED BY <1>0, <1>1, <2>1, <2>2, <2>3, <2>4 DEF LoopsLast
<1>8. ~ (ahead' = P!Past /\ N' >= 1)
  BY <1>1, <1>2, <1>3 DEF WorkStarts, Working, PastHead, Stays
<1>9. N' <= 1 => NothingTaken'
  <2> SUFFICES ASSUME N <= 1 PROVE NothingTaken'
    BY <1>3
  <2>1. NothingTaken /\ P!AtEnd
    BY WorkFacts DEF WorkStarts, Working
  <2>2. CASE Policy = "kStatement"
    <3>1. Len(todo) = 1 /\ AtProgram(todo[1])
      BY <1>1, <2>1, <2>2 DEF NothingTaken
    <3>2. CASE IsLoop(todo[1], "parse")
      <4>1. Len(u) = 1 /\ IsLoop(u[1], "end of list")
        BY <1>2, <2>1, <3>2 DEF Stays
      <4>2. Len(todo') = 1 /\ todo'[1] = u[1]
        BY <1>0, <1>1, <3>1, <4>1, NewEnds
      <4>3. AtProgram(todo'[1])
        BY <4>1, <4>2 DEF AtProgram
      <4> QED BY <1>1, <1>3, <2>1, <2>2, <4>2, <4>3 DEF NothingTaken
    <3>3. CASE IsLoop(todo[1], "end of list")
      <4>1. u = <<>>
        BY <1>2, <3>3 DEF Stays
      <4>2. todo' = <<>>
        BY <1>1, <3>1, <4>1, NewEnds
      <4> QED BY <1>1, <1>3, <2>1, <2>2, <4>2 DEF NothingTaken
    <3> QED BY <3>1, <3>2, <3>3 DEF AtProgram
  <2>3. CASE Policy = "kExpression"
    <3>1. Len(u) >= 1 /\ Descends(u[1])
      BY <1>2, <2>1, <2>3 DEF NothingTaken, Stays
    <3>2. todo' # <<>> /\ todo'[1] = u[1]
      BY <1>1, <3>1, NewEnds
    <3> QED BY <1>1, <1>3, <2>1, <2>3, <3>1, <3>2 DEF NothingTaken
  <2> QED BY <2>2, <2>3, WorkFacts
<1>10. \A last \in BOOLEAN : Rejected(Len(read), last)'
  <2>1. ~ IsCall(todo[1], "throw")
    BY <1>2 DEF Stays
  <2>2. Rejected(Len(read), FALSE)
    BY <2>1 DEF WorkStarts, Working, Rejected
  <2> QED BY <1>1, <1>3, <2>2 DEF Rejected
<1>11. Rejected(Len(read), todo # <<>> /\ IsCall(todo[1], "throw"))'
  BY <1>10 DEF Rejected
<1> QED BY <1>2, <1>3, <1>4, <1>5, <1>6, <1>7, <1>8, <1>9, <1>11
        DEF Stays, WorkStarts, Working

\* only a program whose loop has ended can be left
LEMMA LoopKept ==
  ASSUME WorkStarts, Policy = "kStatement", todo # <<>>, ~ AtProgram(P!Top),
         NEW u, IsSeq(u), todo' = u \o Tail(todo)
  PROVE  LoopsLast'
<1>1. IsSeq(todo) /\ LoopsLast
  BY DEF WorkStarts, Working
<1>2. P!Top = todo[1]
  BY <1>1, NewItems
<1>3. Len(todo) = 1 \/ Len(todo) > 1
  <2>1. Len(todo) \in Nat /\ Len(todo) >= 1
    BY <1>1, NewItems
  <2>2. \A n \in Nat : n >= 1 => n = 1 \/ n > 1
    OBVIOUS
  <2> QED BY <2>1, <2>2, Zenon
<1>4. IsLoop(todo[Len(todo)], "parse") /\ Len(todo) > 1
  BY <1>1, <1>2, <1>3 DEF LoopsLast, AtProgram
<1>5. todo' # <<>> /\ todo'[Len(todo')] = todo[Len(todo)]
  BY <1>1, <1>4, NewEnds
<1> QED BY <1>4, <1>5 DEF LoopsLast

\* with the end of file alone no token is taken
LEMMA MoreTokens ==
  ASSUME WorkStarts, todo # <<>>, ~ AtProgram(P!Top),
         ~ P!AtEnd \/ ~ ExprItem(P!Top)
  PROVE  N > 1
<1>1. P!Top = todo[1] /\ 1 \in 1 .. Len(todo)
  <2>1. P!Top = todo[1] /\ Len(todo) \in Nat /\ Len(todo) >= 1
    BY WorkFacts, FirstItem
  <2> QED BY <2>1
<1>2. SUFFICES ASSUME N <= 1 PROVE FALSE
  BY WorkFacts
<1>3. NothingTaken /\ P!AtEnd
  BY <1>2, WorkFacts DEF WorkStarts, Working
<1>4. Policy = "kExpression" => ExprItem(P!Top)
  BY <1>1 DEF WorkStarts, Working
<1>5. Policy = "kStatement"
  BY <1>3, <1>4, WorkFacts
<1>6. Len(todo) = 1 /\ AtProgram(todo[1])
  BY <1>3, <1>5 DEF NothingTaken
<1> QED BY <1>1, <1>6

LEMMA ShiftsWorks ==
  ASSUME WorkStarts, NEW u, Shifts(u)
  PROVE  status' = "parsing" /\ at' = 0 /\ Working'
<1>1. /\ todo # <<>> /\ IsSeq(u) /\ IsSeq(todo) /\ todo' = u \o Tail(todo) /\ P!Advance
  BY WorkFacts DEF Shifts, Ready
<1>2. P!Top = todo[1] /\ IsSeq(todo')
  BY <1>1, NewItems
<1>3. /\ N' = N /\ Policy' = Policy
      /\ \A i, kinds : FollowsAny(i, kinds)' = FollowsAny(i, kinds)
      /\ \A i : K(i)' = K(i)
  BY SameFacts DEF WorkStarts
<1>4. /\ Exact' /\ Len(read) < N /\ ahead = K(Len(read) + 1) /\ Len(read') = Len(read) + 1
      /\ ahead' = P!Past <=> Len(read) + 1 = N
  BY <1>1, ExactAdvances, WorkFacts DEF WorkStarts
<1>5. Guarded(todo', read')
  <2>1. P!Top = P!Expect("kLeftParen") => u = <<>> /\ ahead = "kLeftParen"
    <3>1. P!Expect("kLeftParen").do = "expect" /\ P!Expect("kLeftParen").kind = "kLeftParen"
      BY DEF P!Expect, P!Item
    <3> QED BY <3>1 DEF Shifts
  <2>2. ahead = "kLeftParen" => Ends(read', {"kLeftParen"})
    BY <1>1, WorkFacts, TokenTaken
  <2> QED BY <1>1, <2>1, <2>2, WorkFacts, GuardedKept DEF Shifts
<1>6. Policy = "kExpression" => \A i \in 1 .. Len(todo') : ExprItem(todo'[i])
  BY <1>1, ExprKept DEF Shifts
<1>7. Policy = "kStatement" => LoopsLast'
  BY <1>1, LoopKept DEF Shifts
<1>8. ~ (ahead' = P!Past)
  <2>1. Len(read) + 1 \in 1 .. N /\ K(Len(read) + 1) # P!Eof
    BY <1>4, WorkFacts DEF Shifts, Unseen
  <2>2. Len(read) + 1 # N
    BY <2>1, GivenFacts DEF WorkStarts
  <2> QED BY <1>4, <2>2
<1>9. N > 1
  <2>1. ~ P!AtEnd
    BY DEF Shifts, Unseen, P!AtEnd
  <2> QED BY <1>1, <2>1, MoreTokens DEF Shifts
<1>10. Rejected(Len(read), todo # <<>> /\ IsCall(todo[1], "throw"))'
  <2>1. Rejected(Len(read), FALSE)
    BY <1>2 DEF WorkStarts, Working, Rejected, Shifts
  <2>2. K(Len(read) + 1) # P!Other
    BY <1>4 DEF Shifts, Unseen
  <2>3. ASSUME NEW i \in 1 .. Len(read) + 1, i <= N, K(i) = P!Other
        PROVE  FollowsAny(i, {"kFun"})
    <3>1. i \in 1 .. Len(read)
      BY <2>2, <2>3, WorkFacts
    <3> QED BY <2>1, <2>3, <3>1 DEF Rejected
  <2> QED BY <1>3, <1>4, <2>3 DEF Rejected
<1>11. N' <= 1 => NothingTaken'
  BY <1>3, <1>9, WorkFacts
<1>12. (ahead = P!Past /\ N >= 1 => PastHead)'
  BY <1>8
<1>13. (Policy = "kStatement" => LoopsLast)'
  BY <1>3, <1>7
<1> QED BY <1>2, <1>3, <1>4, <1>5, <1>6, <1>10, <1>11, <1>12, <1>13 DEF Shifts, WorkStarts, Working

\* What the two steps have in common that take a token before it is looked at.
LEMMA UnseenWorks ==
  ASSUME WorkStarts, todo # <<>>, NEW u, IsSeq(u), todo' = u \o Tail(todo), P!Advance,
         Guarded(u, read'), P!Top.do # "expect", ~ AtProgram(P!Top), ~ ExprItem(P!Top),
         Ends(read, {"kFun"} \cup Opening),
         todo' # <<>> /\ (todo'[1].do = "expect" \/ IsCall(todo'[1], "throw")),
         Rejected(Len(read) + 1, todo' # <<>> /\ IsCall(todo'[1], "throw"))
  PROVE  Working'
<1>1. IsSeq(todo)
  BY WorkFacts DEF Ready
<1>2. P!Top = todo[1] /\ IsSeq(todo') /\ 1 \in 1 .. Len(todo)
  <2>1. Len(todo) \in Nat /\ Len(todo) >= 1
    BY <1>1, NewItems
  <2>2. 1 \in 1 .. Len(todo)
    BY <2>1
  <2> QED BY <1>1, <2>2, NewItems
<1>3. /\ N' = N /\ Policy' = Policy
      /\ \A i, kinds : FollowsAny(i, kinds)' = FollowsAny(i, kinds)
      /\ \A i : K(i)' = K(i)
  BY SameFacts DEF WorkStarts
<1>4. /\ Exact' /\ Len(read) < N /\ ahead = K(Len(read) + 1) /\ Len(read') = Len(read) + 1
      /\ ahead' = P!Past <=> Len(read) + 1 = N
  BY ExactAdvances, WorkFacts DEF WorkStarts
<1>5. Guarded(todo', read')
  <2>1. P!Expect("kLeftParen").do = "expect"
    BY DEF P!Expect, P!Item
  <2>2. P!Top # P!Expect("kLeftParen")
    BY <2>1
  <2> QED BY <2>2, WorkFacts, GuardedKept
<1>6. Policy = "kStatement"
  BY <1>2, WorkFacts DEF WorkStarts, Working
<1>7. LoopsLast'
  BY <1>6, LoopKept
<1>8. N > 1
  BY MoreTokens
<1>9. (ahead = P!Past /\ N >= 1 => PastHead)'
  <2>1. SUFFICES ASSUME ahead' = P!Past PROVE PastHead'
    OBVIOUS
  <2>2. N - 1 = Len(read) /\ Len(read) \in 1 .. Len(read)
    BY <1>4, <1>8, <2>1, WorkFacts
  <2>3. read[Len(read)] = K(N - 1) /\ read[Len(read)] \in {"kFun"} \cup Opening
    BY <2>2, WorkFacts DEF Exact, Ends
  <2>4. FollowsAny(N, {"kFun"} \cup Opening)
    BY <1>8, <2>3 DEF FollowsAny, K
  <2> QED BY <1>3, <1>6, <2>4 DEF PastHead
<1>10. N' <= 1 => NothingTaken'
  BY <1>3, <1>8, WorkFacts
<1>11. Rejected(Len(read), todo # <<>> /\ IsCall(todo[1], "throw"))'
  BY <1>3, <1>4 DEF Rejected
<1>12. (Policy = "kStatement" => LoopsLast)'
  BY <1>7
<1>13. (Policy = "kExpression" => \A i \in 1 .. Len(todo) : ExprItem(todo[i]))'
  BY <1>3, <1>6
<1> QED BY <1>2, <1>4, <1>5, <1>9, <1>10, <1>11, <1>12, <1>13 DEF Working

\* the token before the cursor
LEMMA LastRead ==
  ASSUME WorkStarts, NEW kinds, Ends(read, kinds)
  PROVE  FollowsAny(Len(read) + 1, kinds)
<1>1. Len(read) \in 1 .. Len(read) /\ (Len(read) + 1) - 1 = Len(read) /\ Len(read) + 1 > 1
  BY WorkFacts DEF Ends
<1>2. read[Len(read)] = K(Len(read))
  BY <1>1, WorkFacts DEF Exact
<1> QED BY <1>1, <1>2 DEF Ends, FollowsAny, K

LEMMA TakesWorks ==
  ASSUME WorkStarts, Takes
  PROVE  status' = "parsing" /\ at' = 0 /\ Working'
<1>1. IsSeq(todo) /\ IsSeq(<<>>) /\ Guarded(<<>>, read') /\ todo # <<>>
  BY NoneFine, FineFacts, WorkFacts DEF Takes, Ready
<1>2. Len(todo) >= 2 /\ todo[2] = P!Expect("kLeftParen") /\ Ends(read, {"kFun"})
  BY FirstTells, WorkFacts DEF Takes
<1>3. todo' # <<>> /\ todo'[1] = P!Expect("kLeftParen") /\ todo'[1].do = "expect"
  <2>1. todo' = <<>> \o Tail(todo)
    BY DEF Takes
  <2>2. todo' # <<>> /\ todo'[1] = todo[2]
    BY <1>1, <1>2, <2>1, NewEnds
  <2>3. P!Expect("kLeftParen").do = "expect"
    BY DEF P!Expect, P!Item
  <2> QED BY <1>2, <2>2, <2>3
<1>4. ~ IsCall(P!Top, "throw") /\ ~ ExprItem(P!Top) /\ ~ AtProgram(P!Top) /\ P!Top.do # "expect"
  BY DEF Takes, IsCall, ExprItem, AtProgram, IsLoop
<1>5. Rejected(Len(read) + 1, todo' # <<>> /\ IsCall(todo'[1], "throw"))
  <2>1. Rejected(Len(read), FALSE)
    BY <1>1, <1>4, NewItems DEF WorkStarts, Working, Rejected, Takes
  <2>2. FollowsAny(Len(read) + 1, {"kFun"})
    BY <1>2, LastRead
  <2>3. ASSUME NEW i \in 1 .. Len(read) + 1, i <= N, K(i) = P!Other
        PROVE  FollowsAny(i, {"kFun"})
    <3>1. i \in 1 .. Len(read) \/ i = Len(read) + 1
      BY <2>3, WorkFacts
    <3> QED BY <2>1, <2>2, <2>3, <3>1 DEF Rejected
  <2> QED BY <2>3 DEF Rejected
<1>6. Ends(read, {"kFun"} \cup Opening)
  BY <1>2 DEF Ends
<1>7. Working'
  BY <1>1, <1>3, <1>4, <1>5, <1>6, UnseenWorks DEF Takes
<1> QED BY <1>7 DEF Takes, WorkStarts

LEMMA LooksWorks ==
  ASSUME WorkStarts, Looks
  PROVE  status' = "parsing" /\ at' = 0 /\ Working'
<1> DEFINE u == <<P!Call("throw")>>
<1>1. IsSeq(todo) /\ IsSeq(u) /\ todo # <<>> /\ todo' = u \o Tail(todo) /\ P!Advance
  <2>1. u \in Seq({P!Call("throw")})
    OBVIOUS
  <2>2. IsSeq(u)
    BY <2>1 DEF IsSeq
  <2> QED BY <2>2, WorkFacts DEF Looks, Ready
<1>2. Ends(read, Opening)
  BY FirstTells, WorkFacts DEF Looks
<1>3. Len(u) >= 1 /\ u[1] = P!Call("throw") /\ IsCall(P!Call("throw"), "throw")
  BY DEF IsCall, P!Call, P!Item
<1>4. Guarded(u, read')
  <2>1. /\ Len(read') = Len(read) + 1 /\ \A i \in 1 .. Len(read) : read'[i] = read[i]
    BY <1>1, WorkFacts, TokenTaken
  <2>2. Len(read') >= 2 /\ Len(read') - 1 = Len(read) /\ Len(read) \in 1 .. Len(read)
    BY <1>2, <2>1, WorkFacts DEF Ends
  <2>3. AtTop(<<P!Call("throw")>>, read')
    BY <1>2, <2>1, <2>2 DEF AtTop, Ends
  <2> QED BY <2>3, OneOnTop
<1> HIDE DEF u
<1>5. todo' # <<>> /\ IsCall(todo'[1], "throw")
  BY <1>1, <1>3, NewEnds
<1>6. ~ IsCall(P!Top, "throw") /\ ~ ExprItem(P!Top) /\ ~ AtProgram(P!Top) /\ P!Top.do # "expect"
  BY DEF Looks, IsCall, ExprItem, AtProgram, IsLoop, ExprFunctions, P!Levels, P!Ops
<1>7. Rejected(Len(read) + 1, todo' # <<>> /\ IsCall(todo'[1], "throw"))
  <2>1. Rejected(Len(read), FALSE)
    BY <1>1, <1>6, NewItems DEF WorkStarts, Working, Rejected
  <2>2. FollowsAny(Len(read) + 1, Opening)
    BY <1>2, LastRead
  <2>3. ASSUME NEW i \in 1 .. Len(read) + 1, i <= N, K(i) = P!Other
        PROVE  FollowsAny(i, {"kFun"}) \/ (i = Len(read) + 1 /\ FollowsAny(i, Opening))
    <3>1. i \in 1 .. Len(read) \/ i = Len(read) + 1
      BY <2>3, WorkFacts
    <3> QED BY <2>1, <2>2, <2>3, <3>1 DEF Rejected
  <2> QED BY <1>5, <2>3 DEF Rejected
<1>8. Ends(read, {"kFun"} \cup Opening)
  BY <1>2 DEF Ends
<1>9. Working'
  BY <1>1, <1>4, <1>5, <1>6, <1>7, <1>8, UnseenWorks
<1> QED BY <1>9 DEF Looks, WorkStarts

LEMMA FailsFails ==
  ASSUME WorkStarts, Fails
  PROVE  status' = "parsing" /\ at' # 0 /\ todo' = <<Skipping>> /\ Failed'
<1>1. /\ at' = Len(read) + 1 /\ todo' = <<Skipping>> /\ ahead # P!Past /\ status' = "parsing"
      /\ todo # <<>> /\ ~ AtProgram(P!Top)
  BY DEF Fails, P!Throw, P!Discard, P!Get, Skipping
<1>2. Len(read) < N
  BY <1>1, WorkFacts DEF Exact
<1>3. at' \in 1 .. N /\ at' - 1 = Len(read) /\ at' # 0
  BY <1>1, <1>2, WorkFacts
<1>4. N <= 1 => Policy = "kExpression"
  <2>1. SUFFICES ASSUME N <= 1, Policy = "kStatement" PROVE FALSE
    BY WorkFacts
  <2>2. Len(todo) = 1 /\ AtProgram(todo[1])
    BY <1>1, <2>1 DEF WorkStarts, Working, NothingTaken
  <2> QED BY <1>1, <2>2, FirstItem, WorkFacts
<1>5. Rejected(Len(read), TRUE)
  BY DEF WorkStarts, Working, Rejected
<1>6. Failed'
  <2>1. /\ N' = N /\ Policy' = Policy
        /\ \A i, kinds : FollowsAny(i, kinds)' = FollowsAny(i, kinds)
        /\ \A i : K(i)' = K(i)
    BY SameFacts DEF WorkStarts
  <2>2. Rejected(at - 1, TRUE)'
    BY <1>3, <1>5, <2>1 DEF Rejected
  <2> QED BY <1>3, <1>4, <2>1, <2>2 DEF Failed
<1> QED BY <1>1, <1>3, <1>6

LEMMA AcceptSucceeds ==
  ASSUME WorkStarts, P!Accept
  PROVE  status' = "ok" /\ Succeeded'
<1>1. todo = <<>> /\ status' = "ok" /\ read' = read /\ ahead' = ahead
  BY DEF P!Accept
<1>2. /\ N' = N /\ Policy' = Policy
      /\ \A i, kinds : FollowsAny(i, kinds)' = FollowsAny(i, kinds)
      /\ \A i : K(i)' = K(i)
  BY SameFacts DEF WorkStarts
<1>3. N <= 1 => Policy = "kStatement"
  BY <1>1, WorkFacts DEF WorkStarts, Working, NothingTaken
<1>4. N >= 1 /\ Policy = "kStatement" => ahead = P!Eof
  BY <1>1, WorkFacts DEF WorkStarts, Working, LoopsLast, PastHead
<1>5. Rejected(Len(read), FALSE)
  BY <1>1 DEF WorkStarts, Working, Rejected
<1>6. Exact'
  BY <1>1, <1>2, WorkFacts DEF Exact
<1>7. Rejected(Len(read), FALSE)'
  BY <1>1, <1>2, <1>5 DEF Rejected
<1> QED BY <1>1, <1>2, <1>3, <1>4, <1>6, <1>7 DEF Succeeded

LEMMA OverrunEnds ==
  ASSUME WorkStarts, P!Overrun
  PROVE  \/ status' = "error" /\ Failed'
         \/ status' = "crashed" /\ (IF Policy = "kStatement" THEN N > 1 ELSE N = 0)
<1>1. /\ ahead = P!Past /\ todo # <<>> /\ ~ AtProgram(P!Top) /\ status' \in {"error", "crashed"}
      /\ status' = "error" => at' = Len(read) + 1
  BY DEF P!Overrun, P!AboutToOverrun, P!Calling, P!Doing, AtProgram, IsLoop
<1>2. Policy = "kStatement" => N > 1
  <2>1. SUFFICES ASSUME N <= 1, Policy = "kStatement" PROVE FALSE
    BY WorkFacts
  <2>2. Len(todo) = 1 /\ AtProgram(todo[1])
    BY <1>1, <2>1 DEF WorkStarts, Working, NothingTaken
  <2> QED BY <1>1, <2>2, FirstItem, WorkFacts
<1>3. N >= 1 => Policy = "kStatement" /\ FollowsAny(N, {"kFun"} \cup Opening)
  BY <1>1 DEF WorkStarts, Working, PastHead
<1>4. Len(read) = N
  <2>1. SUFFICES ASSUME Len(read) # N PROVE FALSE
    OBVIOUS
  <2>2. Len(read) + 1 \in 1 .. N /\ ahead = K(Len(read) + 1)
    BY <2>1, WorkFacts DEF Exact
  <2> QED BY <1>1, <2>2, GivenFacts DEF WorkStarts
<1>5. status' = "error" => Failed'
  <2>1. /\ N' = N /\ Policy' = Policy
        /\ \A i, kinds : FollowsAny(i, kinds)' = FollowsAny(i, kinds)
        /\ \A i : K(i)' = K(i)
    BY SameFacts DEF WorkStarts
  <2>2. Rejected(Len(read), TRUE)
    BY DEF WorkStarts, Working, Rejected
  <2>3. SUFFICES ASSUME status' = "error" PROVE Failed'
    OBVIOUS
  <2>4. at' = N + 1 /\ at' - 1 = Len(read)
    BY <1>1, <1>4, <2>3, WorkFacts
  <2>5. Rejected(at - 1, TRUE)'
    BY <2>1, <2>2, <2>4 DEF Rejected
  <2>6. N <= 1 => Policy = "kExpression"
    BY <1>2, WorkFacts
  <2> QED BY <1>3, <2>1, <2>4, <2>5, <2>6 DEF Failed
<1>6. Policy # "kStatement" => N = 0
  BY <1>3, WorkFacts
<1> QED BY <1>1, <1>2, <1>5, <1>6

-----------------------------------------------------------------------------
(* The parser's part of the invariant is kept.                              *)

LEMMA ViewsWork ==
  ASSUME Given, status = "new", ParserInv, P!SetViews(Views), Same
  PROVE  status' = "parsing" /\ source' = Views /\ at' = 0 /\ Working'
<1>1. /\ read = <<>> /\ at = 0 /\ status' = "parsing" /\ source' = Views /\ at' = 0
      /\ read' = read /\ ahead' \in P!After(Views, 0)
  BY DEF ParserInv, P!SetViews
<1> DEFINE first == IF Policy = "kExpression" THEN P!Call("next_expression") ELSE P!Loop("parse", 0)
           u == <<first>>
<1>2. todo' = u
  BY DEF P!SetViews, Views
<1>3. IsSeq(read') /\ Len(read') = 0 /\ N \in Nat
  BY <1>1, NoneFine, GivenFacts DEF Fine
<1>4. ahead' = IF 0 < N THEN K(1) ELSE P!Past
  <2>1. 0 \in Nat /\ 0 + 1 = 1
    OBVIOUS
  <2>2. P!After(Views, 0) = IF 0 < N THEN {K(0 + 1)} ELSE {P!Past}
    BY <2>1, ViewsAhead DEF Given
  <2> QED BY <1>1, <2>1, <2>2
<1>5. Suits(first, FALSE) /\ (Policy = "kExpression" => Suits(first, TRUE))
  BY CallSuits, LoopSuits DEF OnTopOnly, ExprFunctions
<1>6. Fine(u, FALSE) /\ (Policy = "kExpression" => Fine(u, TRUE))
  BY <1>5, Fine1
<1>7. IsSeq(u) /\ Guarded(u, read')
  BY <1>6, FineFacts
<1>8. /\ Len(u) = 1 /\ u[1] = first /\ u # <<>>
      /\ Policy = "kStatement" => IsLoop(first, "parse")
      /\ Policy = "kExpression" => Descends(first)
  BY DEF IsLoop, Descends, P!Loop, P!Call, P!Item
<1>9. /\ N' = N /\ Policy' = Policy
      /\ \A i, kinds : FollowsAny(i, kinds)' = FollowsAny(i, kinds)
      /\ \A i : K(i)' = K(i)
  BY SameFacts
<1> HIDE DEF u, first
<1>10. Exact'
  BY <1>3, <1>4, <1>9 DEF Exact
<1>11. (Policy = "kExpression" => \A i \in 1 .. Len(todo) : ExprItem(todo[i]))'
  BY <1>2, <1>6, <1>9 DEF Fine, Suits
<1>12. (Policy = "kStatement" => LoopsLast)'
  BY <1>2, <1>8, <1>9 DEF LoopsLast
<1>13. ~ (ahead' = P!Past /\ N' >= 1)
  <2>1. ASSUME N >= 1 PROVE ahead' # P!Past
    <3>1. 1 \in 1 .. N /\ 0 < N
      BY <1>3, <2>1
    <3> QED BY <1>4, <3>1, GivenFacts
  <2> QED BY <1>9, <2>1
<1>14. NothingTaken'
  BY <1>2, <1>3, <1>8, <1>9 DEF NothingTaken, AtProgram
<1>15. Rejected(Len(read), todo # <<>> /\ IsCall(todo[1], "throw"))'
  BY <1>3 DEF Rejected
<1> QED BY <1>1, <1>2, <1>7, <1>10, <1>11, <1>12, <1>13, <1>14, <1>15 DEF Working

LEMMA StepParses == P!Step => status = "parsing"
  BY DEF P!Step, P!Enter, P!Choose, P!Nothing, P!Want, P!Identifier, P!TakeName, P!Optional,
     P!Possible, P!MakeNode, P!Assigned, P!Target, P!Operator, P!Unary, P!Calls, P!Primary,
     P!BeginList, P!Parameter, P!ThrowParameter, P!NextElement, P!MakeList, P!BeginStmts,
     P!NextStmt, P!NextDeclaration, P!Skip, P!Accept, P!Overrun, P!AboutToOverrun, P!Calling,
     P!Looping, P!Doing

\* After an error nothing else is done.
LEMMA OnlySkips ==
  ASSUME P!Step, todo = <<Skipping>>
  PROVE  P!Skip
<1>1. P!Top.do = "skip" /\ todo # <<>>
  <2>1. P!Top = Skipping /\ todo # <<>>
    BY DEF P!Top
  <2>2. Skipping.do = "skip"
    BY DEF Skipping, P!Item
  <2> QED BY <2>1, <2>2
<1> QED BY <1>1 DEF P!Step, P!Enter, P!Choose, P!Nothing, P!Want, P!Identifier, P!TakeName,
     P!Optional,
     P!Possible, P!MakeNode, P!Assigned, P!Target, P!Operator, P!Unary, P!Calls, P!Primary,
     P!BeginList, P!Parameter, P!ThrowParameter, P!NextElement, P!MakeList, P!BeginStmts,
     P!NextStmt, P!NextDeclaration, P!Skip, P!Accept, P!Overrun, P!AboutToOverrun, P!Calling,
     P!Looping, P!Doing

LEMMA FailedKept ==
  ASSUME Failed, Same, at' = at
  PROVE  Failed'
<1>1. /\ N' = N /\ Policy' = Policy
      /\ \A i, kinds : FollowsAny(i, kinds)' = FollowsAny(i, kinds)
      /\ \A i : K(i)' = K(i)
  BY SameFacts
<1>2. Rejected(at - 1, TRUE) => Rejected(at - 1, TRUE)'
  BY <1>1 DEF Rejected
<1> QED BY <1>1, <1>2 DEF Failed

LEMMA ParserKept ==
  ASSUME Given, source = Views, ParserInv, P!Step, Same
  PROVE  ParserInv' /\ status' # "new"
<1>1. status = "parsing"
  BY StepParses
<1>2. CASE at = 0
  <2>1. WorkStarts
    BY <1>1, <1>2 DEF WorkStarts, ParserInv
  <2>2. Moved
    BY <2>1, StepMoves, WorkFacts
  <2>3. CASE \E u : Stays(u) \/ Shifts(u)
    BY <2>1, <2>3, StaysWorks, ShiftsWorks DEF ParserInv
  <2>4. CASE Takes \/ Looks
    BY <2>1, <2>4, TakesWorks, LooksWorks DEF ParserInv
  <2>5. CASE Fails
    BY <2>1, <2>5, FailsFails DEF ParserInv
  <2>6. CASE P!Skip
    BY <2>1, <2>6, WorkFacts, FirstTells DEF P!Skip, P!Doing
  <2>7. CASE P!Accept
    BY <2>1, <2>7, AcceptSucceeds DEF ParserInv
  <2>8. CASE P!Overrun
    <3>1. N' = N /\ Policy' = Policy
      BY SameFacts
    <3> QED BY <2>1, <2>8, <3>1, OverrunEnds DEF ParserInv
  <2> QED BY <2>2, <2>3, <2>4, <2>5, <2>6, <2>7, <2>8 DEF Moved
<1>3. CASE at # 0
  <2>1. todo = <<Skipping>> /\ Failed
    BY <1>1, <1>3 DEF ParserInv
  <2>2. P!Skip
    BY <2>1, OnlySkips
  <2>3. at' = at /\ (status' = "error" \/ (status' = status /\ todo' = todo))
    BY <2>2 DEF P!Skip
  <2>4. Failed'
    BY <2>1, <2>3, FailedKept
  <2> QED BY <1>1, <1>3, <2>1, <2>3, <2>4 DEF ParserInv
<1> QED BY <1>2, <1>3

\* a step of another part
LEMMA ParserUntouched ==
  ASSUME ParserInv, UNCHANGED <<lexerVars, parserVars, command>>
  PROVE  ParserInv'
<1>1. /\ Same /\ read' = read /\ ahead' = ahead /\ todo' = todo /\ status' = status /\ at' = at
  BY DEF lexerVars, parserVars, Same
<1>2. /\ N' = N /\ Policy' = Policy
      /\ \A i, kinds : FollowsAny(i, kinds)' = FollowsAny(i, kinds)
      /\ \A i : K(i)' = K(i)
  BY <1>1, SameFacts
<1>3. Exact => Exact'
  BY <1>1, <1>2 DEF Exact
<1>4. LoopsLast => LoopsLast'
  BY <1>1 DEF LoopsLast, P!AtEnd
<1>5. PastHead => PastHead'
  BY <1>1, <1>2 DEF PastHead
<1>6. NothingTaken => NothingTaken'
  BY <1>1, <1>2 DEF NothingTaken
<1>7. \A n : \A last \in BOOLEAN : Rejected(n, last) => Rejected(n, last)'
  BY <1>2 DEF Rejected
<1>8. Working => Working'
  <2>1. SUFFICES ASSUME Working PROVE Working'
    OBVIOUS
  <2>2. Rejected(Len(read), todo # <<>> /\ IsCall(todo[1], "throw"))'
    BY <1>1, <1>2, <2>1 DEF Working, Rejected
  <2>3. Exact' /\ (N <= 1 => NothingTaken)' /\ (ahead = P!Past /\ N >= 1 => PastHead)'
    BY <1>1, <1>2, <1>3, <1>5, <1>6, <2>1 DEF Working
  <2>4. (Policy = "kStatement" => LoopsLast)'
    BY <1>2, <1>4, <2>1 DEF Working
  <2>5. IsSeq(todo') /\ Guarded(todo', read')
    BY <1>1, <2>1 DEF Working
  <2>6. (Policy = "kExpression" => \A i \in 1 .. Len(todo) : ExprItem(todo[i]))'
    BY <1>1, <1>2, <2>1 DEF Working
  <2> QED BY <2>2, <2>3, <2>4, <2>5, <2>6 DEF Working
<1>9. Failed => Failed'
  BY <1>1, FailedKept
<1>10. Succeeded => Succeeded'
  <2>1. SUFFICES ASSUME Succeeded PROVE Succeeded'
    OBVIOUS
  <2>2. Rejected(Len(read), FALSE)'
    BY <1>1, <1>2, <2>1 DEF Succeeded, Rejected
  <2> QED BY <1>1, <1>2, <1>3, <2>1, <2>2 DEF Succeeded
<1> QED BY <1>1, <1>2, <1>8, <1>9, <1>10 DEF ParserInv

-----------------------------------------------------------------------------
(* The whole invariant.                                                     *)

LEMMA PipelineInitInv == PipelineInit => PipelineInv
<1> SUFFICES ASSUME PipelineInit PROVE PipelineInv
  OBVIOUS
<1>1. IsSeq(<<>>) /\ Len(<<>>) = 0
  BY NoneFine DEF Fine
<1>2. /\ tokens = <<>> /\ lexing = FALSE /\ calls = 0 /\ error_count = 0 /\ stage = "begin"
      /\ status = "new" /\ read = <<>> /\ at = 0 /\ lexer = "null"
  BY DEF PipelineInit, Init, L!Init, P!Init
<1>3. LexerInv
  <2>1. lexing \in BOOLEAN /\ ~ lexing
    BY <1>2, Zenon
  <2>2. IsSeq(tokens) /\ calls \in 0 .. 2
    BY <1>1, <1>2
  <2> QED BY <1>2, <2>1, <2>2 DEF LexerInv
<1> QED BY <1>2, <1>3 DEF PipelineInv, ParserInv, HandOver

\* next_token adds at most one token, which is not the end of file, and counts no
\* error without one.
LEMMA TokenAdded ==
  ASSUME L!NextToken
  PROVE  /\ lexing /\ contents' = contents /\ lexing' = lexing /\ calls' = calls
         /\ \/ tokens' = tokens /\ error_count' = error_count
            \/ \E t : tokens' = Append(tokens, t) /\ t.type # "kEndOfFile"
<1>1. ASSUME NEW type, NEW q, L!AddToken(type, q), type # "kEndOfFile"
      PROVE  \E t : tokens' = Append(tokens, t) /\ t.type # "kEndOfFile"
  <2>1. L!Token(type, cursor, q, current_line').type = type
    BY DEF L!Token
  <2> QED BY <1>1, <2>1 DEF L!AddToken
<1>2. CASE L!LexSingle
  BY <1>1, <1>2 DEF L!LexSingle, L!Begins
<1>3. CASE L!LexPairing
  BY <1>1, <1>3 DEF L!LexPairing, L!Begins
<1>4. CASE L!LexSlash
  BY <1>1, <1>4 DEF L!LexSlash, L!Begins
<1>5. CASE L!SkipSpace
  BY <1>5 DEF L!SkipSpace, L!Begins
<1>6. CASE L!LexString
  BY <1>1, <1>6 DEF L!LexString, L!Begins, L!AddLexError
<1>7. CASE L!LexNumber
  BY <1>1, <1>7 DEF L!LexNumber, L!Begins
<1>8. CASE L!LexWord
  BY <1>1, <1>8 DEF L!LexWord, L!Begins
<1>9. CASE L!LexUnexpected
  BY <1>1, <1>9 DEF L!LexUnexpected, L!Begins, L!AddLexError
<1> QED BY <1>2, <1>3, <1>4, <1>5, <1>6, <1>7, <1>8, <1>9 DEF L!NextToken

\* a step of the lexer, in the stage before there is a parser
LEMMA LexerKept ==
  ASSUME PipelineInv, LoadFile \/ LexerStep
  PROVE  PipelineInv'
<1>1. /\ stage = "lex" /\ command \in NeedsLex /\ files = 1 /\ status = "new"
      /\ stage' = stage /\ command' = command /\ files' = files /\ lexer' = lexer
      /\ parse_result' = parse_result
      /\ read' = read /\ at' = at /\ status' = status /\ source' = source
  BY DEF LoadFile, LexerStep, Tokenizing, vars, parserVars, PipelineInv, HandOver
<1>2. ParserInv' /\ HandOver'
  BY <1>1 DEF PipelineInv, ParserInv, HandOver
<1>3. CASE LoadFile
  BY <1>1, <1>2, <1>3 DEF LoadFile, L!Load, PipelineInv, LexerInv
<1>4. CASE calls = 1 /\ L!Lex
  BY <1>1, <1>2, <1>4 DEF L!Lex, PipelineInv, LexerInv, Unfinished, OnlyLastEnds, N
<1>5. ASSUME NEW t, tokens' = Append(tokens, t)
      PROVE  /\ IsSeq(tokens') /\ N' = N + 1 /\ N' >= 1 /\ (N >= 1 => N' >= 2) /\ N \in Nat
             /\ \A i \in 1 .. N' : i = N' \/ i \in 1 .. N
             /\ tokens'[N'] = t /\ \A i \in 1 .. N : tokens'[i] = tokens[i]
  <2>1. IsSeq(tokens)
    BY DEF PipelineInv, LexerInv
  <2>2. N \in Nat
    BY <2>1, SeqLength DEF N
  <2>3. /\ IsSeq(tokens') /\ N' = N + 1 /\ tokens'[N + 1] = t
        /\ \A i \in 1 .. N : tokens'[i] = tokens[i]
    BY <1>5, <2>1, Appending DEF N
  <2> QED BY <2>2, <2>3
<1>6. CASE L!NextToken
  <2>1. /\ lexing /\ lexing' = lexing /\ calls' = calls
        /\ \/ tokens' = tokens /\ error_count' = error_count
           \/ \E t : tokens' = Append(tokens, t) /\ t.type # "kEndOfFile"
    BY <1>6, TokenAdded
  <2>2. calls = 2 /\ Unfinished /\ IsSeq(tokens)
    BY <2>1 DEF PipelineInv, LexerInv
  <2>3. CASE tokens' = tokens /\ error_count' = error_count
    BY <1>1, <1>2, <2>1, <2>2, <2>3
       DEF PipelineInv, LexerInv, Unfinished, OnlyLastEnds, N
  <2>4. CASE \E t : tokens' = Append(tokens, t) /\ t.type # "kEndOfFile"
    <3>1. PICK t : tokens' = Append(tokens, t) /\ t.type # "kEndOfFile"
      BY <2>4
    <3>2. /\ IsSeq(tokens') /\ N' >= 1 /\ \A i \in 1 .. N' : i = N' \/ i \in 1 .. N
          /\ tokens'[N'] = t /\ \A i \in 1 .. N : tokens'[i] = tokens[i]
      BY <1>5, <3>1
    <3>3. \A i \in 1 .. N : tokens[i].type # "kEndOfFile"
      BY <2>2 DEF Unfinished, OnlyLastEnds
    <3>4. Unfinished'
      <4>1. \A i \in 1 .. N' : tokens'[i].type # "kEndOfFile"
        BY <3>1, <3>2, <3>3
      <4>2. \A i \in 1 .. N' : i # 0
        OBVIOUS
      <4>3. OnlyLastEnds(0)'
        BY <4>1, <4>2 DEF OnlyLastEnds
      <4> QED BY <3>2, <4>3 DEF Unfinished
    <3> QED BY <1>1, <1>2, <2>1, <2>2, <3>2, <3>4 DEF PipelineInv, LexerInv
  <2> QED BY <2>1, <2>3, <2>4
<1>7. CASE L!EndLex
  <2> DEFINE t == L!Token("kEndOfFile", cursor, cursor, current_line)
  <2>1. /\ lexing /\ ~ lexing' /\ lexing' \in BOOLEAN /\ calls' = calls
        /\ error_count' = error_count /\ tokens' = Append(tokens, t)
        /\ t.type = "kEndOfFile"
    BY <1>7 DEF L!EndLex, L!Token
  <2> HIDE DEF t
  <2>2. calls = 2 /\ Unfinished /\ IsSeq(tokens)
    BY <2>1 DEF PipelineInv, LexerInv
  <2>3. /\ IsSeq(tokens') /\ N' >= 1 /\ (N >= 1 => N' >= 2)
        /\ N' = N + 1 /\ N \in Nat /\ \A i \in 1 .. N' : i = N' \/ i \in 1 .. N
        /\ tokens'[N'] = t /\ \A i \in 1 .. N : tokens'[i] = tokens[i]
    BY <1>5, <2>1
  <2>4. \A i \in 1 .. N : tokens[i].type # "kEndOfFile" /\ i # N + 1
    BY <2>2, <2>3 DEF Unfinished, OnlyLastEnds
  <2>5. OnlyLastEnds(N)'
    <3>1. \A i \in 1 .. N' : tokens'[i].type = "kEndOfFile" <=> i = N'
      BY <2>1, <2>3, <2>4
    <3> QED BY <3>1 DEF OnlyLastEnds
  <2>6. Finished'
    BY <2>1, <2>2, <2>3, <2>5 DEF Finished, Unfinished
  <2> QED BY <1>1, <1>2, <2>1, <2>2, <2>3, <2>6 DEF PipelineInv, LexerInv
<1> QED BY <1>3, <1>4, <1>6, <1>7 DEF LexerStep

\* a step of another part than the lexer
LEMMA LexerUntouched ==
  ASSUME PipelineInv, UNCHANGED <<lexerVars, command, files>>, stage' # "begin",
         stage' \notin {"begin", "lex"} =>
           \/ lexer' \in {"null", "none"} /\ calls = 0
           \/ lexer' = "eof" /\ calls = 2 /\ ~ lexing /\ N = 1
           \/ lexer' = "some" /\ calls = 2 /\ ~ lexing /\ N > 1
  PROVE  LexerInv'
<1>1. /\ tokens' = tokens /\ lexing' = lexing /\ calls' = calls /\ error_count' = error_count
      /\ command' = command /\ files' = files
  BY DEF lexerVars
<1>2. N' = N /\ (Unfinished => Unfinished') /\ (Finished => Finished')
  BY <1>1 DEF Unfinished, Finished, OnlyLastEnds, N
<1> QED BY <1>1, <1>2 DEF PipelineInv, LexerInv

\* the tokens that a parser is given
LEMMA StageGiven ==
  ASSUME PipelineInv, stage \notin {"begin", "lex"}
  PROVE  /\ Given /\ N \in Nat
         /\ lexer = "none" => N = 0
         /\ lexer = "eof" => N = 1
         /\ lexer = "some" => N > 1
         /\ lexer \in {"null", "none", "eof", "some"}
<1>1. Given
  BY DEF PipelineInv, LexerInv, Given
<1> QED BY <1>1, GivenFacts DEF PipelineInv, LexerInv

LEMMA StagesKept ==
  ASSUME PipelineInv,
         \/ NoLexing \/ FailLoad \/ EndTokenize \/ NoParsing \/ NoLexer \/ EndParse
         \/ MainStep \/ (Ended /\ UNCHANGED <<lexerVars, parserVars>>)
  PROVE  PipelineInv'
<1>1. /\ UNCHANGED <<lexerVars, parserVars, command>> /\ UNCHANGED <<lexerVars, command, files>>
      /\ status' = status /\ source' = source /\ calls' = calls
  BY DEF NoLexing, FailLoad, EndTokenize, NoParsing, NoLexer, EndParse, MainStep, Ended, Begin,
     ReportTokens, ParseFailed, Run, ReportRun, CommandNotFound, ReportTree, lexerVars,
     parserVars, vars
<1>2. ParserInv'
  BY <1>1, ParserUntouched DEF PipelineInv
<1>3. Views' = Views
  BY <1>1, SameFacts DEF Same, lexerVars
<1>4. CASE NoLexing
  <2>1. stage = "lex" /\ stage' = "lexed" /\ lexer' = lexer /\ ~ (command \in NeedsLex /\ files = 1)
    BY <1>4 DEF NoLexing, Tokenizing
  <2>2. calls = 0 /\ status = "new"
    BY <2>1 DEF PipelineInv, LexerInv, HandOver
  <2>3. lexer = "null"
    BY <2>1 DEF PipelineInv, HandOver
  <2> QED BY <1>1, <1>2, <2>1, <2>2, <2>3, LexerUntouched DEF PipelineInv, HandOver
<1>5. CASE FailLoad
  <2>1. stage = "lex" /\ stage' = "lexed" /\ lexer' = "none" /\ calls = 0
    BY <1>5 DEF FailLoad, Tokenizing
  <2>2. status = "new"
    BY <2>1 DEF PipelineInv, HandOver
  <2> QED BY <1>1, <1>2, <2>1, <2>2, LexerUntouched DEF PipelineInv, HandOver
<1>6. CASE EndTokenize
  <2>1. /\ stage = "lex" /\ stage' = "lexed" /\ calls = 2 /\ ~ lexing
        /\ lexer' = IF N = 1 THEN "eof" ELSE "some"
    BY <1>6 DEF EndTokenize, Tokenizing, N
  <2>2. status = "new" /\ Finished /\ IsSeq(tokens)
    BY <2>1 DEF PipelineInv, HandOver, LexerInv
  <2>3. N = 1 \/ N > 1
    BY <2>2, SeqLength DEF Finished, N
  <2> QED BY <1>1, <1>2, <2>1, <2>2, <2>3, LexerUntouched DEF PipelineInv, HandOver
<1>7. CASE NoParsing \/ NoLexer
  <2>1. /\ stage = "lexed" /\ stage' \in {"parsed", "crashed"} /\ lexer' = lexer
        /\ stage' = "parsed" => command \notin NeedsParse
    BY <1>7 DEF NoParsing, NoLexer, Parsing, Crash, NeedsParse
  <2> QED BY <1>1, <1>2, <1>3, <2>1, LexerUntouched DEF PipelineInv, LexerInv, HandOver
<1>8. CASE EndParse
  <2>1. /\ stage = "lexed" /\ stage' \in {"parsed", "crashed"} /\ lexer' = lexer
        /\ stage' = "parsed" =>
             \/ parse_result' = "ok" /\ status = "ok"
             \/ parse_result' = "parseError" /\ status = "error"
    BY <1>8 DEF EndParse, Parsing, Crash
  <2> QED BY <1>1, <1>2, <1>3, <2>1, LexerUntouched DEF PipelineInv, LexerInv, HandOver
<1>9. CASE MainStep
  <2>1. /\ lexer' = lexer /\ stage' \notin {"begin", "parsed"} /\ stage # "lex"
        /\ stage' = "lex" => stage = "begin"
        /\ stage' \in {"run", "crashed"} => stage \notin {"begin", "lex"}
    BY <1>9 DEF MainStep, Begin, ReportTokens, ParseFailed, Run, ReportRun, CommandNotFound,
       ReportTree, Crash, Exit
  <2>2. CASE stage' = "lex"
    <3>1. status = "new"
      BY <2>1, <2>2 DEF PipelineInv, HandOver
    <3> QED BY <1>1, <1>2, <2>1, <2>2, <3>1, LexerUntouched DEF PipelineInv, HandOver
  <2>3. CASE stage = "begin" /\ stage' # "lex"
    <3>1. status = "new" /\ lexer = "null" /\ calls = 0
      BY <2>3 DEF PipelineInv, LexerInv, HandOver
    <3>2. stage' = "done"
      BY <2>1, <2>3, <1>9 DEF MainStep, Begin, ReportTokens, ParseFailed, Run, ReportRun,
         CommandNotFound, ReportTree, Crash, Exit
    <3> QED BY <1>1, <1>2, <2>1, <2>3, <3>1, <3>2, LexerUntouched DEF PipelineInv, HandOver
  <2>4. CASE stage \notin {"begin", "lex"} /\ stage' \notin {"begin", "lex"}
    BY <1>1, <1>2, <1>3, <2>1, <2>4, LexerUntouched DEF PipelineInv, LexerInv, HandOver
  <2> QED BY <2>1, <2>2, <2>3, <2>4
<1>10. CASE Ended /\ UNCHANGED <<lexerVars, parserVars>>
  <2>1. lexer' = lexer /\ stage' = stage /\ stage \in {"done", "crashed"}
    BY <1>10 DEF Ended, vars
  <2> QED BY <1>1, <1>2, <1>3, <2>1, LexerUntouched DEF PipelineInv, LexerInv, HandOver
<1> QED BY <1>4, <1>5, <1>6, <1>7, <1>8, <1>9, <1>10

\* a step of the parser, on the tokens of the lexer
LEMMA ParserStepKept ==
  ASSUME PipelineInv, ParserStep
  PROVE  PipelineInv'
<1>1. /\ stage = "lexed" /\ command \in NeedsParse /\ lexer # "null"
      /\ stage' = stage /\ lexer' = lexer /\ command' = command /\ files' = files
      /\ parse_result' = parse_result
      /\ UNCHANGED lexerVars /\ UNCHANGED <<lexerVars, command, files>>
  BY DEF ParserStep, Parsing, vars
<1>2. LexerInv'
  BY <1>1, LexerUntouched DEF PipelineInv, LexerInv
<1>3. Given /\ Same
  BY <1>1, StageGiven DEF Same, lexerVars
<1>4. Views' = Views
  BY <1>3, SameFacts
<1>5. CASE P!SetViews(Views)
  <2>1. status = "new"
    BY <1>5 DEF P!SetViews
  <2>2. source' = Views /\ ParserInv'
    BY <1>3, <1>5, <2>1, ViewsWork DEF PipelineInv, ParserInv
  <2> QED BY <1>1, <1>2, <1>4, <2>2 DEF PipelineInv, HandOver
<1>6. CASE P!Step /\ UNCHANGED source
  <2>1. status # "new"
    BY <1>6, StepParses
  <2>2. source = Views
    BY <2>1 DEF PipelineInv, HandOver
  <2>3. ParserInv' /\ status' # "new"
    BY <1>3, <1>6, <2>2, ParserKept DEF PipelineInv
  <2> QED BY <1>1, <1>2, <1>4, <1>6, <2>1, <2>2, <2>3 DEF PipelineInv, HandOver
<1> QED BY <1>5, <1>6 DEF ParserStep

LEMMA PipelineNextInv == PipelineInv /\ [PipelineNext]_pipelineVars => PipelineInv'
<1> SUFFICES ASSUME PipelineInv, [PipelineNext]_pipelineVars PROVE PipelineInv'
  OBVIOUS
<1>1. CASE LoadFile \/ LexerStep
  BY <1>1, LexerKept
<1>2. CASE ParserStep
  BY <1>2, ParserStepKept
<1>3. CASE \/ NoLexing \/ FailLoad \/ EndTokenize \/ NoParsing \/ NoLexer \/ EndParse
           \/ MainStep \/ (Ended /\ UNCHANGED <<lexerVars, parserVars>>)
  BY <1>3, StagesKept
<1>4. CASE UNCHANGED pipelineVars
  <2>1. /\ UNCHANGED <<lexerVars, parserVars, command>> /\ UNCHANGED <<lexerVars, command, files>>
        /\ status' = status /\ source' = source /\ stage' = stage /\ lexer' = lexer
        /\ parse_result' = parse_result /\ command' = command
    BY <1>4 DEF pipelineVars, vars, parserVars
  <2>2. ParserInv'
    BY <2>1, ParserUntouched DEF PipelineInv
  <2>3. Views' = Views
    BY <2>1, SameFacts DEF Same, lexerVars
  <2>4. tokens' = tokens /\ lexing' = lexing /\ calls' = calls /\ error_count' = error_count
        /\ files' = files
    BY <2>1 DEF lexerVars
  <2>5. N' = N /\ (Unfinished => Unfinished') /\ (Finished => Finished')
    BY <2>4 DEF Unfinished, Finished, OnlyLastEnds, N
  <2>6. LexerInv'
    BY <2>1, <2>4, <2>5 DEF PipelineInv, LexerInv
  <2>7. HandOver'
    BY <2>1, <2>3 DEF PipelineInv, HandOver
  <2> QED BY <2>2, <2>6, <2>7 DEF PipelineInv
<1> QED BY <1>1, <1>2, <1>3, <1>4 DEF PipelineNext, PipelineStep

LEMMA PipelineInvariance == PipelineSpec => []PipelineInv
  BY PipelineInitInv, PipelineNextInv, PTL DEF PipelineSpec

-----------------------------------------------------------------------------
(* What the three stages do together is what Driver says.                   *)

LEMMA TokenizesAsDriver ==
  ASSUME PipelineInv, NoLexing \/ FailLoad \/ EndTokenize
  PROVE  Tokenize
<1>1. CASE NoLexing
  BY <1>1 DEF NoLexing, Tokenizing, Tokenize
<1>2. CASE FailLoad
  BY <1>2 DEF FailLoad, Tokenizing, Tokenize
<1>3. CASE EndTokenize
  <2>1. Finished /\ IsSeq(tokens)
    BY <1>3 DEF EndTokenize, Tokenizing, PipelineInv, LexerInv
  <2>2. error_count # 0 => N # 1
    <3>1. N \in Nat /\ (error_count # 0 => N >= 2)
      BY <2>1, SeqLength DEF Finished, N
    <3>2. N >= 2 => N # 1
      BY <3>1
    <3> QED BY <3>1, <3>2
  <2>3. /\ stage = "lex" /\ stage' = "lexed" /\ command \in NeedsLex /\ files = 1
        /\ lexer' = IF N = 1 THEN "eof" ELSE "some"
        /\ lex_result' = IF error_count = 0 THEN "ok" ELSE "lexError"
        /\ UNCHANGED <<command, files, parse_result, run_result, output, error, exit>>
    BY <1>3 DEF EndTokenize, Tokenizing, N
  <2>4. CASE N = 1
    <3>1. error_count = 0 /\ lexer' = "eof" /\ lex_result' = "ok"
      BY <2>2, <2>3, <2>4
    <3> QED BY <2>3, <3>1 DEF Tokenize
  <2>5. CASE N # 1
    <3>1. lexer' = "some" /\ lex_result' \in {"ok", "lexError"}
      BY <2>3, <2>5
    <3> QED BY <2>3, <3>1 DEF Tokenize
  <2> QED BY <2>4, <2>5
<1> QED BY <1>1, <1>2, <1>3

LEMMA ParsesAsDriver ==
  ASSUME PipelineInv, NoParsing \/ NoLexer \/ EndParse
  PROVE  Parse
<1>1. CASE NoParsing
  BY <1>1 DEF NoParsing, Parse, NeedsParse
<1>2. CASE NoLexer
  BY <1>2 DEF NoLexer, Parsing, Parse, NeedsParse
<1>3. CASE EndParse
  <2>1. stage = "lexed" /\ command \in NeedsParse /\ command # "lex"
    BY <1>3 DEF EndParse, Parsing, NeedsParse
  <2>2. /\ N \in Nat /\ lexer \in {"null", "none", "eof", "some"}
        /\ lexer = "none" => N = 0
        /\ lexer = "eof" => N = 1
        /\ lexer = "some" => N > 1
    BY <2>1, StageGiven
  <2>3. status # "new"
    BY <1>3 DEF EndParse
  <2>4. lexer # "null"
    BY <2>3 DEF PipelineInv, HandOver
  <2>5. Policy = IF command = "interpret" THEN "kStatement" ELSE "kExpression"
    BY DEF Policy
  <2>6. CASE status = "ok"
    <3>1. Succeeded
      BY <2>6 DEF PipelineInv, ParserInv
    <3>2. N <= 1 => Policy = "kStatement"
      BY <3>1 DEF Succeeded
    <3>3. "ok" \in ParseResults
      BY <2>2, <2>4, <2>5, <3>2 DEF ParseResults
    <3> QED BY <1>3, <2>1, <2>4, <2>6, <3>3 DEF EndParse, Parse
  <2>7. CASE status = "error"
    <3>1. Failed
      BY <2>7 DEF PipelineInv, ParserInv
    <3>2. N <= 1 => Policy = "kExpression"
      BY <3>1 DEF Failed
    <3>3. "parseError" \in ParseResults
      BY <2>2, <2>4, <2>5, <3>2 DEF ParseResults
    <3> QED BY <1>3, <2>1, <2>4, <2>7, <3>3 DEF EndParse, Parse
  <2>8. CASE status = "crashed"
    <3>1. IF Policy = "kStatement" THEN N > 1 ELSE N = 0
      BY <2>8 DEF PipelineInv, ParserInv
    <3>2. Overruns
      BY <2>2, <2>4, <2>5, <3>1 DEF Overruns
    <3> QED BY <1>3, <2>1, <2>8, <3>2 DEF EndParse, Parse
  <2> QED BY <1>3, <2>6, <2>7, <2>8 DEF EndParse
<1> QED BY <1>1, <1>2, <1>3

LEMMA StepRefines == PipelineInv /\ [PipelineNext]_pipelineVars => [Next]_vars
<1> SUFFICES ASSUME PipelineInv, [PipelineNext]_pipelineVars PROVE [Next]_vars
  OBVIOUS
<1>1. CASE NoLexing \/ FailLoad \/ EndTokenize
  BY <1>1, TokenizesAsDriver DEF Next
<1>2. CASE NoParsing \/ NoLexer \/ EndParse
  BY <1>2, ParsesAsDriver DEF Next
<1>3. CASE MainStep \/ Ended
  BY <1>3 DEF MainStep, Next
<1>4. CASE LoadFile \/ LexerStep \/ ParserStep \/ UNCHANGED pipelineVars
  BY <1>4 DEF LoadFile, LexerStep, ParserStep, pipelineVars
<1> QED BY <1>1, <1>2, <1>3, <1>4 DEF PipelineNext, PipelineStep

\* The stages together implement the driver: whatever the source text, what the
\* real lexer and the real parser hand to loxo_main is what Driver lets them hand
\* over, each result with the tokens and the command that go with it.
THEOREM PipelineImplementsDriver == PipelineSpec => ImplementsDriver
<1>1. PipelineInit => Init
  BY DEF PipelineInit
<1> QED BY <1>1, StepRefines, PipelineInvariance, PTL DEF PipelineSpec, ImplementsDriver, Spec

\* So the exit code of the whole program tells which stage failed, for every
\* source text.
THEOREM PipelineExitCodesTell == PipelineSpec => []ExitCodeTells
  BY PipelineImplementsDriver, ExitCodesTell DEF ImplementsDriver

-----------------------------------------------------------------------------
(* What the parser's result says of the tokens.                             *)

LEMMA ParsedFacts ==
  ASSUME PipelineInv, Parsed
  PROVE  /\ Given /\ Finished /\ N \in Nat /\ N >= 1
         /\ \/ parse_result = "ok" /\ status = "ok" /\ Succeeded
            \/ parse_result = "parseError" /\ status = "error" /\ Failed
<1>1. stage = "parsed" /\ command \in NeedsParse /\ tokens # <<>>
  BY DEF Parsed
<1>2. Given /\ N \in Nat
  BY <1>1, StageGiven
<1>3. Finished /\ N >= 1
  BY <1>1, <1>2 DEF Given, Finished
<1>4. \/ parse_result = "ok" /\ status = "ok"
      \/ parse_result = "parseError" /\ status = "error"
  BY <1>1 DEF PipelineInv, HandOver
<1> QED BY <1>2, <1>3, <1>4 DEF PipelineInv, ParserInv

\* An interpreted program is the whole source: the parser accepts no beginning of
\* it, whatever the text.
THEOREM WholeSourceIsRead == PipelineSpec => []WholeSourceRead
<1>1. ASSUME PipelineInv PROVE WholeSourceRead
  <2> SUFFICES ASSUME Parsed, parse_result = "ok", command = "interpret"
               PROVE  Len(read) = N - 1 /\ tokens[N].type = "kEndOfFile"
    BY DEF WholeSourceRead, N
  <2>1. Given /\ Finished /\ N \in Nat /\ N >= 1 /\ Succeeded
    BY <1>1, ParsedFacts
  <2>2. tokens[N].type = "kEndOfFile"
    BY <2>1 DEF Finished, OnlyLastEnds
  <2>3. ahead = P!Eof /\ Exact
    BY <2>1 DEF Succeeded, Policy
  <2>4. Len(read) = N - 1
    BY <2>1, <2>3, GivenFacts, KindFacts DEF Exact
  <2> QED BY <2>2, <2>4
<1> QED BY <1>1, PipelineInvariance, PTL

\* A token that the lexer rejected is not in what the parser accepts, nor before
\* the token that its error names, but for the name of a function and a parameter.
THEOREM ErrorsAreNotParsed == PipelineSpec => []ErrorsNotParsed
<1>1. ASSUME PipelineInv PROVE ErrorsNotParsed
  <2> DEFINE n == IF parse_result = "ok" THEN Len(read) ELSE at - 1
  <2> SUFFICES ASSUME Parsed, NEW i \in 1 .. n, i <= N, tokens[i].type = "kLexError"
               PROVE  \/ FollowsAny(i, {"kFun"})
                      \/ /\ parse_result = "parseError" /\ i = at - 1
                         /\ FollowsAny(i, {"kLeftParen", "kComma"})
    BY DEF ErrorsNotParsed, N
  <2>1. K(i) = P!Other
    BY KindFacts DEF K
  <2>2. CASE parse_result = "ok"
    <3>1. Rejected(Len(read), FALSE) /\ i \in 1 .. Len(read)
      BY <1>1, <2>2, ParsedFacts DEF Succeeded
    <3> QED BY <2>1, <3>1 DEF Rejected
  <2>3. CASE parse_result # "ok"
    <3>1. Rejected(at - 1, TRUE) /\ i \in 1 .. (at - 1) /\ parse_result = "parseError"
      BY <1>1, <2>3, ParsedFacts DEF Failed
    <3> QED BY <2>1, <3>1 DEF Rejected, Opening
  <2> QED BY <2>2, <2>3
<1> QED BY <1>1, PipelineInvariance, PTL

\* The message of a rejected source names one of its tokens, but where the end of
\* file stands for a function's name or a parameter: there it names the next one.
THEOREM ErrorsNameTokens == PipelineSpec => []ErrorNamesToken
<1>1. ASSUME PipelineInv PROVE ErrorNamesToken
  <2> SUFFICES ASSUME Parsed, parse_result = "parseError"
               PROVE  \/ at \in 1 .. N
                      \/ at = N + 1 /\ FollowsAny(N, {"kFun", "kLeftParen", "kComma"})
    BY DEF ErrorNamesToken, N
  <2>1. Failed /\ N >= 1
    BY <1>1, ParsedFacts
  <2>2. at \in 1 .. N \/ (at = N + 1 /\ FollowsAny(N, {"kFun"} \cup Opening))
    BY <2>1 DEF Failed
  <2>3. {"kFun"} \cup Opening = {"kFun", "kLeftParen", "kComma"}
    BY DEF Opening
  <2> QED BY <2>2, <2>3
<1> QED BY <1>1, PipelineInvariance, PTL


-----------------------------------------------------------------------------
(* The parser's own invariant.  A module proved from Parser as it is here   *)
(* gives it; the two instances of Parser take the same steps.               *)

\* which else an if has is of no account here
NoneOpen(node) == FALSE
PP == INSTANCE ParserProofs WITH Sources <- {}, Open <- NoneOpen

LEMMA SameStep == P!Step => PP!Step
<1>1. P!Enter => PP!Enter
  BY DEF P!Enter, PP!Enter, P!Doing, PP!Doing, P!Top, PP!Top, P!Then, PP!Then, P!Body,
         PP!Body, P!Call, PP!Call, P!Item, PP!Item, P!Expect, PP!Expect, P!Take, PP!Take,
         P!Opt, PP!Opt, P!Unless, PP!Unless, P!Loop, PP!Loop, P!Make, PP!Make, P!Levels,
         PP!Levels, P!Ops, PP!Ops, P!Operand, PP!Operand
<1>2. P!Choose => PP!Choose
  BY DEF P!Choose, PP!Choose, P!Doing, PP!Doing, P!Top, PP!Top, P!Then, PP!Then,
         P!Chooses, PP!Chooses, P!Otherwise, PP!Otherwise, P!Call, PP!Call, P!Item,
         PP!Item, P!Advance, PP!Advance, P!Get, PP!Get, P!After, PP!After, P!Eof, PP!Eof,
         P!Past, PP!Past, P!Other, PP!Other
<1>3. P!Nothing => PP!Nothing
  BY DEF P!Nothing, PP!Nothing, P!Calling, PP!Calling, P!Doing, PP!Doing, P!Top, PP!Top,
         P!Then, PP!Then, P!Null, PP!Null, P!Node, PP!Node
<1>4. P!Want => PP!Want
  BY DEF P!Want, PP!Want, P!Doing, PP!Doing, P!Top, PP!Top, P!Then, PP!Then, P!Advance,
         PP!Advance, P!Get, PP!Get, P!After, PP!After, P!Throw, PP!Throw, P!Discard,
         PP!Discard, P!Skimmed, PP!Skimmed, P!Item, PP!Item, P!Eof, PP!Eof, P!Past,
         PP!Past, P!Other, PP!Other
<1>5. P!Identifier => PP!Identifier
  BY DEF P!Identifier, PP!Identifier, P!Calling, PP!Calling, P!Doing, PP!Doing, P!Top,
         PP!Top, P!Then, PP!Then, P!Advance, PP!Advance, P!Get, PP!Get, P!After,
         PP!After, P!Throw, PP!Throw, P!Discard, PP!Discard, P!Skimmed, PP!Skimmed,
         P!Item, PP!Item, P!Node, PP!Node, P!Eof, PP!Eof, P!Past, PP!Past, P!Other,
         PP!Other
<1>6. P!TakeName => PP!TakeName
  BY DEF P!TakeName, PP!TakeName, P!Doing, PP!Doing, P!Top, PP!Top, P!Then, PP!Then,
         P!Advance, PP!Advance, P!Get, PP!Get, P!After, PP!After, P!Node, PP!Node, P!Eof,
         PP!Eof, P!Past, PP!Past, P!Other, PP!Other
<1>7. P!Optional => PP!Optional
  BY DEF P!Optional, PP!Optional, P!Doing, PP!Doing, P!Top, PP!Top, P!Then, PP!Then,
         P!Call, PP!Call, P!Item, PP!Item, P!Advance, PP!Advance, P!Get, PP!Get, P!After,
         PP!After, P!Null, PP!Null, P!Node, PP!Node, P!Eof, PP!Eof, P!Past, PP!Past,
         P!Other, PP!Other
<1>8. P!Possible => PP!Possible
  BY DEF P!Possible, PP!Possible, P!Doing, PP!Doing, P!Top, PP!Top, P!Then, PP!Then,
         P!Call, PP!Call, P!Item, PP!Item, P!Null, PP!Null, P!Node, PP!Node
<1>9. P!MakeNode => PP!MakeNode
  BY DEF P!MakeNode, PP!MakeNode, P!Doing, PP!Doing, P!Top, PP!Top, P!Then, PP!Then,
         P!Reduced, PP!Reduced, P!Node, PP!Node, P!Arity, PP!Arity
<1>10. P!Assigned => PP!Assigned
  BY DEF P!Assigned, PP!Assigned, P!Calling, PP!Calling, P!Doing, PP!Doing, P!Top,
         PP!Top, P!Then, PP!Then, P!Call, PP!Call, P!Item, PP!Item, P!Advance,
         PP!Advance, P!Get, PP!Get, P!After, PP!After, P!Eof, PP!Eof, P!Past, PP!Past,
         P!Other, PP!Other
<1>11. P!Target => PP!Target
  BY DEF P!Target, PP!Target, P!Calling, PP!Calling, P!Doing, PP!Doing, P!Top, PP!Top,
         P!Then, PP!Then, P!Make, PP!Make, P!Item, PP!Item, P!Throw, PP!Throw, P!Discard,
         PP!Discard, P!Get, PP!Get, P!Skimmed, PP!Skimmed, P!After, PP!After, P!Eof,
         PP!Eof, P!Past, PP!Past, P!Other, PP!Other
<1>12. P!Operator => PP!Operator
  BY DEF P!Operator, PP!Operator, P!Doing, PP!Doing, P!Top, PP!Top, P!Then, PP!Then,
         P!Levels, PP!Levels, P!Ops, PP!Ops, P!Call, PP!Call, P!Item, PP!Item, P!Make,
         PP!Make, P!RightOperand, PP!RightOperand, P!Operand, PP!Operand, P!OpNode,
         PP!OpNode, P!Advance, PP!Advance, P!Get, PP!Get, P!After, PP!After, P!Eof,
         PP!Eof, P!Past, PP!Past, P!Other, PP!Other
<1>13. P!Unary => PP!Unary
  BY DEF P!Unary, PP!Unary, P!Calling, PP!Calling, P!Doing, PP!Doing, P!Top, PP!Top,
         P!Then, PP!Then, P!Call, PP!Call, P!Item, PP!Item, P!Make, PP!Make, P!Advance,
         PP!Advance, P!Get, PP!Get, P!After, PP!After, P!Eof, PP!Eof, P!Past, PP!Past,
         P!Other, PP!Other
<1>14. P!Calls => PP!Calls
  BY DEF P!Calls, PP!Calls, P!Looping, PP!Looping, P!Doing, PP!Doing, P!Top, PP!Top,
         P!Then, PP!Then, P!Call, PP!Call, P!Item, PP!Item, P!Make, PP!Make, P!Advance,
         PP!Advance, P!Get, PP!Get, P!After, PP!After, P!Eof, PP!Eof, P!Past, PP!Past,
         P!Other, PP!Other
<1>15. P!Primary => PP!Primary
  BY DEF P!Primary, PP!Primary, P!Calling, PP!Calling, P!Doing, PP!Doing, P!Top, PP!Top,
         P!Then, PP!Then, P!Constants, PP!Constants, P!Advance, PP!Advance, P!Get,
         PP!Get, P!After, PP!After, P!Node, PP!Node, P!Call, PP!Call, P!Item, PP!Item,
         P!Expect, PP!Expect, P!Make, PP!Make, P!Throw, PP!Throw, P!Discard, PP!Discard,
         P!Skimmed, PP!Skimmed, P!Eof, PP!Eof, P!Past, PP!Past, P!Other, PP!Other
<1>16. P!BeginList => PP!BeginList
  BY DEF P!BeginList, PP!BeginList, P!Doing, PP!Doing, P!Top, PP!Top, P!Then, PP!Then,
         P!Call, PP!Call, P!Item, PP!Item, P!Loop, PP!Loop, P!Expect, PP!Expect
<1>17. P!Parameter => PP!Parameter
  BY DEF P!Parameter, PP!Parameter, P!Calling, PP!Calling, P!Doing, PP!Doing, P!Top,
         PP!Top, P!Then, PP!Then, P!Node, PP!Node, P!Call, PP!Call, P!Item, PP!Item,
         P!Advance, PP!Advance, P!Get, PP!Get, P!After, PP!After, P!Eof, PP!Eof, P!Past,
         PP!Past, P!Other, PP!Other
<1>18. P!ThrowParameter => PP!ThrowParameter
  BY DEF P!ThrowParameter, PP!ThrowParameter, P!Calling, PP!Calling, P!Doing, PP!Doing,
         P!Top, PP!Top, P!Throw, PP!Throw, P!Discard, PP!Discard, P!Get, PP!Get,
         P!Skimmed, PP!Skimmed, P!After, PP!After, P!Item, PP!Item, P!Eof, PP!Eof,
         P!Past, PP!Past, P!Other, PP!Other
<1>19. P!NextElement => PP!NextElement
  BY DEF P!NextElement, PP!NextElement, P!Doing, PP!Doing, P!Top, PP!Top, P!Then,
         PP!Then, P!Throw, PP!Throw, P!Discard, PP!Discard, P!Get, PP!Get, P!Skimmed,
         PP!Skimmed, P!After, PP!After, P!Item, PP!Item, P!Call, PP!Call, P!Loop,
         PP!Loop, P!Advance, PP!Advance, P!Eof, PP!Eof, P!Past, PP!Past, P!Other,
         PP!Other
<1>20. P!MakeList => PP!MakeList
  BY DEF P!MakeList, PP!MakeList, P!Looping, PP!Looping, P!Doing, PP!Doing, P!Top,
         PP!Top, P!Then, PP!Then, P!EndOfList, PP!EndOfList, P!Reduced, PP!Reduced,
         P!Node, PP!Node
<1>21. P!BeginStmts => PP!BeginStmts
  BY DEF P!BeginStmts, PP!BeginStmts, P!Calling, PP!Calling, P!Doing, PP!Doing, P!Top,
         PP!Top, P!Then, PP!Then, P!Loop, PP!Loop, P!Item, PP!Item, P!Expect, PP!Expect
<1>22. P!NextStmt => PP!NextStmt
  BY DEF P!NextStmt, PP!NextStmt, P!Looping, PP!Looping, P!Doing, PP!Doing, P!Top,
         PP!Top, P!AtEnd, PP!AtEnd, P!Then, PP!Then, P!Call, PP!Call, P!Item, PP!Item,
         P!Loop, PP!Loop, P!Eof, PP!Eof, P!Past, PP!Past, P!Other, PP!Other
<1>23. P!NextDeclaration => PP!NextDeclaration
  BY DEF P!NextDeclaration, PP!NextDeclaration, P!Looping, PP!Looping, P!Doing, PP!Doing,
         P!Top, PP!Top, P!AtEnd, PP!AtEnd, P!Then, PP!Then, P!Call, PP!Call, P!Item,
         PP!Item, P!Loop, PP!Loop, P!Eof, PP!Eof, P!Past, PP!Past, P!Other, PP!Other
<1>24. P!Skip => PP!Skip
  BY DEF P!Skip, PP!Skip, P!Doing, PP!Doing, P!Top, PP!Top, P!AtEnd, PP!AtEnd, P!Discard,
         PP!Discard, P!Get, PP!Get, P!Skimmed, PP!Skimmed, P!After, PP!After, P!Eof,
         PP!Eof, P!Past, PP!Past, P!Other, PP!Other
<1>25. P!Accept => PP!Accept
  BY DEF P!Accept, PP!Accept
<1>26. P!Overrun => PP!Overrun
  BY DEF P!Overrun, PP!Overrun, P!AboutToOverrun, PP!AboutToOverrun, P!Doing, PP!Doing,
         P!Calling, PP!Calling, P!Top, PP!Top, P!Eof, PP!Eof, P!Past, PP!Past, P!Other,
         PP!Other
<1> QED BY <1>1, <1>2, <1>3, <1>4, <1>5, <1>6, <1>7, <1>8, <1>9, <1>10, <1>11, <1>12, <1>13,
           <1>14, <1>15, <1>16, <1>17, <1>18, <1>19, <1>20, <1>21, <1>22, <1>23, <1>24, <1>25,
           <1>26 DEF P!Step, PP!Step

LEMMA SameViews == \A s : P!SetViews(s) => PP!SetViews(s)
  BY DEF P!SetViews, PP!SetViews, P!After, PP!After, P!Past, PP!Past, P!Call, PP!Call,
         P!Loop, PP!Loop, P!Item, PP!Item

\* ParserProofs' invariant, but for what it says of the cursor.
Holds ==
  /\ PP!Ending /\ PP!AllSound(built)
  /\ status = "parsing" => PP!Held /\ PP!Ordered

LEMMA HoldsKept ==
  ASSUME Holds, P!Step \/ \E s : P!SetViews(s)
  PROVE  Holds'
<1>1. CASE P!Step
  <2>1. PP!Step /\ status = "parsing"
    BY <1>1, SameStep, StepParses
  <2> QED BY <2>1, MaxListAssumption, PP!StepHolds DEF Holds
<1>2. CASE \E s : P!SetViews(s)
  <2>1. PICK s : PP!SetViews(s)
    BY <1>2, SameViews
  <2> QED BY <2>1, MaxListAssumption, PP!BeginsHeld DEF Holds
<1> QED BY <1>1, <1>2

LEMMA HoldsUntouched ==
  ASSUME Holds, UNCHANGED parserVars
  PROVE  Holds'
<1>1. read' = read /\ ahead' = ahead /\ todo' = todo /\ built' = built /\ status' = status
  BY DEF parserVars
<1>2. PP!Held => PP!Held'
  BY <1>1 DEF PP!Held
<1>3. PP!Ordered => PP!Ordered'
  BY <1>1 DEF PP!Ordered, PP!Looks, PP!Top
<1>4. PP!Ending => PP!Ending'
  BY <1>1 DEF PP!Ending
<1>5. PP!AllSound(built) => PP!AllSound(built')
  BY <1>1
<1> QED BY <1>1, <1>2, <1>3, <1>4, <1>5 DEF Holds

LEMMA HoldsInit == P!Init => Holds
<1> SUFFICES ASSUME P!Init PROVE Holds
  OBVIOUS
<1>1. PP!AllSound(built)
  BY EmptySeq DEF P!Init, PP!AllSound
<1> QED BY <1>1 DEF P!Init, Holds, PP!Ending

-----------------------------------------------------------------------------
(* What a tree that cannot be printed, and a crash, come from.              *)

\* A token that is read.
Did(kinds) == \E i \in 1 .. Len(read) : read[i] \in kinds

\* Only after a `fun` there is a function's head to parse, and only in one of those
\* get() runs past the end of file.
Headed ==
  (\E i \in 1 .. Len(todo) : PP!OfFunction(todo[i])) \/ (ahead = P!Past /\ N >= 1) => Did({"kFun"})

\* Only after a `=` or a `(` there is an assignment or a call to make.
Printed ==
  \/ Did({"kEqual", "kLeftParen"})
  \/ /\ \A i \in 1 .. Len(todo) : ~ PP!Applies(todo[i])
     /\ \A i \in 1 .. Len(built) : CanPrint(built[i])

\* What nodes are made of they can be printed with, but for the two.
PrintsUpward ==
  \A node :
    /\ node.what \notin {"Assignment", "Call"}
    /\ \A i \in 1 .. Len(node.kids) : CanPrint(node.kids[i])
    => CanPrint(node)

LEMMA DidGrows ==
  ASSUME IsSeq(read), read' = read \/ read' = Append(read, ahead), NEW kinds
  PROVE  Did(kinds) \/ (ahead \in kinds /\ read' = Append(read, ahead)) => Did(kinds)'
<1>1. CASE read' = read
  <2>1. Append(read, ahead) # read
    <3>1. Len(Append(read, ahead)) = Len(read) + 1 /\ Len(read) \in Nat
      BY Appending, SeqLength
    <3> QED BY <3>1
  <2> QED BY <1>1, <2>1 DEF Did
<1>2. CASE read' = Append(read, ahead)
  <2>1. /\ Len(read') = Len(read) + 1 /\ read'[Len(read) + 1] = ahead
        /\ \A i \in 1 .. Len(read) : read'[i] = read[i]
        /\ Len(read) \in Nat
    BY <1>2, Appending, SeqLength
  <2>2. /\ Len(read) + 1 \in 1 .. Len(read')
        /\ \A i \in 1 .. Len(read) : i \in 1 .. Len(read')
    BY <2>1
  <2> QED BY <2>1, <2>2 DEF Did
<1> QED BY <1>1, <1>2

LEMMA ReadGrows == P!Step => read' = read \/ read' = Append(read, ahead)
<1>1. P!Throw \/ P!Advance \/ P!Discard => read' = Append(read, ahead)
  BY DEF P!Throw, P!Advance, P!Discard, P!Get
<1>2. P!Enter \/ P!Choose \/ P!Nothing \/ P!Want \/ P!Identifier \/ P!TakeName \/ P!Optional
        => read' = read \/ read' = Append(read, ahead)
  BY <1>1 DEF P!Enter, P!Choose, P!Nothing, P!Want, P!Identifier, P!TakeName, P!Optional
<1>3. P!Possible \/ P!MakeNode \/ P!Assigned \/ P!Target \/ P!Operator \/ P!Unary \/ P!Calls
        => read' = read \/ read' = Append(read, ahead)
  BY <1>1 DEF P!Possible, P!MakeNode, P!Assigned, P!Target, P!Operator, P!Unary, P!Calls
<1>4. P!Primary \/ P!BeginList \/ P!Parameter \/ P!ThrowParameter \/ P!NextElement \/ P!MakeList
        => read' = read \/ read' = Append(read, ahead)
  BY <1>1 DEF P!Primary, P!BeginList, P!Parameter, P!ThrowParameter, P!NextElement, P!MakeList
<1>5. P!BeginStmts \/ P!NextStmt \/ P!NextDeclaration \/ P!Skip \/ P!Accept \/ P!Overrun
        => read' = read \/ read' = Append(read, ahead)
  BY <1>1 DEF P!BeginStmts, P!NextStmt, P!NextDeclaration, P!Skip, P!Accept, P!Overrun
<1> QED BY <1>2, <1>3, <1>4, <1>5 DEF P!Step

\* What ParserProofs says of a step.
LEMMA StepComes ==
  ASSUME Holds, WorkStarts, P!Step
  PROVE  /\ PP!ItemsCome /\ PP!NodesCome
         /\ \A kinds : Did(kinds) \/ PP!Took(kinds) => Did(kinds)'
         /\ todo # <<>> => PP!Top = todo[1] /\ 1 \in 1 .. Len(todo)
<1>1. PP!Step /\ IsSeq(todo) /\ IsSeq(read)
  BY SameStep, WorkFacts DEF Ready
<1>2. PP!IsSeq(todo)
  BY <1>1 DEF IsSeq, PP!IsSeq
<1>3. PP!Held
  BY DEF Holds, WorkStarts
<1>4. PP!ItemsCome
  BY <1>1, <1>2, MaxListAssumption, PP!ItemsMade
<1>5. PP!NodesCome
  BY <1>1, <1>3, MaxListAssumption, PP!NodesMade
<1>6. \A kinds : Did(kinds) \/ PP!Took(kinds) => Did(kinds)'
  BY <1>1, ReadGrows, DidGrows DEF PP!Took
<1>7. todo # <<>> => PP!Top = todo[1] /\ 1 \in 1 .. Len(todo)
  <2>1. ASSUME todo # <<>> PROVE Head(todo) = todo[1] /\ Len(todo) \in Nat /\ Len(todo) # 0
    BY <1>1, <2>1, GivingWay, NoneFine, SeqLength DEF Fine
  <2> QED BY <2>1 DEF PP!Top
<1> QED BY <1>4, <1>5, <1>6, <1>7

LEMMA AcceptsOnly ==
  ASSUME P!Step, todo = <<>>
  PROVE  P!Accept
  BY DEF P!Step, P!Enter, P!Choose, P!Nothing, P!Want, P!Identifier, P!TakeName, P!Optional,
     P!Possible, P!MakeNode, P!Assigned, P!Target, P!Operator, P!Unary, P!Calls, P!Primary,
     P!BeginList, P!Parameter, P!ThrowParameter, P!NextElement, P!MakeList, P!BeginStmts,
     P!NextStmt, P!NextDeclaration, P!Skip, P!Accept, P!Overrun, P!AboutToOverrun, P!Calling,
     P!Looping, P!Doing

\* what was looked at and taken is not the end of file
LEMMA ShiftsNotLast ==
  ASSUME WorkStarts, NEW u, Shifts(u)
  PROVE  ahead' # P!Past
<1>1. /\ Len(read) < N /\ ahead = K(Len(read) + 1)
      /\ ahead' = P!Past <=> Len(read) + 1 = N
  BY ExactAdvances, WorkFacts DEF Shifts, WorkStarts
<1>2. Len(read) + 1 \in 1 .. N /\ K(Len(read) + 1) # P!Eof
  BY <1>1, WorkFacts DEF Shifts, Unseen
<1>3. Len(read) + 1 # N
  BY <1>2, GivenFacts DEF WorkStarts
<1> QED BY <1>1, <1>3

LEMMA OldItem ==
  ASSUME Holds, WorkStarts, P!Step, NEW it
  PROVE  /\ Headed /\ PP!Kept(it) /\ PP!OfFunction(it) => Did({"kFun"})
         /\ Headed /\ todo # <<>> /\ PP!OfFunction(PP!Top) => Did({"kFun"})
         /\ Printed /\ PP!Kept(it) /\ PP!Applies(it) => Did({"kEqual", "kLeftParen"})
         /\ Printed /\ todo # <<>> /\ PP!Applies(PP!Top) => Did({"kEqual", "kLeftParen"})
<1>1. todo # <<>> => PP!Top = todo[1] /\ 1 \in 1 .. Len(todo)
  BY StepComes
<1> QED BY <1>1 DEF Headed, Printed, PP!Kept

LEMMA PrintedKept ==
  ASSUME PrintsUpward, Holds, WorkStarts, P!Step, Printed
  PROVE  Printed'
<1> DEFINE kinds == {"kEqual", "kLeftParen"}
<1>1. /\ PP!ItemsCome /\ PP!NodesCome
      /\ Did(kinds) \/ PP!Took(kinds) => Did(kinds)'
  BY StepComes
<1>2. SUFFICES ASSUME ~ Did(kinds)' PROVE Printed'
  BY DEF Printed
<1>3. ~ Did(kinds) /\ ~ PP!Took(kinds)
  BY <1>1, <1>2
<1>4. \A i \in 1 .. Len(built) : CanPrint(built[i])
  BY <1>3 DEF Printed
<1>5. ASSUME NEW i \in 1 .. Len(todo'), PP!Applies(todo'[i]) PROVE FALSE
  <2>1. todo # <<>> /\ (PP!Kept(todo'[i]) \/ PP!Comes(todo'[i]))
    BY <1>1 DEF PP!ItemsCome
  <2>2. ~ PP!Kept(todo'[i]) /\ ~ PP!Applies(PP!Top)
    BY <1>3, <1>5, <2>1, OldItem
  <2> QED BY <1>3, <1>5, <2>1, <2>2 DEF PP!Comes
<1>6. ASSUME NEW i \in 1 .. Len(built') PROVE CanPrint(built'[i])
  <2>1. PP!There(built'[i]) \/ PP!Grows(built'[i])
    BY <1>1 DEF PP!NodesCome
  <2>2. CASE PP!There(built'[i])
    BY <1>4, <2>2 DEF PP!There
  <2>3. CASE PP!Grows(built'[i]) /\ ~ PP!There(built'[i])
    <3>1. \A j \in 1 .. Len(built'[i].kids) : CanPrint(built'[i].kids[j])
      BY <1>4, <2>3 DEF PP!Grows, PP!There
    <3>2. todo # <<>>
      <4>1. SUFFICES ASSUME todo = <<>> PROVE FALSE
        OBVIOUS
      <4>2. P!Accept
        BY <4>1, AcceptsOnly
      <4> QED BY <2>3, <4>2 DEF P!Accept, PP!There
    <3>3. ~ PP!Applies(PP!Top)
      BY <1>3, <3>2, OldItem
    <3>4. built'[i].what \notin {"Assignment", "Call"}
      BY <2>3, <3>3 DEF PP!Grows
    <3> QED BY <3>1, <3>4 DEF PrintsUpward
  <2> QED BY <2>1, <2>2, <2>3
<1> QED BY <1>5, <1>6 DEF Printed

LEMMA HeadedKept ==
  ASSUME Holds, WorkStarts, P!Step, Headed, at' = 0, status' = "parsing"
  PROVE  Headed'
<1>1. /\ PP!ItemsCome
      /\ Did({"kFun"}) \/ PP!Took({"kFun"}) => Did({"kFun"})'
  BY StepComes
<1>2. ASSUME NEW i \in 1 .. Len(todo'), PP!OfFunction(todo'[i]) PROVE Did({"kFun"})'
  <2>1. todo # <<>> /\ (PP!Kept(todo'[i]) \/ PP!Comes(todo'[i]))
    BY <1>1 DEF PP!ItemsCome
  <2>2. CASE PP!Kept(todo'[i])
    BY <1>1, <1>2, <2>2, OldItem
  <2>3. CASE PP!Comes(todo'[i])
    <3>1. PP!OfFunction(PP!Top) => Did({"kFun"})
      BY <2>1, OldItem
    <3> QED BY <1>1, <1>2, <2>3, <3>1 DEF PP!Comes
  <2> QED BY <2>1, <2>2, <2>3
<1>3. ASSUME ahead' = P!Past, N >= 1 PROVE Did({"kFun"})'
  <2>1. Moved
    BY StepMoves, WorkFacts
  <2>2. CASE \E u : Stays(u)
    BY <1>1, <1>3, <2>2 DEF Stays, Headed
  <2>3. CASE \E u : Shifts(u)
    BY <1>3, <2>3, ShiftsNotLast
  <2>4. CASE Takes
    <3>1. Ends(read, {"kFun"})
      BY <2>4, FirstTells, WorkFacts DEF Takes
    <3>2. Did({"kFun"})
      <4>1. Len(read) \in 1 .. Len(read)
        BY <3>1, WorkFacts DEF Ends
      <4> QED BY <3>1, <4>1 DEF Ends, Did
    <3> QED BY <1>1, <3>2
  <2>5. CASE Looks
    <3>1. todo # <<>> /\ PP!OfFunction(PP!Top)
      BY <2>5 DEF Looks, IsCall, PP!OfFunction, P!Top, PP!Top
    <3> QED BY <1>1, <3>1, OldItem
  <2>6. CASE Fails
    BY <2>6, FailsFails
  <2>7. CASE P!Skip
    BY <2>7, WorkFacts, FirstTells DEF P!Skip, P!Doing
  <2>8. CASE P!Accept \/ P!Overrun
    BY <2>8 DEF P!Accept, P!Overrun
  <2> QED BY <2>1, <2>2, <2>3, <2>4, <2>5, <2>6, <2>7, <2>8 DEF Moved
<1>4. N' = N
  BY SameFacts DEF WorkStarts
<1> QED BY <1>2, <1>3, <1>4 DEF Headed

-----------------------------------------------------------------------------
(* The crashes.                                                             *)

\* the tokens end in the middle of a function's head
HeadAtEnd == FollowsAny(N, {"kFun"} \cup Opening) /\ \E i \in 1 .. N : K(i) = "kFun"

TreeInv ==
  /\ status = "parsing" /\ at = 0 => Headed /\ Printed
  /\ status = "ok" => Printed
  /\ status = "crashed" /\ Policy = "kStatement" => HeadAtEnd

\* tokenize makes a lexer for every command that needs one, if there is one file
NoLexerMade ==
  stage \notin {"begin", "lex"} /\ lexer = "null" => files # 1 \/ command \notin NeedsLex

CrashInv == Holds /\ TreeInv /\ NoLexerMade /\ ReadingCrashesKnown

LEMMA OverrunInHead ==
  ASSUME WorkStarts, Headed, P!Overrun, Policy = "kStatement", status' = "crashed"
  PROVE  HeadAtEnd
<1>1. ahead = P!Past /\ N >= 1
  <2>1. ahead = P!Past /\ N > 1 /\ N \in Nat
    BY OverrunEnds, WorkFacts DEF P!Overrun, P!AboutToOverrun
  <2> QED BY <2>1
<1>2. FollowsAny(N, {"kFun"} \cup Opening)
  BY <1>1 DEF WorkStarts, Working, PastHead
<1>3. PICK i \in 1 .. Len(read) : read[i] = "kFun"
  BY <1>1 DEF Headed, Did
<1>4. i \in 1 .. N /\ K(i) = "kFun"
  BY <1>3, WorkFacts DEF Exact
<1> QED BY <1>2, <1>4 DEF HeadAtEnd

LEMMA OverrunCrashes == P!Step /\ status' = "crashed" /\ status = "parsing" => P!Overrun
<1> SUFFICES ASSUME P!Step, status' = "crashed", status = "parsing" PROVE P!Overrun
  OBVIOUS
<1>1. ~ (P!Throw \/ status' = status)
  BY DEF P!Throw
<1>2. ~ (P!Enter \/ P!Choose \/ P!Nothing \/ P!Want \/ P!Identifier \/ P!TakeName \/ P!Optional)
  BY <1>1 DEF P!Enter, P!Choose, P!Nothing, P!Want, P!Identifier, P!TakeName, P!Optional
<1>3. ~ (P!Possible \/ P!MakeNode \/ P!Assigned \/ P!Target \/ P!Operator \/ P!Unary \/ P!Calls)
  BY <1>1 DEF P!Possible, P!MakeNode, P!Assigned, P!Target, P!Operator, P!Unary, P!Calls
<1>4. ~ (P!Primary \/ P!BeginList \/ P!Parameter \/ P!ThrowParameter \/ P!NextElement \/ P!MakeList)
  BY <1>1 DEF P!Primary, P!BeginList, P!Parameter, P!ThrowParameter, P!NextElement, P!MakeList
<1>5. ~ (P!BeginStmts \/ P!NextStmt \/ P!NextDeclaration \/ P!Skip \/ P!Accept)
  BY <1>1 DEF P!BeginStmts, P!NextStmt, P!NextDeclaration, P!Skip, P!Accept
<1> QED BY <1>2, <1>3, <1>4, <1>5 DEF P!Step

LEMMA FirstIsThere ==
  ASSUME Given, N >= 1, ahead' \in P!After(Views, 0)
  PROVE  ahead' # P!Past
<1>1. N \in Nat /\ 1 \in 1 .. N /\ 0 < N /\ 0 + 1 = 1
  BY GivenFacts
<1>2. P!After(Views, 0) = IF 0 < N THEN {K(0 + 1)} ELSE {P!Past}
  BY ViewsAhead DEF Given
<1> QED BY <1>1, <1>2, GivenFacts

LEMMA TreeKept ==
  ASSUME PrintsUpward, PipelineInv, CrashInv, ParserStep
  PROVE  Holds' /\ TreeInv'
<1>1. /\ Given /\ Same /\ N' = N /\ Policy' = Policy
      /\ HeadAtEnd => HeadAtEnd'
  <2>1. stage = "lexed" /\ UNCHANGED <<vars, lexerVars>>
    BY DEF ParserStep, Parsing
  <2>2. Given /\ Same
    BY <2>1, StageGiven DEF Same, vars, lexerVars
  <2>3. /\ N' = N /\ Policy' = Policy /\ \A i : K(i)' = K(i)
        /\ \A i, kinds : FollowsAny(i, kinds)' = FollowsAny(i, kinds)
    BY <2>2, SameFacts
  <2> QED BY <2>2, <2>3 DEF HeadAtEnd
<1>2. Holds'
  BY HoldsKept DEF CrashInv, ParserStep
<1>3. CASE P!SetViews(Views)
  <2>1. /\ status = "new" /\ status' = "parsing" /\ built' = built /\ ahead' \in P!After(Views, 0)
        /\ todo' = <<IF Policy = "kExpression" THEN P!Call("next_expression")
                                               ELSE P!Loop("parse", 0)>>
    BY <1>3 DEF P!SetViews, Views
  <2>2. built = <<>>
    BY <2>1 DEF CrashInv, Holds, PP!Ending
  <2>3. status' = "parsing" /\ Working'
    BY <1>1, <1>3, <2>1, ViewsWork DEF PipelineInv
  <2> DEFINE it == IF Policy = "kExpression" THEN P!Call("next_expression") ELSE P!Loop("parse", 0)
  <2>4. ~ PP!OfFunction(it) /\ ~ PP!Applies(it)
    BY DEF PP!OfFunction, PP!Applies, P!Call, P!Loop, P!Item
  <2>5. todo' = <<it>>
    BY <2>1
  <2> HIDE DEF it
  <2>6. \A i \in 1 .. Len(todo') : todo'[i] = it
    BY <2>5
  <2>7. ~ (ahead' = P!Past /\ N >= 1)
    BY <1>1, <2>1, FirstIsThere
  <2>8. Len(built') = 0
    BY <2>1, <2>2, EmptySeq
  <2>9. Headed' /\ Printed'
    BY <1>1, <2>4, <2>6, <2>7, <2>8 DEF Headed, Printed
  <2> QED BY <1>2, <2>1, <2>9 DEF TreeInv
<1>4. CASE P!Step /\ UNCHANGED source
  <2>1. status = "parsing" /\ source = Views
    BY <1>4, StepParses DEF PipelineInv, HandOver
  <2>2. CASE at = 0
    <3>1. WorkStarts /\ Headed /\ Printed
      BY <1>1, <2>1, <2>2 DEF WorkStarts, PipelineInv, ParserInv, CrashInv, TreeInv
    <3>2. Printed'
      BY <1>4, <3>1, PrintedKept DEF CrashInv
    <3>3. status' = "parsing" /\ at' = 0 => Headed'
      BY <1>4, <3>1, HeadedKept DEF CrashInv
    <3>4. status' = "crashed" => P!Overrun
      BY <1>4, <2>1, OverrunCrashes
    <3>5. status' = "crashed" /\ Policy' = "kStatement" => HeadAtEnd'
      BY <1>1, <3>1, <3>4, OverrunInHead
    <3> QED BY <1>2, <3>2, <3>3, <3>5 DEF TreeInv
  <2>3. CASE at # 0
    <3>1. todo = <<Skipping>>
      BY <2>1, <2>3 DEF PipelineInv, ParserInv
    <3>2. P!Skip
      BY <1>4, <3>1, OnlySkips
    <3>3. at' = at /\ status' \in {"error", "parsing"}
      BY <2>1, <3>2 DEF P!Skip
    <3> QED BY <1>2, <2>3, <3>3 DEF TreeInv
  <2> QED BY <2>2, <2>3
<1> QED BY <1>3, <1>4 DEF ParserStep

LEMMA TreeUntouched ==
  ASSUME CrashInv, UNCHANGED parserVars, Same \/ status = "new"
  PROVE  Holds' /\ TreeInv'
<1>1. Holds'
  BY HoldsUntouched DEF CrashInv
<1>2. /\ read' = read /\ ahead' = ahead /\ todo' = todo /\ built' = built
      /\ status' = status /\ at' = at
  BY DEF parserVars
<1>3. CASE status = "new"
  BY <1>1, <1>2, <1>3 DEF TreeInv
<1>4. CASE Same
  <2>1. /\ N' = N /\ Policy' = Policy /\ \A i : K(i)' = K(i)
        /\ \A i, kinds : FollowsAny(i, kinds)' = FollowsAny(i, kinds)
    BY <1>4, SameFacts
  <2>2. Headed => Headed'
    BY <1>2, <2>1 DEF Headed, Did
  <2>3. Printed => Printed'
    BY <1>2 DEF Printed, Did
  <2>4. HeadAtEnd => HeadAtEnd'
    BY <2>1 DEF HeadAtEnd
  <2> QED BY <1>1, <1>2, <2>1, <2>2, <2>3, <2>4 DEF CrashInv, TreeInv
<1> QED BY <1>3, <1>4

LEMMA MadeKept ==
  ASSUME PipelineInv, CrashInv, [PipelineNext]_pipelineVars
  PROVE  NoLexerMade'
<1>1. CASE stage' = stage /\ lexer' = lexer /\ files' = files /\ command' = command
  BY <1>1 DEF CrashInv, NoLexerMade
<1>2. CASE LoadFile \/ LexerStep \/ ParserStep \/ UNCHANGED pipelineVars
  BY <1>1, <1>2 DEF LoadFile, LexerStep, ParserStep, pipelineVars, vars
<1>3. CASE NoLexing
  BY <1>3 DEF NoLexing, Tokenizing, NoLexerMade
<1>4. CASE FailLoad \/ EndTokenize
  BY <1>4 DEF FailLoad, EndTokenize, NoLexerMade
<1>5. CASE NoParsing \/ NoLexer \/ EndParse
  BY <1>5 DEF NoParsing, NoLexer, Parsing, EndParse, CrashInv, NoLexerMade
<1>6. CASE MainStep
  <2>1. /\ lexer' = lexer /\ files' = files /\ command' = command
        /\ stage \notin {"begin", "lex"} \/ stage' = "lex" \/ (command = NoCommand \/ files = 0)
    BY <1>6 DEF MainStep, Begin, ReportTokens, ParseFailed, Run, ReportRun, CommandNotFound,
       ReportTree, Exit
  <2>2. command = NoCommand => command \notin NeedsLex
    BY DEF NoCommand, NeedsLex
  <2> QED BY <2>1, <2>2 DEF CrashInv, NoLexerMade
<1>7. CASE Ended /\ UNCHANGED <<lexerVars, parserVars>>
  BY <1>1, <1>7 DEF Ended, vars
<1> QED BY <1>2, <1>3, <1>4, <1>5, <1>6, <1>7 DEF PipelineNext, PipelineStep

\* A crash of each kind.
LEMMA CrashKnown ==
  ASSUME PipelineInv, CrashInv, stage # "crashed", [PipelineNext]_pipelineVars, stage' = "crashed"
  PROVE  ReadingCrashesKnown'
<1>1. NoLexer \/ EndParse \/ (MainStep /\ (ReportTokens \/ ReportTree \/ Run))
  <2>1. ~ (LoadFile \/ LexerStep \/ ParserStep \/ UNCHANGED pipelineVars)
    BY DEF LoadFile, LexerStep, ParserStep, pipelineVars, vars
  <2>2. ~ (NoLexing \/ FailLoad \/ EndTokenize \/ NoParsing)
    BY DEF NoLexing, FailLoad, EndTokenize, NoParsing
  <2>3. ~ Ended
    BY DEF Ended, vars
  <2>4. ~ (Begin \/ ParseFailed \/ ReportRun \/ CommandNotFound)
    BY DEF Begin, ParseFailed, ReportRun, CommandNotFound, Exit
  <2> QED BY <2>1, <2>2, <2>3, <2>4 DEF PipelineNext, PipelineStep, MainStep
<1>2. Same /\ files' = files /\ stage \notin {"begin", "lex"} /\ status' = status
  BY <1>1 DEF NoLexer, Parsing, EndParse, MainStep, ReportTokens, ReportTree, Run, Same, lexerVars,
     parserVars
<1>3. /\ N' = N /\ command' = command /\ tokens' = tokens /\ \A i : K(i)' = K(i)
      /\ \A i, kinds : FollowsAny(i, kinds)' = FollowsAny(i, kinds)
  BY <1>2, SameFacts DEF Same
<1>4. Given /\ N \in Nat
  BY <1>2, StageGiven
<1>5. SUFFICES \/ Running
               \/ files # 1
               \/ tokens = <<>> /\ command # "interpret"
               \/ /\ command = "interpret" /\ FollowsAny(N, {"kFun", "kLeftParen", "kComma"})
                  /\ \E i \in 1 .. N : K(i) = "kFun"
               \/ /\ command = "parse"
                  /\ \E i \in 1 .. N : K(i) \in {"kEqual", "kLeftParen"}
  BY <1>2, <1>3 DEF ReadingCrashesKnown, Running, N, K
<1>6. CASE NoLexer \/ ReportTokens
  <2>1. lexer = "null" /\ command \in NeedsLex
    BY <1>6 DEF NoLexer, Parsing, ReportTokens, Exit, NeedsParse, NeedsLex
  <2> QED BY <1>2, <2>1 DEF CrashInv, NoLexerMade
<1>7. CASE EndParse
  <2>1. status = "crashed"
    BY <1>7 DEF EndParse
  <2>2. CASE command = "interpret"
    <3>1. HeadAtEnd
      BY <2>1, <2>2 DEF CrashInv, TreeInv, Policy
    <3>2. {"kFun"} \cup Opening = {"kFun", "kLeftParen", "kComma"}
      BY DEF Opening
    <3> QED BY <2>2, <3>1, <3>2 DEF HeadAtEnd
  <2>3. CASE command # "interpret"
    <3>1. N = 0
      BY <2>1, <2>3 DEF PipelineInv, ParserInv, Policy
    <3> QED BY <1>4, <2>3, <3>1, GivenFacts
  <2> QED BY <2>2, <2>3
<1>8. CASE MainStep /\ ReportTree
  <2>1. stage = "parsed" /\ parse_result = "ok" /\ command = "parse"
    BY <1>8 DEF ReportTree
  <2>2. ~ CanPrint(built[1])
    BY <1>8, <2>1 DEF MainStep, Begin, ReportTokens, ParseFailed, Run, ReportRun, CommandNotFound
  <2>3. status = "ok" /\ Succeeded
    BY <2>1 DEF PipelineInv, HandOver, ParserInv, NeedsParse
  <2>4. Len(built) = 1 /\ Printed
    BY <2>3 DEF CrashInv, Holds, PP!Ending, TreeInv
  <2>5. PICK i \in 1 .. Len(read) : read[i] \in {"kEqual", "kLeftParen"}
    BY <2>2, <2>4 DEF Printed, Did
  <2>6. i \in 1 .. N /\ K(i) = read[i]
    <3>1. Len(read) \in Nat /\ Len(read) <= N /\ \A j \in 1 .. Len(read) : read[j] = K(j)
      BY <2>3, SeqLength DEF Succeeded, Exact
    <3> QED BY <1>4, <3>1
  <2> QED BY <2>1, <2>5, <2>6
<1>9. CASE MainStep /\ Run
  <2>1. stage = "parsed" /\ parse_result = "ok" /\ command = "interpret"
    BY <1>9 DEF Run
  <2>2. status = "ok"
    BY <2>1 DEF PipelineInv, HandOver, NeedsParse
  <2> QED BY <2>1, <2>2 DEF Running
<1> QED BY <1>1, <1>6, <1>7, <1>8, <1>9

LEMMA KnownStays ==
  ASSUME ReadingCrashesKnown, stage = "crashed", [PipelineNext]_pipelineVars
  PROVE  ReadingCrashesKnown'
<1>1. UNCHANGED pipelineVars
  <2>1. Ended /\ UNCHANGED <<lexerVars, parserVars>> => UNCHANGED pipelineVars
    BY DEF Ended, pipelineVars
  <2>2. ~ (LoadFile \/ LexerStep \/ ParserStep)
    BY DEF LoadFile, LexerStep, ParserStep, Tokenizing, Parsing
  <2>3. ~ (NoLexing \/ FailLoad \/ EndTokenize \/ NoParsing \/ NoLexer \/ EndParse)
    BY DEF NoLexing, FailLoad, EndTokenize, Tokenizing, NoParsing, NoLexer, EndParse, Parsing
  <2>4. ~ MainStep
    BY DEF MainStep, Begin, ReportTokens, ParseFailed, Run, ReportRun, CommandNotFound, ReportTree
  <2> QED BY <2>1, <2>2, <2>3, <2>4 DEF PipelineNext, PipelineStep
<1>2. Same /\ files' = files /\ stage' = stage /\ status' = status
  BY <1>1 DEF pipelineVars, vars, lexerVars, parserVars, Same
<1>3. /\ N' = N /\ command' = command /\ tokens' = tokens /\ \A i : K(i)' = K(i)
      /\ \A i, kinds : FollowsAny(i, kinds)' = FollowsAny(i, kinds)
  BY <1>2, SameFacts DEF Same
<1> QED BY <1>2, <1>3 DEF ReadingCrashesKnown, Running, N, K

LEMMA CrashNextInv ==
  ASSUME PrintsUpward, PipelineInv, CrashInv, [PipelineNext]_pipelineVars
  PROVE  CrashInv'
<1>1. NoLexerMade'
  BY MadeKept
<1>2. ReadingCrashesKnown'
  <2>1. CASE stage = "crashed"
    BY <2>1, KnownStays DEF CrashInv
  <2>2. CASE stage # "crashed" /\ stage' = "crashed"
    BY <2>2, CrashKnown
  <2>3. CASE stage' # "crashed"
    BY <2>3 DEF ReadingCrashesKnown
  <2> QED BY <2>1, <2>2, <2>3
<1>3. Holds' /\ TreeInv'
  <2>1. CASE ParserStep
    BY <2>1, TreeKept
  <2>2. CASE LoadFile \/ LexerStep
    <3>1. UNCHANGED parserVars /\ stage = "lex"
      BY <2>2 DEF LoadFile, LexerStep, Tokenizing
    <3>2. status = "new"
      BY <3>1 DEF PipelineInv, HandOver
    <3> QED BY <3>1, <3>2, TreeUntouched
  <2>3. CASE \/ NoLexing \/ FailLoad \/ EndTokenize \/ NoParsing \/ NoLexer \/ EndParse
             \/ MainStep \/ (Ended /\ UNCHANGED <<lexerVars, parserVars>>) \/ UNCHANGED pipelineVars
    <3>1. UNCHANGED parserVars /\ UNCHANGED lexerVars /\ command' = command
      BY <2>3 DEF NoLexing, FailLoad, EndTokenize, NoParsing, NoLexer, EndParse, MainStep, Ended,
         Begin, ReportTokens, ParseFailed, Run, ReportRun, CommandNotFound, ReportTree,
         pipelineVars, vars
    <3>2. Same
      BY <3>1 DEF Same, lexerVars
    <3> QED BY <3>1, <3>2, TreeUntouched
  <2> QED BY <2>1, <2>2, <2>3 DEF PipelineNext, PipelineStep
<1> QED BY <1>1, <1>2, <1>3 DEF CrashInv

LEMMA CrashInitInv == PipelineInit => CrashInv
<1> SUFFICES ASSUME PipelineInit PROVE CrashInv
  OBVIOUS
<1>1. Holds
  BY HoldsInit DEF PipelineInit
<1>2. stage = "begin" /\ status = "new"
  BY DEF PipelineInit, Init, P!Init
<1> QED BY <1>1, <1>2 DEF CrashInv, TreeInv, NoLexerMade, ReadingCrashesKnown

\* Before a program runs nothing else crashes, whatever the text: given that a
\* tree can be printed if no part of it is an assignment or a call (Printer's
\* Printable says so), every crash that is not the program's own is one of those
\* that ReadingCrashesKnown lists.
THEOREM ReadingCrashesAreKnown ==
  ASSUME PrintsUpward
  PROVE  PipelineSpec => []ReadingCrashesKnown
<1>1. PipelineInv /\ CrashInv /\ [PipelineNext]_pipelineVars => CrashInv'
  BY CrashNextInv
<1>2. CrashInv => ReadingCrashesKnown
  BY DEF CrashInv
<1> QED BY <1>1, <1>2, CrashInitInv, PipelineInvariance, PTL DEF PipelineSpec
=============================================================================
