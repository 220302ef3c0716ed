---------------------------- MODULE GrammarRules ----------------------------
(***************************************************************************)
(* What Parser accepts, and what its tree has to do with the tokens, against *)
(* the grammar of the repository's README.md.                               *)
(*                                                                         *)
(* What a form derives, and how a tree reads, are recursive.  Here are the  *)
(* equations of the two; the operators that they define are parameters.     *)
(***************************************************************************)
EXTENDS Parser

CONSTANTS
  Derives(_, _, _),   \* does a form derive these tokens: DerivesBy's solution
  Yield(_, _)         \* the tokens that a node stands for: YieldOf's solution

\* The tokens of a source are what the lexer leaves: they end with the end of
\* file, unless there are none at all.
ASSUME EndAssumption ==
  \A s \in Sources :
    /\ s.kinds # <<>> /\ s.kinds[Len(s.kinds)] \subseteq {Eof, Past}
    /\ \A i \in 2 .. Len(s.kinds) : Past \notin s.kinds[i]

-----------------------------------------------------------------------------
(* The grammar.  A nonterminal has the README's name; a plural one stands   *)
(* for a starred part of a rule, and one that begins with "maybe" for a     *)
(* part with a question mark or a choice in brackets.  Lists are limited as *)
(* the code limits them.                                                    *)

\* any number of operators of a level, each with its operand
Repeated(rest, operators, operand) == {<<>>} \cup {<<op, operand, rest>> : op \in operators}

\* so many elements, separated by commas, and as many as there may be
Listed(element, n) == [i \in 1 .. 2 * n - 1 |-> IF i % 2 = 1 THEN element ELSE "kComma"]
List(element) == {Listed(element, n) : n \in 1 .. MaxList}

(* The name of a function may be any token, as function_decl does not look at  *)
(* it; the README's is an IDENTIFIER.                                         *)
Grammar == [
  program      |-> {<<"declarations", Eof>>},
  declarations |-> {<<>>, <<"declaration", "declarations">>},
  declaration  |-> {<<"varDecl">>, <<"statement">>, <<"funcDecl">>},
  varDecl      |-> {<<"kVar", "kIdentifier", "maybeValue", "kSemicolon">>},
  maybeValue   |-> {<<>>, <<"kEqual", "expression">>},
  funcDecl     |-> {<<"kFun", "function">>},
  function     |-> {<<name, "kLeftParen", "maybeParameters", "kRightParen", "block">>
                      : name \in Inspected \cup {Other, Eof}},
  maybeParameters |-> {<<>>} \cup List("kIdentifier"),
  statement    |-> {<<s>> : s \in {"exprStmt", "printStmt", "block", "ifStmt", "whileStmt",
                                   "forStmt", "returnStmt"}},
  exprStmt     |-> {<<"expression", "kSemicolon">>},
  printStmt    |-> {<<"kPrint", "expression", "kSemicolon">>},
  block        |-> {<<"kLeftBrace", "declarations", "kRightBrace">>},
  ifStmt       |-> {<<"kIf", "kLeftParen", "expression", "kRightParen", "statement", "maybeElse">>},
  maybeElse    |-> {<<>>, <<"kElse", "statement">>},
  whileStmt    |-> {<<"kWhile", "kLeftParen", "expression", "kRightParen", "statement">>},
  forStmt      |-> {<<"kFor", "kLeftParen", "initializer", "maybeExpression", "kSemicolon",
                      "maybeExpression", "kRightParen", "statement">>},
  initializer  |-> {<<"varDecl">>, <<"exprStmt">>, <<"kSemicolon">>},
  returnStmt   |-> {<<"kReturn", "maybeExpression", "kSemicolon">>},
  maybeExpression |-> {<<>>, <<"expression">>},
  expression   |-> {<<"assignment">>},
  assignment   |-> {<<"kIdentifier", "kEqual", "assignment">>, <<"logic_or">>},
  logic_or     |-> {<<"logic_and", "ors">>},
  ors          |-> Repeated("ors", Ops.logical_or, "logic_and"),
  logic_and    |-> {<<"equality", "ands">>},
  ands         |-> Repeated("ands", Ops.logical_and, "equality"),
  equality     |-> {<<"comparison", "equals">>},
  equals       |-> Repeated("equals", Ops.equality, "comparison"),
  comparison   |-> {<<"term", "compares">>},
  compares     |-> Repeated("compares", Ops.comparison, "term"),
  term         |-> {<<"factor", "terms">>},
  terms        |-> Repeated("terms", Ops.term, "factor"),
  factor       |-> {<<"unary", "factors">>},
  factors      |-> Repeated("factors", Ops.factor, "unary"),
  unary        |-> {<<"kBang", "unary">>, <<"kMinus", "unary">>, <<"call">>},
  call         |-> {<<"primary", "calls">>},
  calls        |-> {<<>>, <<"kLeftParen", "maybeArguments", "kRightParen", "calls">>},
  maybeArguments |-> {<<>>} \cup List("expression"),
  primary      |-> {<<k>> : k \in Constants \cup {"kIdentifier"}}
                     \cup {<<"kLeftParen", "expression", "kRightParen">>}]

\* Does `form`, a sequence of terminals and nonterminals, derive `tokens`, or
\* with `whole` false something that begins with them?
DerivesBy(form, tokens, whole, Derive(_, _, _)) ==
  IF tokens = <<>> /\ ~ whole THEN TRUE
  ELSE IF form = <<>> THEN tokens = <<>>
  ELSE IF Head(form) \in DOMAIN Grammar
       THEN \E alternative \in Grammar[Head(form)] :
              Derive(alternative \o Tail(form), tokens, whole)
       ELSE /\ tokens # <<>> /\ Head(tokens) = Head(form)
            /\ Derive(Tail(form), Tail(tokens), whole)

Start == IF source.policy = "kStatement" THEN <<"program">> ELSE <<"expression">>
\* parse(kStatement) leaves the cursor on the end of file; of no tokens at all
\* there is no end of file either
Parsed == IF source.policy = "kStatement" /\ ahead = Eof THEN Append(read, Eof) ELSE read

-----------------------------------------------------------------------------
(* How a tree reads.                                                        *)

\* the tokens that a node stands for, in the order of the source, with this
\* between the elements of a list
YieldOf(node, separator, Read(_, _)) ==
  LET kid(i) == Read(node.kids[i], <<>>)
      last == Len(node.kids)
      arguments(i) == <<"kLeftParen">> \o (Read(node.kids[i], <<"kComma">>) \o <<"kRightParen">>)
      parens(i) == <<"kLeftParen">> \o kid(i) \o <<"kRightParen">>
      braces(i) == <<"kLeftBrace">> \o (kid(i) \o <<"kRightBrace">>)
      optional(token, i) == IF node.kids[i] = Null THEN <<>> ELSE <<token>> \o kid(i)
      first(i) == IF node.kids[i] = Null THEN <<"kSemicolon">> ELSE kid(i)
      end == <<"kSemicolon">>
  IN CASE node.what \in {"Literal", "Variable", "Token"} -> <<node.op>>
       [] node.what = "null"        -> <<>>
       [] node.what = "list"        ->
            IF last = 0 THEN <<>>
            ELSE Read(Node("list", "", SubSeq(node.kids, 1, last - 1)), separator)
                   \o (IF last = 1 THEN <<>> ELSE separator) \o kid(last)
       [] node.what = "Grouping"    -> parens(1)
       [] node.what = "Unary"       -> <<node.op>> \o kid(1)
       [] node.what \in {"Binary", "Logical", "Assignment"} -> kid(1) \o <<node.op>> \o kid(2)
       [] node.what = "Call"        -> kid(1) \o arguments(2)
       [] node.what = "Var"         -> <<"kVar">> \o kid(1) \o optional("kEqual", 2) \o end
       [] node.what = "Function"    -> <<"kFun">> \o kid(1) \o arguments(2) \o braces(3)
       [] node.what = "If"          -> <<"kIf">> \o parens(1) \o kid(2) \o optional("kElse", 3)
       [] node.what = "While"       -> <<"kWhile">> \o parens(1) \o kid(2)
       [] node.what = "For"         -> <<"kFor", "kLeftParen">> \o first(1) \o kid(2) \o end
                                         \o kid(3) \o <<"kRightParen">> \o kid(4)
       [] node.what = "Block"       -> braces(1)
       [] node.what = "Expression"  -> kid(1) \o end
       [] node.what \in {"Print", "Return"} -> <<node.op>> \o kid(1) \o end

-----------------------------------------------------------------------------
(* Derives and Yield are what the equations say of them.                    *)

DerivesLaw ==
  \A S : \A form, tokens \in Seq(S), whole \in BOOLEAN :
    Derives(form, tokens, whole) = DerivesBy(form, tokens, whole, Derives)
YieldLaw ==
  \A S, what, op, separator : \A kids \in Seq(S) :
    LET node == Node(what, op, kids)
    IN Yield(node, separator) = YieldOf(node, separator, Yield)

-----------------------------------------------------------------------------
\* What the parser accepts the grammar derives, token for token, but for the
\* name of a function, which function_decl does not look at.
AcceptedIsDerived ==
  status = "ok" /\ Parsed # <<>> => Derives(Start, Parsed, TRUE)

\* A program is never rejected: when an error is thrown, no program begins with
\* the tokens up to the one that the error names.
RejectedIsNoProgram ==
  status = "error" /\ at <= Len(read)
    => ~ Derives(Start, SubSeq(read, 1, at), FALSE)

\* The tree built from a program reads, left to right, as the tokens the program
\* was written with: nothing is lost, doubled, moved or attached elsewhere than
\* between its own brackets.
TreeKeepsTokens == status = "ok" => Yield(built[1], <<>>) = read
=============================================================================
