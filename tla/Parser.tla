-------------------------------- MODULE Parser --------------------------------
(***************************************************************************)
(* The recursive descent parser: driver/src/parser.cpp, called through      *)
(* parser::parse with one of its two policies.                              *)
(*                                                                         *)
(* A token is its kind.  The tokens are not fixed: the one under the cursor *)
(* is chosen as the cursor gets to it, so `read` (the tokens before the     *)
(* cursor) and `ahead` (the one under it) stand for `tokens` and `cursor`.  *)
(*                                                                         *)
(* The C++ stack is explicit: `todo` is what the functions entered so far   *)
(* still have to do, the innermost first.  An item is one statement of one  *)
(* of them: a call, a loop, a token that must come next, or a node to make. *)
(* `built` holds the nodes that are made and not yet part of another.       *)
(* Builds without AC_CPP_DEBUG are modelled (contract_assert is empty).     *)
(***************************************************************************)
EXTENDS Integers, Sequences

CONSTANTS
  Sources,    \* the families of sources: with which ParsePolicy they are parsed,
              \* and of which kinds each token may be
  MaxList     \* the most arguments or parameters allowed; 255 in the code

Inspected == {
  "kLeftParen", "kRightParen", "kLeftBrace", "kRightBrace", "kComma", "kMinus",
  "kPlus", "kSemicolon", "kSlash", "kStar", "kBang", "kBangEqual", "kEqual",
  "kEqualEqual", "kGreater", "kGreaterEqual", "kLess", "kLessEqual",
  "kIdentifier", "kString", "kNumber", "kAnd", "kElse", "kFalse", "kFun", "kFor",
  "kIf", "kNil", "kOr", "kPrint", "kReturn", "kTrue", "kVar", "kWhile"}
Other == "other"     \* any kind the parser never asks for, kLexError included
Eof == "kEndOfFile"
Past == "past"       \* no token: the cursor is at tokens.end()
NoSource == [policy |-> "kStatement", kinds |-> <<>>]

ASSUME SourcesAssumption ==
  Sources \subseteq [policy : {"kStatement", "kExpression"},
                    kinds : Seq(SUBSET (Inspected \cup {Other, Eof, Past}))]
ASSUME ListAssumption == MaxList \in Nat

VARIABLES
  source,   \* the family the source is of
  read,     \* the tokens before the cursor
  ahead,    \* the token under it
  todo,     \* what is left to do
  built,    \* the nodes made
  status,   \* "new" before set_views, "parsing", or how parse() ended
  at        \* where the token that an error names is, 0 if there is none

vars == <<source, read, ahead, todo, built, status, at>>

-----------------------------------------------------------------------------
(* Items, and nodes.                                                        *)

\* do: what kind of item; what: the function called, the loop or node meant;
\* kind: a token; n: the height of `built` when a loop began
Item(do, what, kind, n) == [do |-> do, what |-> what, kind |-> kind, n |-> n]
Call(f) == Item("call", f, "", 0)
Expect(k) == Item("expect", "", k, 0)          \* if (!inspect(k)) throw; get()
Take == Item("take", "", "", 0)                \* get(), whatever comes
Opt(k) == Item("opt", "", k, 0)                \* "= initializer", "else branch"
Unless(k) == Item("unless", "", k, 0)          \* an expression unless k is next
Loop(l, n) == Item("loop", l, "", n)
Make(node, op) == Item("make", node, op, 0)

Node(what, op, kids) == [what |-> what, op |-> op, kids |-> kids]
Null == Node("null", "", <<>>)                 \* a nullptr child

\* how many children a node has; a list of statements or arguments is one child
Arity(what) ==
  CASE what \in {"Grouping", "Unary", "Return", "Print", "Expression", "Block"} -> 1
    [] what \in {"Binary", "Logical", "Assignment", "Call", "Var", "While"} -> 2
    [] what \in {"Function", "If"} -> 3
    [] what = "For" -> 4

\* Mutant: the children of a node are in the order they are taken off the stack.
MutantReduced(what, op, n) ==
  Append(SubSeq(built, 1, Len(built) - n),
         Node(what, op, [i \in 1 .. n |-> built[Len(built) + 1 - i]]))

\* the last n nodes become the children of one
Reduced(what, op, n) ==
  Append(SubSeq(built, 1, Len(built) - n),
         Node(what, op, SubSeq(built, Len(built) - n + 1, Len(built))))

\* the binary operators, loosest first, with the operand functions they call
Ops == [
  logical_or |-> {"kOr"}, logical_and |-> {"kAnd"},
  equality |-> {"kEqualEqual", "kBangEqual"},
  comparison |-> {"kGreater", "kGreaterEqual", "kLess", "kLessEqual"},
  term |-> {"kMinus", "kPlus"}, factor |-> {"kSlash", "kStar"}]
Levels == DOMAIN Ops
Operand == [
  logical_or |-> "logical_and", logical_and |-> "equality",
  equality |-> "comparison", comparison |-> "term", term |-> "factor",
  factor |-> "unary"]
\* Mutant: every operator takes its own level to the right.
MutantRightOperand(level) == level

RightOperand(level) == IF level = "logical_or" THEN "logical_or" ELSE Operand[level]
OpNode(level) == IF level \in {"logical_or", "logical_and"} THEN "Logical" ELSE "Binary"

\* the functions that have no choice of their own
Body == [
  next_expression |-> <<Call("assignment")>>,
  assignment      |-> <<Call("logical_or"), Call("assigned?")>>,
  call            |-> <<Call("primary"), Loop("calls", 0)>>,
  var_decl        |-> <<Call("identifier"), Opt("kEqual"), Expect("kSemicolon"),
                        Make("Var", "kVar")>>,
  function_decl   |-> <<Take, Expect("kLeftParen"), Call("get_params"),
                        Expect("kLeftBrace"), Call("get_stmts"), Make("Function", "kFun")>>,
  get_condition   |-> <<Expect("kLeftParen"), Call("next_expression"), Expect("kRightParen")>>,
  if_stmt         |-> <<Call("get_condition"), Call("next_statement"), Opt("kElse"),
                        Make("If", "kIf")>>,
  block_stmt      |-> <<Call("get_stmts"), Make("Block", "kLeftBrace")>>,
  while_stmt      |-> <<Call("get_condition"), Call("next_statement"), Make("While", "kWhile")>>,
  for_stmt        |-> <<Expect("kLeftParen"), Call("initializer"), Unless("kSemicolon"),
                        Expect("kSemicolon"), Unless("kRightParen"), Expect("kRightParen"),
                        Call("next_statement"), Make("For", "kFor")>>,
  return_stmt     |-> <<Unless("kSemicolon"), Expect("kSemicolon"), Make("Return", "kReturn")>>,
  print_stmt      |-> <<Call("next_expression"), Expect("kSemicolon"), Make("Print", "kPrint")>>,
  expr_stmt       |-> <<Call("next_expression"), Expect("kSemicolon"), Make("Expression", "")>>]

\* Mutant: a statement may be a variable declaration.
MutantChooses == [
  next_declaration |-> [kVar |-> "var_decl", kFun |-> "function_decl"],
  next_statement   |-> [kPrint |-> "print_stmt", kLeftBrace |-> "block_stmt",
                        kIf |-> "if_stmt", kWhile |-> "while_stmt", kVar |-> "var_decl",
                        kFor |-> "for_stmt", kReturn |-> "return_stmt"],
  initializer      |-> [kVar |-> "var_decl", kSemicolon |-> "nothing"]]

\* the functions that look at the next token to choose another, and take it
Chooses == [
  next_declaration |-> [kVar |-> "var_decl", kFun |-> "function_decl"],
  next_statement   |-> [kPrint |-> "print_stmt", kLeftBrace |-> "block_stmt",
                        kIf |-> "if_stmt", kWhile |-> "while_stmt",
                        kFor |-> "for_stmt", kReturn |-> "return_stmt"],
  initializer      |-> [kVar |-> "var_decl", kSemicolon |-> "nothing"]]
Otherwise == [next_declaration |-> "next_statement", next_statement |-> "expr_stmt",
              initializer |-> "expr_stmt"]

-----------------------------------------------------------------------------
(* The cursor.                                                              *)

Top == Head(todo)
Doing(do) == status = "parsing" /\ todo # <<>> /\ Top.do = do
Calling(f) == Doing("call") /\ Top.what = f
Looping(l) == Doing("loop") /\ Top.what = l
Then(items) == todo' = items \o Tail(todo)

\* parser::is_at_end, at the end or on the end of file
AtEnd == ahead \in {Eof, Past}

\* what may come after n tokens of a source, nothing after the last; of what is
\* skipped, only semicolons and the end are told apart
After(s, n) == IF n < Len(s.kinds) THEN s.kinds[n + 1] ELSE {Past}
Skimmed(k) == IF k \in {"kSemicolon", Eof, Past} THEN k ELSE Other

\* parser::get
Get(next) ==
  /\ ahead # Past
  /\ read' = Append(read, ahead)
  /\ ahead' \in IF ahead = Eof THEN {Past} ELSE next

Advance == Get(After(source, Len(read) + 1))
Discard == Get({Skimmed(k) : k \in After(source, Len(read) + 1)})

\* Mutant: the functions entered go on after the error.
MutantThrow ==
  /\ at' = Len(read) + 1
  /\ todo' = <<Item("skip", "", "", 0)>> \o Tail(todo)
  /\ built' = <<>>
  /\ Discard
  /\ UNCHANGED status

\* Mutant: the token after the wrong one is named.
MutantThrowLate ==
  /\ at' = Len(read) + 2
  /\ todo' = <<Item("skip", "", "", 0)>>
  /\ built' = <<>>
  /\ Discard
  /\ UNCHANGED status

\* throw synchronize(...): the token under the cursor is the one named
Throw ==
  /\ at' = Len(read) + 1
  /\ todo' = <<Item("skip", "", "", 0)>>
  /\ built' = <<>>
  /\ Discard
  /\ UNCHANGED status

\* Mutant: the token skipped is not taken.
MutantSkip ==
  /\ Doing("skip")
  /\ IF AtEnd \/ ahead = "kSemicolon"
     THEN status' = "error" /\ todo' = <<>>
     ELSE UNCHANGED <<status, todo>>
  /\ UNCHANGED <<read, ahead, built, at>>

\* synchronize goes on to a semicolon or the end; parse() returns the error
Skip ==
  /\ Doing("skip")
  /\ IF AtEnd \/ ahead = "kSemicolon"
     THEN /\ status' = "error"
          /\ todo' = <<>>
          /\ UNCHANGED <<read, ahead>>
     ELSE Discard /\ UNCHANGED <<status, todo>>
  /\ UNCHANGED <<built, at>>

-----------------------------------------------------------------------------
(* One action for each kind of item.                                        *)

\* call a function, up to where it first looks at a token
Enter ==
  /\ Doing("call")
  /\ \/ Top.what \in DOMAIN Body /\ Then(Body[Top.what])
     \/ Top.what \in Levels /\ Then(<<Call(Operand[Top.what]), Loop(Top.what, 0)>>)
  /\ UNCHANGED <<read, ahead, built, status, at>>

\* next_declaration, next_statement, the initializer of for_stmt
Choose ==
  /\ Doing("call") /\ Top.what \in DOMAIN Chooses
  /\ IF ahead \in DOMAIN Chooses[Top.what]
     THEN Then(<<Call(Chooses[Top.what][ahead])>>) /\ Advance
     ELSE Then(<<Call(Otherwise[Top.what])>>) /\ UNCHANGED <<read, ahead>>
  /\ UNCHANGED <<built, status, at>>

\* an initializer that is only a semicolon
Nothing ==
  /\ Calling("nothing")
  /\ Then(<<>>)
  /\ built' = Append(built, Null)
  /\ UNCHANGED <<read, ahead, status, at>>

Want ==
  /\ Doing("expect")
  /\ IF ahead = Top.kind
     THEN Then(<<>>) /\ Advance /\ UNCHANGED <<built, status, at>>
     ELSE Throw

\* the name of var_decl
Identifier ==
  /\ Calling("identifier")
  /\ IF ahead = "kIdentifier"
     THEN /\ Then(<<>>) /\ Advance
          /\ built' = Append(built, Node("Token", ahead, <<>>))
          /\ UNCHANGED <<status, at>>
     ELSE Throw

\* the name of function_decl is taken unseen
TakeName ==
  /\ Doing("take")
  /\ Then(<<>>) /\ Advance
  /\ built' = Append(built, Node("Token", ahead, <<>>))
  /\ UNCHANGED <<status, at>>

\* Mutant: an if at the end of a loop leaves its else to an if around the loop.
MutantOptional ==
  /\ Doing("opt")
  /\ IF ahead = Top.kind
          /\ ~ \E i \in 3 .. Len(todo) - 1 : todo[i] = Make("While", "kWhile") /\ todo[i + 1] = Top
     THEN /\ Then(<<Call(IF Top.kind = "kElse" THEN "next_statement" ELSE "next_expression")>>)
          /\ Advance /\ UNCHANGED built
     ELSE Then(<<>>) /\ built' = Append(built, Null) /\ UNCHANGED <<read, ahead>>
  /\ UNCHANGED <<status, at>>

\* "if (inspect(k)) { get(); x = ...; }", "if (!inspect(k)) x = ...;"
Optional ==
  /\ Doing("opt")
  /\ IF ahead = Top.kind
     THEN /\ Then(<<Call(IF Top.kind = "kElse" THEN "next_statement" ELSE "next_expression")>>)
          /\ Advance /\ UNCHANGED built
     ELSE Then(<<>>) /\ built' = Append(built, Null) /\ UNCHANGED <<read, ahead>>
  /\ UNCHANGED <<status, at>>

Possible ==
  /\ Doing("unless")
  /\ IF ahead = Top.kind
     THEN Then(<<>>) /\ built' = Append(built, Null)
     ELSE Then(<<Call("next_expression")>>) /\ UNCHANGED built
  /\ UNCHANGED <<read, ahead, status, at>>

MakeNode ==
  /\ Doing("make")
  /\ Then(<<>>)
  /\ built' = Reduced(Top.what, Top.kind, Arity(Top.what))
  /\ UNCHANGED <<read, ahead, status, at>>

-----------------------------------------------------------------------------
(* Expressions.                                                             *)

\* the rest of assignment: the target is looked at once the value is parsed
Assigned ==
  /\ Calling("assigned?")
  /\ IF ahead = "kEqual"
     THEN Then(<<Call("assignment"), Call("assigned!")>>) /\ Advance
     ELSE Then(<<>>) /\ UNCHANGED <<read, ahead>>
  /\ UNCHANGED <<built, status, at>>

\* Mutant: anything can be assigned to.
MutantTarget ==
  /\ Calling("assigned!")
  /\ Then(<<Make("Assignment", "kEqual")>>)
  /\ UNCHANGED <<read, ahead, built, status, at>>

Target ==
  /\ Calling("assigned!")
  /\ IF built[Len(built) - 1].what = "Variable"
     THEN Then(<<Make("Assignment", "kEqual")>>) /\ UNCHANGED <<read, ahead, built, status, at>>
     ELSE Throw

\* while (inspect(ops)), of logical_or down to factor
Operator ==
  /\ Doing("loop") /\ Top.what \in Levels
  /\ IF ahead \in Ops[Top.what]
     THEN /\ Then(<<Call(RightOperand(Top.what)), Make(OpNode(Top.what), ahead), Top>>)
          /\ Advance
     ELSE Then(<<>>) /\ UNCHANGED <<read, ahead>>
  /\ UNCHANGED <<built, status, at>>

Unary ==
  /\ Calling("unary")
  /\ IF ahead \in {"kBang", "kMinus"}
     THEN Then(<<Call("unary"), Make("Unary", ahead)>>) /\ Advance
     ELSE Then(<<Call("call")>>) /\ UNCHANGED <<read, ahead>>
  /\ UNCHANGED <<built, status, at>>

\* while (inspect(kLeftParen)), of call
Calls ==
  /\ Looping("calls")
  /\ IF ahead = "kLeftParen"
     THEN Then(<<Call("get_args"), Make("Call", "kLeftParen"), Top>>) /\ Advance
     ELSE Then(<<>>) /\ UNCHANGED <<read, ahead>>
  /\ UNCHANGED <<built, status, at>>

Constants == {"kFalse", "kTrue", "kNil", "kNumber", "kString"}
Primary ==
  /\ Calling("primary")
  /\ \/ /\ ahead \in Constants \cup {"kIdentifier"}
        /\ Then(<<>>) /\ Advance
        /\ built' = Append(built, Node(IF ahead \in Constants THEN "Literal" ELSE "Variable",
                                       ahead, <<>>))
        /\ UNCHANGED <<status, at>>
     \/ /\ ahead = "kLeftParen"
        /\ Then(<<Call("next_expression"), Expect("kRightParen"), Make("Grouping", ahead)>>)
        /\ Advance
        /\ UNCHANGED <<built, status, at>>
     \/ ahead \notin Constants \cup {"kIdentifier", "kLeftParen"} /\ Throw

-----------------------------------------------------------------------------
(* Lists: arguments, parameters, statements.                                *)

EndOfList == built' = Reduced("list", "", Len(built) - Top.n)

\* get_args and get_params: "if (!inspect(kRightParen)) do"
BeginList ==
  /\ Doing("call") /\ Top.what \in {"get_args", "get_params"}
  /\ LET element == Call(IF Top.what = "get_args" THEN "next_expression" ELSE "parameter")
     IN Then(IF ahead = "kRightParen"
             THEN <<Loop("end of list", Len(built)), Expect("kRightParen")>>
             ELSE <<element, Loop(Top.what, Len(built)), Expect("kRightParen")>>)
  /\ UNCHANGED <<read, ahead, built, status, at>>

\* Mutant: a parameter is any token.
MutantParameter ==
  /\ Calling("parameter")
  /\ Then(<<>>) /\ Advance
  /\ built' = Append(built, Node("Token", ahead, <<>>))
  /\ UNCHANGED <<status, at>>

\* a parameter is taken before it is looked at
Parameter ==
  /\ Calling("parameter")
  /\ IF ahead = "kIdentifier"
     THEN Then(<<>>) /\ built' = Append(built, Node("Token", ahead, <<>>))
     ELSE Then(<<Call("throw")>>) /\ UNCHANGED built
  /\ Advance
  /\ UNCHANGED <<status, at>>

ThrowParameter == Calling("throw") /\ Throw

\* Mutant: the last element allowed is one too many.
MutantNextElement ==
  /\ Doing("loop") /\ Top.what \in {"get_args", "get_params"}
  /\ \/ /\ Len(built) - Top.n >= MaxList
        /\ Throw
     \/ /\ Len(built) - Top.n < MaxList
        /\ IF ahead = "kComma"
           THEN /\ Then(<<Call(IF Top.what = "get_args" THEN "next_expression" ELSE "parameter"),
                          Top>>)
                /\ Advance
           ELSE Then(<<Loop("end of list", Top.n)>>) /\ UNCHANGED <<read, ahead>>
        /\ UNCHANGED <<built, status, at>>

\* too many elements, or "while (inspect(kComma) && (get(), true))"
NextElement ==
  /\ Doing("loop") /\ Top.what \in {"get_args", "get_params"}
  /\ \/ /\ Len(built) - Top.n > MaxList
        /\ Throw
     \/ /\ Len(built) - Top.n <= MaxList
        /\ IF ahead = "kComma"
           THEN /\ Then(<<Call(IF Top.what = "get_args" THEN "next_expression" ELSE "parameter"),
                          Top>>)
                /\ Advance
           ELSE Then(<<Loop("end of list", Top.n)>>) /\ UNCHANGED <<read, ahead>>
        /\ UNCHANGED <<built, status, at>>

MakeList ==
  /\ Looping("end of list")
  /\ Then(<<>>)
  /\ EndOfList
  /\ UNCHANGED <<read, ahead, status, at>>

\* get_stmts: declarations up to a closing brace
BeginStmts ==
  /\ Calling("get_stmts")
  /\ Then(<<Loop("get_stmts", Len(built)), Expect("kRightBrace")>>)
  /\ UNCHANGED <<read, ahead, built, status, at>>

NextStmt ==
  /\ Looping("get_stmts")
  /\ IF ahead # "kRightBrace" /\ ~ AtEnd
     THEN Then(<<Call("next_declaration"), Top>>)
     ELSE Then(<<Loop("end of list", Top.n)>>)
  /\ UNCHANGED <<read, ahead, built, status, at>>

\* Mutant: a program ends at a closing brace, as a block does.
MutantNextDeclaration ==
  /\ Looping("parse")
  /\ IF AtEnd \/ ahead = "kRightBrace" THEN Then(<<Loop("end of list", Top.n)>>)
                                      ELSE Then(<<Call("next_declaration"), Top>>)
  /\ UNCHANGED <<read, ahead, built, status, at>>

\* parse(kStatement): declarations up to the end of file
NextDeclaration ==
  /\ Looping("parse")
  /\ IF AtEnd THEN Then(<<Loop("end of list", Top.n)>>)
              ELSE Then(<<Call("next_declaration"), Top>>)
  /\ UNCHANGED <<read, ahead, built, status, at>>

-----------------------------------------------------------------------------
Init ==
  /\ source = NoSource
  /\ read = <<>>
  /\ ahead = Past
  /\ todo = <<>>
  /\ built = <<>>
  /\ status = "new"
  /\ at = 0

\* set_views, and the call of parse; the lexer may have left no token at all
SetViews(s) ==
  /\ status = "new"
  /\ status' = "parsing"
  /\ source' = s
  /\ ahead' \in After(s, 0)
  /\ todo' = <<IF s.policy = "kExpression" THEN Call("next_expression") ELSE Loop("parse", 0)>>
  /\ UNCHANGED <<read, built, at>>

\* parse() returns OkStatus
Accept ==
  /\ status = "parsing" /\ todo = <<>>
  /\ status' = "ok"
  /\ UNCHANGED <<read, ahead, todo, built, at>>

\* get() with the cursor at the end: synchronize takes a token that is not
\* there, and compares a negative distance as unsigned, so it goes on until
\* what it finds in memory looks like a semicolon or end of file, or it crashes
AboutToOverrun ==
  /\ ahead = Past
  /\ Doing("expect") \/ Calling("primary") \/ Calling("throw")

Overrun ==
  /\ AboutToOverrun
  /\ status' \in {"error", "crashed"}
  /\ todo' = <<>>
  /\ built' = <<>>
  /\ at' = IF status' = "error" THEN Len(read) + 1 ELSE 0
  /\ UNCHANGED <<read, ahead>>

Ended == status \in {"ok", "error", "crashed"} /\ UNCHANGED vars

Step ==
  \/ Enter \/ Choose \/ Nothing \/ Want \/ Identifier \/ TakeName \/ Optional \/ Possible
  \/ MakeNode \/ Assigned \/ Target \/ Operator \/ Unary \/ Calls \/ Primary
  \/ BeginList \/ Parameter \/ ThrowParameter \/ NextElement \/ MakeList
  \/ BeginStmts \/ NextStmt \/ NextDeclaration
  \/ Skip \/ Accept \/ Overrun

Next ==
  \/ \E s \in Sources : SetViews(s)
  \/ Step /\ UNCHANGED source
  \/ Ended

Spec == Init /\ [][Next]_vars

\* parse() runs until it returns
FairSpec == Spec /\ WF_vars(Next)

-----------------------------------------------------------------------------
\* Type invariant: a loop began no higher than `built` is now, and one node or
\* list of nodes is left when parsing succeeds.
TypeOK ==
  /\ source \in Sources \cup {NoSource}
  /\ read \in Seq(Inspected \cup {Other, Eof})
  /\ Len(read) <= Len(source.kinds)
  /\ ahead \in Inspected \cup {Other, Eof, Past}
  /\ \A i \in 1 .. Len(todo) : todo[i].n \in 0 .. Len(built)
  /\ status \in {"new", "parsing", "ok", "error", "crashed"}
  /\ status = "ok" => Len(built) = 1
  /\ at \in 0 .. Len(read) + 1
=============================================================================
