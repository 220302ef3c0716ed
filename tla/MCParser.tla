------------------------------- MODULE MCParser -------------------------------
(***************************************************************************)
(* Small instances of Parser, and the recursive operators that its results  *)
(* are compared with.                                                       *)
(***************************************************************************)
EXTENDS TreeRules, GrammarRules, Printer, SequencesExt

\* any of these sources may end early, or have no token at all
Family(policy, kinds) ==
  [policy |-> policy,
   kinds |-> [i \in 1 .. Len(kinds) + 1 |->
                (IF i <= Len(kinds) THEN kinds[i] ELSE {}) \cup {Eof}
                  \cup (IF i = 1 THEN {Past} ELSE {})]]
\* these tokens, and n of any of these kinds
Fixed(tokens) == [i \in 1 .. Len(tokens) |-> {tokens[i]}]
Free(n, kinds) == [i \in 1 .. n |-> kinds]

OperatorKinds == {"kIdentifier", "kString", "kOr", "kAnd", "kEqualEqual", "kLess", "kMinus",
                  "kStar", "kBang", "kEqual", "kLeftParen", "kRightParen", Other}
StatementKinds == {"kIdentifier", "kSemicolon", "kLeftBrace", "kRightBrace", "kLeftParen",
                   "kRightParen", "kEqual", "kVar", "kFun", "kIf", "kElse", "kWhile", "kFor",
                   "kReturn", "kPrint"}
ListKinds == {"kIdentifier", "kComma", "kRightParen", "kNumber"}
LoopKinds == {"kIdentifier", "kVar", "kEqual", "kSemicolon", "kRightParen", "kFun"}
BranchKinds == {"kIdentifier", "kSemicolon", "kElse", "kIf", "kWhile"}

Expressions == Family("kExpression",
  Free(4, OperatorKinds) \o Free(2, {"kRightParen", "kIdentifier"}))
Chains == Family("kExpression",
  [i \in 1 .. 7 |-> IF i % 2 = 1 THEN {"kIdentifier"} ELSE OperatorKinds])
Programs == Family("kStatement",
  Free(5, StatementKinds) \o Free(2, {"kIdentifier", "kSemicolon", "kRightBrace"}))
Arguments == Family("kExpression", Fixed(<<"kIdentifier", "kLeftParen">>) \o Free(7, ListKinds))
Parameters == Family("kStatement",
  Fixed(<<"kFun", "kIdentifier", "kLeftParen">>) \o Free(6, ListKinds)
    \o Fixed(<<"kLeftBrace">>) \o Free(3, {"kRightBrace", "kReturn", "kIdentifier", "kSemicolon"}))
ForLoops == Family("kStatement", Fixed(<<"kFor", "kLeftParen">>) \o Free(7, LoopKinds))
IfHead == <<"kIf", "kLeftParen", "kIdentifier", "kRightParen">>
WhileHead == <<"kWhile", "kLeftParen", "kIdentifier", "kRightParen">>
ForHead == <<"kFor", "kLeftParen", "kSemicolon", "kSemicolon", "kRightParen">>

\* an if whose then branch is an if, has one at the end of a loop, or of an else
Branches ==
  {Family("kStatement", Fixed(IfHead \o head) \o Free(6, BranchKinds))
     : head \in {IfHead, WhileHead \o IfHead, ForHead \o IfHead,
                 IfHead \o <<"kIdentifier", "kSemicolon", "kElse">> \o IfHead}}

AllFamilies ==
  {Expressions, Chains, Programs, Arguments, Parameters, ForLoops} \cup Branches

-----------------------------------------------------------------------------
(* The operators that TreeRules and GrammarRules have the equations of.     *)

RECURSIVE StatementOpen(_)
StatementOpen(node) == OpenBy(node, StatementOpen)

RECURSIVE FormDerives(_, _, _)
FormDerives(form, tokens, whole) == DerivesBy(form, tokens, whole, FormDerives)

RECURSIVE NodeYield(_, _)
NodeYield(node, separator) == YieldOf(node, separator, NodeYield)

-----------------------------------------------------------------------------
(* Reading what Printer writes: the trees that words may stand for, whose   *)
(* nodes are told apart by the word of their operator only.                 *)

RECURSIVE Readings(_)
Readings(words) ==
  LET inner == SubSeq(words, 2, Len(words) - 1)
      Trees(op, from, to, next) ==
        {Node("", op, <<l, r>>) : l \in Readings(SubSeq(inner, from, to)),
                                  r \in Readings(SubSeq(inner, next, Len(inner)))}
      infix == {i \in 2 .. Len(inner) - 3 : SubSeq(inner, i, i + 2) \in {InFull.kAnd, InFull.kOr}}
  IN CASE Len(words) = 1 /\ words[1] \in {"value", "true", "false", "nil"} ->
            {Node("", words[1], <<>>)}
       [] Len(words) > 3 /\ words[1] = "(" /\ words[Len(words)] = ")" ->
            {Node("", inner[1], <<kid>>) : kid \in Readings(Tail(inner))}
              \cup UNION {Trees(inner[1], 2, i, i + 1) : i \in 2 .. Len(inner) - 1}
              \cup UNION {Trees(inner[i], 1, i - 1, i + 3) : i \in infix}
       [] OTHER -> {}

\* a tree as it is read, every string of it being read as the tree spelt
RECURSIVE Shape(_, _)
Shape(node, spelt) ==
  IF node.op = "kString" THEN spelt
  ELSE Node("", CASE node.what = "Grouping" -> "group"
                  [] node.what = "Logical"  -> InFull[node.op][1]
                  [] OTHER                  -> Lexeme[node.op],
            [i \in 1 .. Len(node.kids) |-> Shape(node.kids[i], spelt)])

\* the words of some strings that can themselves be read, as one tree
Strings == {<<"value">>, <<"nil">>, <<"(", "==", "value", "value", ")">>}
Spelt(string) == CHOOSE tree \in Readings(string) : TRUE

-----------------------------------------------------------------------------
(* Properties                                                               *)

\* What is printed of an expression tells its tree, operators, brackets and all,
\* but for two things: which of its leaves are names and which numbers; and a
\* string, which reads as whatever its own text spells, as a name or, when it is
\* "(== a b)", as the comparison that prints so.  Of a string that spells no
\* expression, such as "a b", nothing is claimed: the text may not read at all.
TextTellsTree ==
  status = "ok" /\ source.policy = "kExpression" /\ Printable(built[1])
    => \A string \in Strings :
         Readings(Text(built[1], string)) = {Shape(built[1], Spelt(string))}

\* parse() returns, whatever the tokens are: each loop takes a token or ends, and
\* synchronize stops at the end of file.
ParseEnds == status = "parsing" ~> status # "parsing"

\* get()'s assertion: "contract_assert(cursor < tokens.end())".
GetsInside == ~ AboutToOverrun
=============================================================================
