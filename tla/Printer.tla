-------------------------------- MODULE Printer --------------------------------
(***************************************************************************)
(* What `parse` writes of a tree: the to_string_impl of each expression     *)
(* (driver/src/expression.cpp), which ASTPrinter sends to its stream, and   *)
(* the text of a token (driver/src/Token.cpp).  A tree is a Node of Parser; *)
(* a text is the words it falls into at its blanks and brackets, brackets   *)
(* being words too.  A name or a number is one word, "value".  A string is  *)
(* written as it stands, without its quotes, and is as many words as it     *)
(* holds, brackets among them: nothing marks where it begins or ends.  All  *)
(* the strings of one tree are taken to hold the same words.                *)
(***************************************************************************)
EXTENDS Integers, Sequences

\* Token::to_string_impl, kTokenOnly, of every token but a string
Lexeme == [
  kMinus |-> "-", kPlus |-> "+", kSlash |-> "/", kStar |-> "*", kBang |-> "!",
  kBangEqual |-> "!=", kEqualEqual |-> "==", kGreater |-> ">", kGreaterEqual |-> ">=",
  kLess |-> "<", kLessEqual |-> "<=", kTrue |-> "true", kFalse |-> "false", kNil |-> "nil",
  kIdentifier |-> "value", kNumber |-> "value"]

\* the same by the default policy: the kind, the lexeme and the literal
InFull == [kAnd |-> <<"AND", "and", "null">>, kOr |-> <<"OR", "or", "null">>]

\* the two whose to_string_impl is TODO(), which throws
Unprintable == {"Assignment", "Call"}

RECURSIVE Printable(_)
Printable(node) ==
  /\ node.what \notin Unprintable
  /\ \A i \in 1 .. Len(node.kids) : Printable(node.kids[i])

\* Is a call in it whose callee cannot be written? A failed call may have to.
RECURSIVE CallsUnprintable(_)
CallsUnprintable(node) ==
  \/ node.what = "Call" /\ ~ Printable(node.kids[1])
  \/ \E i \in 1 .. Len(node.kids) : CallsUnprintable(node.kids[i])

\* Mutant: a unary operator binds as visibly as a binary one, without brackets.
RECURSIVE MutantText(_, _)
MutantText(node, string) ==
  LET kid(i) == MutantText(node.kids[i], string) IN
  CASE node.what = "Grouping" -> <<"(", "group">> \o kid(1) \o <<")">>
    [] node.what = "Unary"    -> <<Lexeme[node.op]>> \o kid(1)
    [] node.what = "Binary"   -> <<"(", Lexeme[node.op]>> \o kid(1) \o kid(2) \o <<")">>
    [] node.what = "Logical"  -> <<"(">> \o kid(1) \o InFull[node.op] \o kid(2) \o <<")">>
    [] node.op = "kString"    -> string
    [] OTHER                  -> <<Lexeme[node.op]>>

\* to_string_impl
RECURSIVE Text(_, _)
Text(node, string) ==
  LET kid(i) == Text(node.kids[i], string) IN
  CASE node.what = "Grouping" -> <<"(", "group">> \o kid(1) \o <<")">>
    [] node.what = "Unary"    -> <<"(", Lexeme[node.op]>> \o kid(1) \o <<")">>
    [] node.what = "Binary"   -> <<"(", Lexeme[node.op]>> \o kid(1) \o kid(2) \o <<")">>
    [] node.what = "Logical"  -> <<"(">> \o kid(1) \o InFull[node.op] \o kid(2) \o <<")">>
    [] node.op = "kString"    -> string
    [] OTHER                  -> <<Lexeme[node.op]>>
================================================================================
