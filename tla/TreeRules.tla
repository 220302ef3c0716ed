------------------------------ MODULE TreeRules ------------------------------
(***************************************************************************)
(* What the grammar of the repository's README.md asks of the nodes that    *)
(* Parser makes: how tightly their parts bind, where a declaration may be,  *)
(* which if an else belongs to.                                             *)
(*                                                                         *)
(* `built` has each node when it is made, and a node never changes once it  *)
(* is made.  So what is said of every node in `built` at every step is said *)
(* of every node of every tree, also of one whose source is rejected later. *)
(***************************************************************************)
EXTENDS Parser

CONSTANT Open(_)   \* may an else that follows the statement belong to it: OpenBy's solution

Rank == [logical_or |-> 1, logical_and |-> 2, equality |-> 3, comparison |-> 4,
         term |-> 5, factor |-> 6]

\* how tightly a node binds: assignment least, operators by level, the rest most
Strength(node) ==
  CASE node.what = "Assignment" -> 0
    [] node.what \in {"Binary", "Logical"} -> Rank[CHOOSE l \in Levels : node.op \in Ops[l]]
    [] node.what = "Unary" -> 7
    [] OTHER -> 8

\* A statement is open when an else right after it could belong to an if that has
\* none yet: the statement itself, or one at the end of it, at any depth of loops
\* and of elses.
OpenBy(node, IsOpen(_)) ==
  \/ node.what = "If" /\ (node.kids[3] = Null \/ IsOpen(node.kids[3]))
  \/ node.what = "While" /\ IsOpen(node.kids[2])
  \/ node.what = "For" /\ IsOpen(node.kids[4])

\* The equation, which the theorem about Nearest takes as a hypothesis.
OpenLaw == \A node : Open(node) = OpenBy(node, Open)

Binds(node) ==
  /\ node.what \in {"Binary", "Logical"} =>
       LET loose == IF node.op = "kOr" THEN 2 ELSE 1 IN
       /\ Strength(node.kids[loose]) >= Strength(node)
       /\ Strength(node.kids[3 - loose]) > Strength(node)
  /\ node.what = "Unary" => Strength(node.kids[1]) >= 7
  /\ node.what = "Call" => Strength(node.kids[1]) = 8
  /\ node.what = "Assignment" => node.kids[1].what = "Variable"

Statements == {"Print", "Block", "If", "While", "For", "Return", "Expression"}

Declares(node) ==
  /\ node.what \in {"If", "While", "For"} =>
       \A i \in 1 .. Len(node.kids) :
         /\ node.kids[i].what # "Function"
         /\ node.kids[i].what = "Var" => node.what = "For" /\ i = 1
  /\ node.what = "For" => node.kids[1].what \in {"null", "Var", "Expression"}

Nearest(node) == node.what = "If" /\ node.kids[3] # Null => ~ Open(node.kids[2])

-----------------------------------------------------------------------------
\* An operator's operands bind at least as tightly as it does: the right operand
\* more tightly, the left one no less, the other way round for `or`; the target
\* of an assignment is a name.
OperatorsBind == \A i \in 1 .. Len(built) : Binds(built[i])

\* What Interpreter takes for granted of a program: declarations stand only in a
\* list of statements, but for the variable of a for loop, whose initializer is a
\* variable declaration or an expression statement.
DeclarationsInLists == \A i \in 1 .. Len(built) : Declares(built[i])

\* An else belongs to the nearest if that has none yet, loops and other elses
\* between the two or not: the then branch of an if with an else is not open.
ElseBindsNearest == \A i \in 1 .. Len(built) : Nearest(built[i])
=============================================================================
