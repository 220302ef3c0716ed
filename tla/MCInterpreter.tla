---------------------------- MODULE MCInterpreter ----------------------------
(***************************************************************************)
(* Small instances of Interpreter, each for programs of a few forms.        *)
(***************************************************************************)
EXTENDS InterpreterScopes

\* a value that is true, and one that is false
True == {Plain("num")}
TrueAndFalse == {Plain("num"), Nil}

\* functions of no parameter, and of one or none
Nullary == {<<>>}
UpToUnary == {<<>>, <<"a">>}

Calls == {"Expression", "Return", "Function", "Block", "Callee"}
Scoping == Calls \cup {"Variable", "Assignment"}
Control == {"Expression", "Return", "Print", "If", "WhileCond", "For", "Block",
            "Function", "Callee", "Unary", "BinaryLhs", "Logical"}
=============================================================================
