--------------------------- MODULE InterpreterScopes ---------------------------
(***************************************************************************)
(* Interpreter implements ScopeDiscipline as long as no function body ends  *)
(* without a return statement (SpecNoFallOff).  FallOffCall does not: the   *)
(* scope of the call that ended stays current.                              *)
(***************************************************************************)
EXTENDS Interpreter

\* The frames that restore an environment.
Saves(f) == f.tag \in {"Block", "Call"}

\* The environment that the end of each visit restores, if it does.
Restores(s) == [i \in 1 .. Len(s) |-> IF Saves(s[i]) THEN s[i].env ELSE NoEnv]

Discipline == INSTANCE ScopeDiscipline WITH
  Scopes <- EnvIds,
  None <- NoEnv,
  begun <- mode # "start",
  cur <- env,
  saved <- Restores(stack)

\* Every block and every call that ends puts back the scope that was current
\* when it began, on each of its ways out: end, return and error, and no other
\* visitor changes the current scope.
ObeysScopeDiscipline == Discipline!Spec
=============================================================================
