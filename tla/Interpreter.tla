------------------------------ MODULE Interpreter ------------------------------
(***************************************************************************)
(* The tree-walking interpreter: driver/src/interpreter.cpp and             *)
(* Callable::call of driver/src/Evaluatable.cpp, over the environments of   *)
(* Environment.                                                             *)
(*                                                                         *)
(* The C++ is a set of visitors that call each other.  Here the C++ call    *)
(* stack is explicit: `stack` holds one frame for each visitor that waits   *)
(* for the result of a visitor it called, and `mode` says what the top of   *)
(* the C++ stack is doing.                                                  *)
(*                                                                         *)
(* The program is not fixed.  Whenever the interpreter turns to the next    *)
(* statement or expression, any one the grammar allows there may come, with *)
(* any operator and name, so the model has the executions of every program  *)
(* within the bounds (a loop or a body entered twice may even differ: a     *)
(* superset).  Builds without AC_CPP_DEBUG are modelled, where              *)
(* contract_assert is empty.                                                *)
(***************************************************************************)
EXTENDS Environment

CONSTANTS
  Natives,     \* the names getGlobalEnvironment binds
  Literals,    \* the values a literal can have
  ParamLists,  \* the parameter lists of declared functions
  Forms,       \* the statements and operators the programs are made of
  MaxDepth,    \* bound: frames on the stack
  MaxArgs,     \* bound: arguments of a call
  MaxPrints    \* bound: stmts_res is counted up to here

ASSUME NativesAssumption == Natives \subseteq Names
ASSUME LiteralsAssumption ==
  Literals \subseteq {Nil, Boolean(TRUE), Boolean(FALSE), Plain("num"), Plain("str")}
ASSUME ParamListsAssumption == ParamLists \subseteq Seq(Names)
ASSUME FormsAssumption == {"Expression", "Return"} \subseteq Forms
ASSUME BoundsAssumption ==
  \* the constructor's environment and the global one fit in the heap
  /\ MaxEnvs >= 2
  /\ MaxDepth \in Nat /\ MaxArgs \in Nat /\ MaxPrints \in Nat

VARIABLES
  global_env,     \* Environment::global_env; NoEnv until getGlobalEnvironment
  env,            \* interpreter::env
  last_expr_res,  \* the value in interpreter::last_expr_res (its code is ok)
  stmts_res,      \* how many values interpreter::stmts_res holds
  stack,          \* the waiting visitors, innermost first
  mode,
  res,            \* in mode "ret", the result returned to the top frame
  returned        \* history: the value of the return statement under way

scopes == <<envs, env>>
vars == <<envs, global_env, env, last_expr_res, stmts_res, stack, mode, res,
          returned>>

Modes == {"start",   \* interpret() has not been called
          "list",    \* in a statement list: the next declaration, or its end
          "stmt",    \* one statement is visited: a branch, a loop's body
          "eval",    \* an expression is visited
          "args",    \* a callee is known: the next argument, or the call
          "ret",     \* res is handed to the top frame
          "done",    \* interpret() has returned res
          "crashed"} \* a visitor has thrown what nobody catches

\* Frames waiting for the result of a statement, and of an expression.  A
\* frame is named for its visitor and the place it waits in.
StmtTags == {"Block", "Call", "WhileBody", "ForInit", "ForBody"}
ExprTags == {"Variable", "Print", "Expression", "If", "WhileCond", "ForCond",
             "ForIncr", "Return", "Unary", "BinaryLhs", "BinaryRhs", "Logical",
             "Assignment", "Callee", "Args"}

\* env: the environment a Block or Call restores; res: the left result of a
\* BinaryRhs, the callee of an Args; args: the arguments evaluated so far
Frame == [tag : StmtTags \cup ExprTags, env : EnvIds \cup {NoEnv},
          res : Result, args : Seq(Value)]

Waiting(tag) == [tag |-> tag, env |-> NoEnv, res |-> Ok(Monostate), args |-> <<>>]
\* Mutant: the environment to restore is not recorded.
MutantSaving(tag, e) == Waiting(tag)

Saving(tag, e) == [Waiting(tag) EXCEPT !.env = e]
Holding(tag, r) == [Waiting(tag) EXCEPT !.res = r]

Top == Head(stack)
TopIs(tag) == stack # <<>> /\ Top.tag = tag

-----------------------------------------------------------------------------
(* How control moves.  Each sets stack, mode and res.                       *)

\* call a visitor, and wait for it in frame f
Enter(f, m) ==
  /\ Len(stack) < MaxDepth
  /\ stack' = <<f>> \o stack
  /\ mode' = m
  /\ res' = Ok(Monostate)

\* the top visitor calls another one, now waiting in frame f
Resume(f, m) ==
  /\ stack' = <<f>> \o Tail(stack)
  /\ mode' = m
  /\ res' = Ok(Monostate)

\* the top visitor returns what the visitor it calls last returns
TailCall(m) ==
  /\ stack' = Tail(stack)
  /\ mode' = m
  /\ res' = Ok(Monostate)

\* the top visitor returns r
Leave(r) ==
  /\ stack' = Tail(stack)
  /\ mode' = "ret"
  /\ res' = r

\* a visitor that never waits returns r
Yield(r) ==
  /\ mode' = "ret"
  /\ res' = r
  /\ UNCHANGED stack

\* a statement's own value is used by nobody
Completed == Ok(Monostate)

\* a statement begins; a declaration only in a list, and a for initializer is
\* a variable declaration or an expression statement
InList == mode = "list"
ForInitializer == mode = "stmt" /\ TopIs("ForInit")
AnyStatement == mode \in {"list", "stmt"} /\ ~ ForInitializer

\* the top frame gets an ok result / gets one from evaluate(), which stores
\* the value in last_expr_res before returning it
Returned(tag) == mode = "ret" /\ TopIs(tag) /\ IsOk(res)
Evaluated(tag) == Returned(tag) /\ last_expr_res' = res.val

-----------------------------------------------------------------------------
(* interpreter::interpret                                                   *)

NativeVars == [x \in Names |-> IF x \in Natives THEN Plain("native") ELSE Unbound]

\* getGlobalEnvironment makes the global environment once per process, with
\* the natives in it; interpret() adopts it once per process too
Interpret ==
  /\ mode = "start"
  /\ mode' = "list"
  /\ IF global_env = NoEnv
     THEN /\ envs' = NewEnv(envs, NoEnv, NativeVars)
          /\ global_env' = Len(envs) + 1
          /\ env' = Len(envs) + 1
     ELSE UNCHANGED <<envs, global_env, env>>
  /\ UNCHANGED <<last_expr_res, stmts_res, stack, res, returned>>

\* the loop over the program runs out of statements
EndProgram ==
  /\ InList /\ stack = <<>>
  /\ mode' = "done"
  /\ UNCHANGED <<scopes, global_env, returned, last_expr_res, stmts_res, stack, res>>

\* Mutant: the loop over the program goes on after a failed statement.
MutantAbortProgram ==
  /\ mode = "ret" /\ stack = <<>> /\ ~ IsOk(res)
  /\ mode' = "list"
  /\ res' = Completed
  /\ UNCHANGED <<scopes, global_env, returned, last_expr_res, stmts_res, stack>>

\* the loop stops at the first statement that is not ok
AbortProgram ==
  /\ mode = "ret" /\ stack = <<>> /\ ~ IsOk(res)
  /\ mode' = "done"
  /\ last_expr_res' = Monostate
  /\ UNCHANGED <<scopes, global_env, returned, stmts_res, stack, res>>

\* the loops of interpret, Block and Callable::call go on after an ok statement
NextInList ==
  /\ mode = "ret" /\ IsOk(res)
  /\ stack = <<>> \/ TopIs("Block") \/ TopIs("Call")
  /\ mode' = "list"
  /\ res' = Completed
  /\ UNCHANGED <<scopes, global_env, returned, last_expr_res, stmts_res, stack>>

-----------------------------------------------------------------------------
(* Statements                                                               *)

\* a statement that first evaluates an expression, and the frame it waits in
BeginStatement(tag) ==
  /\ tag \in Forms
  /\ \/ AnyStatement /\ (tag = "Variable" => InList)
     \/ ForInitializer /\ tag \in {"Variable", "Expression"}
  /\ Enter(Waiting(tag), "eval")
  /\ UNCHANGED <<scopes, global_env, returned, last_expr_res, stmts_res>>

\* Variable without an initializer
DeclareNil(x) ==
  /\ "Variable" \in Forms
  /\ InList \/ ForInitializer
  /\ envs' = AddTo(envs, env, x, Nil)
  /\ Yield(Completed)
  /\ UNCHANGED <<global_env, returned, env, last_expr_res, stmts_res>>

\* Variable, its initializer evaluated: bound in what is now the current scope
Declare(x) ==
  /\ Evaluated("Variable")
  /\ envs' = AddTo(envs, env, x, res.val)
  /\ Leave(Completed)
  /\ UNCHANGED <<global_env, returned, env, stmts_res>>

\* Mutant: functions are declared in the global environment.
MutantDeclareFunction(x, params) ==
  /\ "Function" \in Forms
  /\ InList
  /\ envs' = AddTo(envs, global_env, x, Fn(params, env))
  /\ Yield(Completed)
  /\ UNCHANGED <<global_env, returned, env, last_expr_res, stmts_res>>

\* Function: a name the current scope already sees is left as it is
DeclareFunction(x, params) ==
  /\ "Function" \in Forms
  /\ InList
  /\ envs' = IF Empty(Get(envs, env, x))
             THEN AddTo(envs, env, x, Fn(params, env))
             ELSE envs
  /\ Yield(Completed)
  /\ UNCHANGED <<global_env, returned, env, last_expr_res, stmts_res>>

PrintValue ==
  /\ Evaluated("Print")
  /\ stmts_res' = IF stmts_res < MaxPrints THEN stmts_res + 1 ELSE stmts_res
  /\ Leave(Completed)
  /\ UNCHANGED <<scopes, global_env, returned>>

ExpressionDone ==
  /\ Evaluated("Expression")
  /\ Leave(Completed)
  /\ UNCHANGED <<scopes, global_env, returned, stmts_res>>

\* If: the then branch, the else branch if there is one, or nothing
Branch ==
  /\ Evaluated("If")
  /\ \/ TailCall("stmt")
     \/ ~ IsTrue(res.val) /\ Leave(Completed)
  /\ UNCHANGED <<scopes, global_env, returned, stmts_res>>

WhileTest ==
  /\ Evaluated("WhileCond")
  /\ IF IsTrue(res.val) THEN Resume(Waiting("WhileBody"), "stmt") ELSE Leave(Completed)
  /\ UNCHANGED <<scopes, global_env, returned, stmts_res>>

\* Mutant: the loop does not look at how its body ended.
MutantWhileAgain ==
  /\ mode = "ret" /\ TopIs("WhileBody")
  /\ Resume(Waiting("WhileCond"), "eval")
  /\ UNCHANGED <<scopes, global_env, returned, last_expr_res, stmts_res>>

WhileAgain ==
  /\ Returned("WhileBody")
  /\ Resume(Waiting("WhileCond"), "eval")
  /\ UNCHANGED <<scopes, global_env, returned, last_expr_res, stmts_res>>

\* For: initializer, condition and increment may each be missing.  The loop
\* has no scope of its own: its variable is declared in the current one.
\* (MaxDepth leaves room for the frame of the initializer's own statement.)
BeginFor ==
  /\ "For" \in Forms
  /\ AnyStatement
  /\ \/ Len(stack) + 1 < MaxDepth /\ Enter(Waiting("ForInit"), "stmt")
     \/ Enter(Waiting("ForCond"), "eval")
     \/ Enter(Waiting("ForBody"), "stmt")
  /\ UNCHANGED <<scopes, global_env, returned, last_expr_res, stmts_res>>

ForIterate ==
  \/ Resume(Waiting("ForCond"), "eval")
  \/ Resume(Waiting("ForBody"), "stmt")

ForStart ==
  /\ Returned("ForInit")
  /\ ForIterate
  /\ UNCHANGED <<scopes, global_env, returned, last_expr_res, stmts_res>>

ForTest ==
  /\ Evaluated("ForCond")
  /\ IF IsTrue(res.val) THEN Resume(Waiting("ForBody"), "stmt") ELSE Leave(Completed)
  /\ UNCHANGED <<scopes, global_env, returned, stmts_res>>

ForStep ==
  /\ Returned("ForBody")
  /\ ForIterate \/ Resume(Waiting("ForIncr"), "eval")
  /\ UNCHANGED <<scopes, global_env, returned, last_expr_res, stmts_res>>

ForAgain ==
  /\ Evaluated("ForIncr")
  /\ ForIterate
  /\ UNCHANGED <<scopes, global_env, returned, stmts_res>>

\* Block: the statements run in a new scope; the old one is put back at the
\* end and when a statement fails or returns
BeginBlock ==
  /\ "Block" \in Forms
  /\ AnyStatement
  /\ Len(envs) < MaxEnvs
  /\ Enter(Saving("Block", env), "list")
  /\ envs' = NewEnv(envs, env, NoVars)
  /\ env' = Len(envs) + 1
  /\ UNCHANGED <<global_env, returned, last_expr_res, stmts_res>>

EndBlock ==
  /\ InList /\ TopIs("Block")
  /\ env' = Top.env
  /\ Leave(Completed)
  /\ UNCHANGED <<envs, global_env, returned, last_expr_res, stmts_res>>

\* Mutant: a block that is returned from leaves its scope in place.
MutantBreakBlock ==
  /\ mode = "ret" /\ TopIs("Block") /\ ~ IsOk(res)
  /\ env' = IF IsError(res) THEN Top.env ELSE env
  /\ Leave(res)
  /\ UNCHANGED <<envs, global_env, returned, last_expr_res, stmts_res>>

BreakBlock ==
  /\ mode = "ret" /\ TopIs("Block") /\ ~ IsOk(res)
  /\ env' = Top.env
  /\ Leave(res)
  /\ UNCHANGED <<envs, global_env, returned, last_expr_res, stmts_res>>

\* Return: rejected when the current scope is the global one; Returning()
\* stores the value in last_expr_res
AtTopLevel == env = global_env

RejectReturn ==
  /\ AnyStatement
  /\ AtTopLevel
  /\ Yield(Failure("invalidArgument"))
  /\ UNCHANGED <<scopes, global_env, returned, last_expr_res, stmts_res>>

\* Mutant: return without a value does not set last_expr_res.
MutantReturnNil ==
  /\ AnyStatement
  /\ ~ AtTopLevel
  /\ returned' = Nil
  /\ Yield(Returning)
  /\ UNCHANGED <<scopes, global_env, last_expr_res, stmts_res>>

ReturnNil ==
  /\ AnyStatement
  /\ ~ AtTopLevel
  /\ last_expr_res' = Nil
  /\ returned' = Nil
  /\ Yield(Returning)
  /\ UNCHANGED <<scopes, global_env, stmts_res>>

BeginReturn ==
  /\ ~ AtTopLevel
  /\ BeginStatement("Return")

ReturnValue ==
  /\ Evaluated("Return")
  /\ returned' = res.val
  /\ Leave(Returning)
  /\ UNCHANGED <<scopes, global_env, stmts_res>>

\* "if (!res) return res": these visitors pass on whatever is not ok
Passing == {"Variable", "Print", "Expression", "If", "WhileCond", "WhileBody",
            "ForInit", "ForCond", "ForBody", "ForIncr", "Return", "Logical",
            "Assignment", "Callee", "Args"}
Propagate ==
  /\ mode = "ret" /\ ~ IsOk(res)
  /\ stack # <<>> /\ Top.tag \in Passing
  /\ Leave(res)
  /\ UNCHANGED <<scopes, global_env, returned, last_expr_res, stmts_res>>

-----------------------------------------------------------------------------
(* Expressions.  Grouping only passes its expression's result on.           *)

\* an operator or call first visits its left operand, operand or callee
Operators == {"Unary", "BinaryLhs", "Logical", "Assignment", "Callee"}
BeginExpression(tag) ==
  /\ tag \in Forms
  /\ mode = "eval"
  /\ Enter(Waiting(tag), "eval")
  /\ UNCHANGED <<scopes, global_env, returned, last_expr_res, stmts_res>>

Literal(v) ==
  /\ mode = "eval"
  /\ Yield(Ok(v))
  /\ UNCHANGED <<scopes, global_env, returned, last_expr_res, stmts_res>>

Variable(x) ==
  /\ mode = "eval"
  /\ Yield(IF Empty(Get(envs, env, x)) THEN Failure("notFound") ELSE Ok(Get(envs, env, x)))
  /\ UNCHANGED <<scopes, global_env, returned, last_expr_res, stmts_res>>

\* the operand's status is not looked at
Unary ==
  /\ mode = "ret" /\ TopIs("Unary")
  /\ \E r \in UnaryResults(res) : Leave(r)
  /\ UNCHANGED <<scopes, global_env, returned, last_expr_res, stmts_res>>

\* the right operand is visited even if the left one failed
BinaryRight ==
  /\ mode = "ret" /\ TopIs("BinaryLhs")
  /\ Resume(Holding("BinaryRhs", res), "eval")
  /\ UNCHANGED <<scopes, global_env, returned, last_expr_res, stmts_res>>

Binary(op) ==
  /\ mode = "ret" /\ TopIs("BinaryRhs")
  /\ \/ ~ IsOk(Top.res) /\ Leave(Top.res)
     \/ IsOk(Top.res) /\ ~ IsOk(res) /\ Leave(res)
     \/ /\ IsOk(Top.res) /\ IsOk(res)
        /\ \E r \in BinaryResults(op, Top.res.val, res.val) : Leave(r)
  /\ UNCHANGED <<scopes, global_env, returned, last_expr_res, stmts_res>>

\* the first disjunct is `or` after true and `and` after false
Logical ==
  /\ Returned("Logical")
  /\ \/ Leave(Ok(IF IsTrue(res.val) THEN res.val ELSE Boolean(FALSE)))
     \/ TailCall("eval")
  /\ UNCHANGED <<scopes, global_env, returned, last_expr_res, stmts_res>>

\* the value is known before the name is looked up
Assign(x) ==
  /\ Evaluated("Assignment")
  /\ IF Find(envs, env, x) = NoEnv
     THEN Leave(Failure("notFound")) /\ UNCHANGED envs
     ELSE Leave(Ok(res.val)) /\ envs' = ReassignIn(envs, env, x, res.val)
  /\ UNCHANGED <<global_env, returned, env, stmts_res>>

CalleeKnown ==
  /\ Evaluated("Callee")
  /\ IF IsCallable(res.val)
     THEN Resume(Holding("Args", res), "args")
     ELSE Leave(Failure("notFound"))
  /\ UNCHANGED <<scopes, global_env, returned, stmts_res>>

\* get_call_args, left to right
NextArgument ==
  /\ mode = "args" /\ Len(Top.args) < MaxArgs
  /\ mode' = "eval"
  /\ UNCHANGED <<scopes, global_env, returned, last_expr_res, stmts_res, stack, res>>

ArgumentKnown ==
  /\ Evaluated("Args")
  /\ Resume([Top EXCEPT !.args = Append(@, res.val)], "args")
  /\ UNCHANGED <<scopes, global_env, returned, stmts_res>>

\* The message of this error writes the callee, and to_string throws if there is
\* a call or an assignment in it.  What was in the callee is not kept here, so
\* both may come: a superset, for with f() as callee the code always throws.  (Of
\* two callees that do the same, f and `f or (x = x)`, only one can be written.)
RejectArguments ==
  /\ mode = "args" /\ Len(Top.args) # Arity(Top.res.val)
  /\ \/ Leave(Failure("invalidArgument"))
     \/ mode' = "crashed" /\ UNCHANGED <<stack, res>>
  /\ UNCHANGED <<scopes, global_env, returned, last_expr_res, stmts_res>>

-----------------------------------------------------------------------------
(* Callable::call                                                           *)

\* clock() is a number, and about()'s text becomes the Boolean true
CallNative ==
  /\ mode = "args" /\ Len(Top.args) = Arity(Top.res.val)
  /\ Top.res.val.kind = "native"
  /\ \E v \in {Plain("num"), Boolean(TRUE)} : Leave(Ok(v))
  /\ UNCHANGED <<scopes, global_env, returned, last_expr_res, stmts_res>>

\* parameters are added one by one: of two with the same name the last stays
Parameters(params, args) ==
  [x \in Names |->
     LET at == {i \in 1 .. Len(params) : params[i] = x} IN
     IF at = {} THEN Unbound
     ELSE args[CHOOSE i \in at : \A j \in at : j <= i]]

\* Mutant: the body's scope is not inside the function's own environment.
MutantCallFunction ==
  /\ mode = "args" /\ Len(Top.args) = Arity(Top.res.val)
  /\ Top.res.val.kind = "fn"
  /\ Len(envs) < MaxEnvs
  /\ envs' = NewEnv(envs, NoEnv, Parameters(Top.res.val.params, Top.args))
  /\ env' = Len(envs) + 1
  /\ Resume(Saving("Call", env), "list")
  /\ UNCHANGED <<global_env, returned, last_expr_res, stmts_res>>

\* the body runs in a new scope inside the function's own environment, and the
\* caller's environment, as it is after the arguments, is saved
CallFunction ==
  /\ mode = "args" /\ Len(Top.args) = Arity(Top.res.val)
  /\ Top.res.val.kind = "fn"
  /\ Len(envs) < MaxEnvs
  /\ envs' = NewEnv(envs, Top.res.val.env, Parameters(Top.res.val.params, Top.args))
  /\ env' = Len(envs) + 1
  /\ Resume(Saving("Call", env), "list")
  /\ UNCHANGED <<global_env, returned, last_expr_res, stmts_res>>

\* Mutant: a call that returns puts the global environment back.
MutantEndCallGlobal ==
  /\ mode = "ret" /\ TopIs("Call") /\ IsReturning(res)
  /\ env' = global_env
  /\ Leave(Ok(last_expr_res))
  /\ returned' = Monostate
  /\ UNCHANGED <<envs, global_env, last_expr_res, stmts_res>>

\* Mutant: a call passes the status of its body on as it is.
MutantEndCallStatus ==
  /\ mode = "ret" /\ TopIs("Call") /\ IsReturning(res)
  /\ env' = Top.env
  /\ Leave(res)
  /\ returned' = Monostate
  /\ UNCHANGED <<envs, global_env, last_expr_res, stmts_res>>

\* a statement of the body returns: the call's result is get_result(), that
\* is, what last_expr_res holds
EndCall ==
  /\ mode = "ret" /\ TopIs("Call") /\ IsReturning(res)
  /\ env' = Top.env
  /\ Leave(Ok(last_expr_res))
  /\ returned' = Monostate
  /\ UNCHANGED <<envs, global_env, last_expr_res, stmts_res>>

FailCall ==
  /\ mode = "ret" /\ TopIs("Call") /\ IsError(res)
  /\ env' = Top.env
  /\ Leave(res)
  /\ UNCHANGED <<envs, global_env, returned, last_expr_res, stmts_res>>

\* Mutant: the result of a call that does not return is the last statement's.
MutantFallOffCall ==
  /\ InList /\ TopIs("Call")
  /\ Leave(Completed)
  /\ UNCHANGED <<scopes, global_env, returned, last_expr_res, stmts_res>>

\* the body ends without a return statement: nil, and the environment stays
\* what the body left, for saved_env is not put back on this path
FallOffCall ==
  /\ InList /\ TopIs("Call")
  /\ Leave(Ok(Nil))
  /\ UNCHANGED <<scopes, global_env, returned, last_expr_res, stmts_res>>

-----------------------------------------------------------------------------
\* The constructor's environment, and, unless this interpreter is the first to
\* interpret, the global environment before it, natives and all (what earlier
\* programs left in it besides is out of this one's reach).
Init ==
  /\ \E first \in BOOLEAN :
       /\ envs = NewEnv(IF first THEN <<>> ELSE NewEnv(<<>>, NoEnv, NativeVars), NoEnv, NoVars)
       /\ global_env = IF first THEN NoEnv ELSE 1
  /\ env = Len(envs)
  /\ last_expr_res = Monostate
  /\ stmts_res = 0
  /\ stack = <<>>
  /\ mode = "start"
  /\ res = Completed
  /\ returned = Monostate

Statement ==
  \/ \E tag \in {"Variable", "Print", "Expression", "If", "WhileCond"} : BeginStatement(tag)
  \/ \E x \in Names : DeclareNil(x) \/ Declare(x)
  \/ \E x \in Names, params \in ParamLists : DeclareFunction(x, params)
  \/ PrintValue \/ ExpressionDone \/ Branch
  \/ WhileTest \/ WhileAgain
  \/ BeginFor \/ ForStart \/ ForTest \/ ForStep \/ ForAgain
  \/ BeginBlock \/ EndBlock \/ BreakBlock
  \/ RejectReturn \/ ReturnNil \/ BeginReturn \/ ReturnValue
  \/ Propagate

Expression ==
  \/ \E tag \in Operators : BeginExpression(tag)
  \/ \E v \in Literals : Literal(v)
  \/ \E x \in Names : Variable(x) \/ Assign(x)
  \/ Unary \/ BinaryRight
  \/ \E op \in BinaryOps : Binary(op)
  \/ Logical
  \/ CalleeKnown \/ NextArgument \/ ArgumentKnown \/ RejectArguments

Call == CallNative \/ CallFunction \/ EndCall \/ FailCall

Program == Interpret \/ EndProgram \/ AbortProgram \/ NextInList

\* interpret() has returned, or nobody has caught what was thrown
Finished == mode \in {"done", "crashed"} /\ UNCHANGED vars

NextReturning == Program \/ Statement \/ Expression \/ Call \/ Finished
Next == NextReturning \/ FallOffCall

Spec == Init /\ [][Next]_vars
\* executions in which no function body ends without a return statement
SpecNoFallOff == Init /\ [][NextReturning]_vars

\* the interpreter is one thread that runs until interpret() returns
FairSpec == Spec /\ WF_vars(Next)

-----------------------------------------------------------------------------
(* Properties                                                               *)

\* Type invariant of the machine.
TypeOK ==
  /\ EnvTypeOK
  /\ global_env \in EnvIds \cup {NoEnv}
  /\ env \in EnvIds
  /\ last_expr_res \in Value
  /\ stmts_res \in 0 .. MaxPrints
  /\ stack \in Seq(Frame)
  /\ mode \in Modes
  /\ res \in Result
  /\ returned \in Value

Frames == {stack[i] : i \in 1 .. Len(stack)}
FrameValues(f) == {f.res.val} \cup {f.args[i] : i \in 1 .. Len(f.args)}
Bound == {envs[e].vars[x] : e \in Allocated(envs), x \in Names}
ValuesHeld == {last_expr_res, res.val} \cup Bound \cup UNION {FrameValues(f) : f \in Frames}

\* every environment the interpreter can still get back to
ScopesHeld ==
  {env} \cup {f.env : f \in {g \in Frames : g.tag \in {"Block", "Call"}}}
        \cup {v.env : v \in {w \in ValuesHeld : w.kind = "fn"}}

Outermost(e) == envs[e].chain[Len(envs[e].chain)]

\* All scopes an interpreter holds - the current one, those blocks and calls
\* will restore, those functions close over - exist and lead outwards to one
\* and the same outermost scope, whatever calls and leaks came before: a
\* program never loses its globals (closure capture in visit(Function), the
\* callee scope in Callable::call, the restores in Block and call).
OneRoot ==
  /\ ScopesHeld \subseteq Allocated(envs)
  /\ \A d, e \in ScopesHeld : Outermost(d) = Outermost(e)

\* Monostate, which Environment::get returns for "not defined" and visit tests
\* with empty(), is never the value of an expression nor bound to a name: no
\* defined variable can look undefined.
DefinedIsNotEmpty ==
  /\ Monostate \notin Bound
  /\ mode = "ret" /\ IsOk(res) /\ stack # <<>> /\ Top.tag \in ExprTags => ~ Empty(res.val)

\* kReturning never reaches a visitor that waits for an expression: Unary and
\* the operand handling, which take any value that is not an error, never see
\* a `return` on its way out of a function.
ReturnStaysInStatements ==
  mode = "ret" /\ IsReturning(res) => stack = <<>> \/ Top.tag \in StmtTags

\* While a return unwinds blocks and loops, last_expr_res, the one register from
\* which Callable::call takes the result, still holds the value that the return
\* statement computed: nothing evaluated on the way overwrites it.
ReturnValueSurvives ==
  mode = "ret" /\ IsReturning(res) => last_expr_res = returned

\* Inside a function the current scope is never the global one, so the check
\* in visit(Return) never rejects a return statement of a function's body.
ReturnInFunctionAccepted ==
  (\E f \in Frames : f.tag = "Call") => env # global_env

\* The natives are defined wherever a program is: test/function.cpp calls clock
\* from several tests of one test program.
NativesVisible ==
  mode \notin {"start", "done"} => \A x \in Natives : ~ Empty(Get(envs, env, x))

\* A result that is not ok runs nothing more on its way out, in any visitor: no
\* statement or expression is visited, nothing is bound, stored or printed.  The
\* two that look at an operand too late do no more than this: Binary visits its
\* right operand although the left one failed, and Unary may make a value of a
\* failure.  Otherwise only a call makes a value of it, of a return.
UnwindingHasNoEffect ==
  [][mode = "ret" /\ ~ IsOk(res) /\ stack # <<>>
     => /\ mode' = IF Top.tag = "BinaryLhs" THEN "eval" ELSE "ret"
        /\ IsOk(res') => \/ Top.tag \in {"Unary", "BinaryLhs"}
                         \/ IsReturning(res) /\ Top.tag = "Call"
        /\ UNCHANGED <<envs, last_expr_res, stmts_res>>]_vars

\* An interpreter that is not the first of its process (the global environment
\* is older than its own) leaves the global environment of the first alone.
GlobalUntouched ==
  [][global_env = 1 => envs'[global_env] = envs[global_env]]_vars

\* An error that is not inside an operand ends the program with an error.
ErrorEndsProgram ==
  /\ mode = "ret" /\ IsError(res)
  /\ \A f \in Frames : f.tag \notin {"Unary", "BinaryLhs", "BinaryRhs"}
  ~> mode = "done" /\ IsError(res)

\* "Cannot return from top-level code.": interpret(), of the first interpreter of
\* a process, never ends with the code that is "specific for interpreter, not an
\* error but a status".
TopLevelReturnRejected == mode = "done" /\ global_env # 1 => ~ IsReturning(res)

\* StatusOr::value() asserts that its result is ok (or returning); Unary calls
\* it on its operand.
OperandIsOk == mode = "ret" /\ TopIs("Unary") => ~ IsError(res)
=============================================================================
