------------------------------ MODULE ScopeProofs ------------------------------
(***************************************************************************)
(* Proofs about the scopes of Interpreter, on top of the invariant that     *)
(* InterpreterProofs establishes: which of them is current while calls are  *)
(* open, what they hold and where they lead, and that every visit gives     *)
(* back the one it found (ScopeDiscipline).                                 *)
(*                                                                         *)
(* Once interpret() has begun, environment 1 is either the constructor's    *)
(* own, which nothing refers to any more, or the global one of an earlier   *)
(* interpreter, and environment 2 is where every other scope leads.  The    *)
(* strengthening is that nothing the interpreter holds is environment 1 or  *)
(* closes over it, and that what is bound, or will be, is never Monostate.  *)
(***************************************************************************)
EXTENDS InterpreterProofs, InterpreterScopes

\* While a call is open, neither the current scope nor one that will be restored
\* before the call ends is the global scope: not inductive without the latter,
\* as leaving a block makes a restored scope current.
Inside(s, e, g) ==
  /\ \A j \in 1 .. Len(s) : s[j].tag = "Call" => e # g
  /\ \A i, j \in 1 .. Len(s) : i < j /\ Saves(s[i]) /\ s[j].tag = "Call" => s[i].env # g

InsideInv == Inside(stack, env, global_env)

-----------------------------------------------------------------------------
(* How a step moves the stack and the current scope.                        *)

StackStays == UNCHANGED <<stack, env, global_env>>

FramePushed ==
  /\ \E f \in Frame : ~ Saves(f) /\ stack' = <<f>> \o stack
  /\ UNCHANGED <<env, global_env>>

FrameReplaced ==
  /\ stack # <<>>
  /\ ~ Saves(Top)
  /\ \E f \in Frame : ~ Saves(f) /\ stack' = <<f>> \o Tail(stack)
  /\ UNCHANGED <<env, global_env>>

FramePopped ==
  /\ stack # <<>>
  /\ stack' = Tail(stack)
  /\ env' = IF Saves(Top) THEN Top.env ELSE env
  /\ UNCHANGED global_env

\* a call ends and its scope stays current
ScopeKept ==
  /\ stack # <<>>
  /\ stack' = Tail(stack)
  /\ UNCHANGED <<env, global_env>>

BlockOpened ==
  /\ Len(envs) < MaxEnvs
  /\ stack' = <<Saving("Block", env)>> \o stack
  /\ env' = Len(envs) + 1
  /\ UNCHANGED global_env

CallOpened ==
  /\ Len(envs) < MaxEnvs
  /\ stack # <<>> /\ ~ Saves(Top)
  /\ stack' = <<Saving("Call", env)>> \o Tail(stack)
  /\ env' = Len(envs) + 1
  /\ UNCHANGED global_env

Moves == StackStays \/ FramePushed \/ FrameReplaced \/ FramePopped \/ BlockOpened \/ CallOpened

\* The frames a visitor waits in, blocks and calls apart, restore nothing.
LEMMA WaitingSavesNothing ==
  ASSUME Inv
  PROVE  /\ \A tag \in (StmtTags \cup ExprTags) \ {"Block", "Call"} :
              Waiting(tag) \in Frame /\ ~ Saves(Waiting(tag))
         /\ \A tag \in ExprTags, r \in KnownResult(Len(envs)) :
              ~ IsReturning(r) => Holding(tag, r) \in Frame /\ ~ Saves(Holding(tag, r))
<1>1. Len(envs) \in Nat /\ Len(envs) <= MaxEnvs
  BY InvFacts
<1>2. KnownFrame(Len(envs)) \subseteq Frame
  BY DEF KnownFrame
<1>3. ASSUME NEW tag \in (StmtTags \cup ExprTags) \ {"Block", "Call"}
      PROVE  Waiting(tag) \in Frame /\ ~ Saves(Waiting(tag))
  BY <1>1, <1>2, WaitingIsKnown DEF Saves
<1>4. ASSUME NEW tag \in ExprTags, NEW r \in KnownResult(Len(envs)), ~ IsReturning(r)
      PROVE  Holding(tag, r) \in Frame /\ ~ Saves(Holding(tag, r))
  BY <1>1, <1>2, <1>4, HoldingIsKnown DEF Saves, ExprTags
<1> QED BY <1>3, <1>4

LEMMA StatementMoves == Inv /\ Statement => Moves
<1> SUFFICES ASSUME Inv, Statement PROVE Moves
  OBVIOUS
<1>1. ASSUME NEW tag \in {"Variable", "Print", "Expression", "If", "WhileCond", "Return"},
             BeginStatement(tag)
      PROVE  FramePushed
  <2>1. tag \in (StmtTags \cup ExprTags) \ {"Block", "Call"}
    BY DEF ExprTags
  <2> QED BY <1>1, <2>1, WaitingSavesNothing DEF BeginStatement, Enter, FramePushed, scopes
<1>2. ASSUME NEW x \in Names, DeclareNil(x) \/ Declare(x) PROVE Moves
  BY <1>2 DEF DeclareNil, Declare, Evaluated, Returned, TopIs, Yield, Leave, Moves, StackStays,
              FramePopped, Saves
<1>3. ASSUME NEW x \in Names, NEW params \in ParamLists, DeclareFunction(x, params) PROVE Moves
  BY <1>3 DEF DeclareFunction, Yield, Moves, StackStays
<1>4. ASSUME PrintValue \/ ExpressionDone \/ Branch \/ ReturnValue \/ Propagate PROVE FramePopped
  BY <1>4 DEF PrintValue, ExpressionDone, Branch, ReturnValue, Propagate, Evaluated, Returned,
              TopIs, Leave, TailCall, FramePopped, Saves, Passing, scopes
<1>5. ASSUME WhileTest \/ WhileAgain \/ ForStart \/ ForTest \/ ForStep \/ ForAgain PROVE Moves
  <2>1. stack # <<>> /\ ~ Saves(Top) /\ UNCHANGED <<env, global_env>>
    BY <1>5 DEF WhileTest, WhileAgain, ForStart, ForTest, ForStep, ForAgain, Evaluated, Returned,
                TopIs, Saves, scopes
  <2>2. \/ \E tag \in {"WhileCond", "ForCond", "ForIncr", "WhileBody", "ForBody"} :
             stack' = <<Waiting(tag)>> \o Tail(stack)
        \/ stack' = Tail(stack)
    BY <1>5 DEF WhileTest, WhileAgain, ForStart, ForTest, ForStep, ForAgain, ForIterate, Resume,
                Leave
  <2>3. {"WhileCond", "ForCond", "ForIncr", "WhileBody", "ForBody"}
          \subseteq (StmtTags \cup ExprTags) \ {"Block", "Call"}
    BY DEF StmtTags, ExprTags
  <2> QED BY <2>1, <2>2, <2>3, WaitingSavesNothing DEF Moves, FrameReplaced, FramePopped
<1>6. ASSUME BeginFor PROVE FramePushed
  <2>1. {"ForInit", "ForCond", "ForBody"} \subseteq (StmtTags \cup ExprTags) \ {"Block", "Call"}
    BY DEF StmtTags, ExprTags
  <2> QED BY <1>6, <2>1, WaitingSavesNothing DEF BeginFor, Enter, FramePushed, scopes
<1>7. ASSUME BeginBlock PROVE BlockOpened
  BY <1>7 DEF BeginBlock, Enter, BlockOpened
<1>8. ASSUME EndBlock \/ BreakBlock PROVE FramePopped
  BY <1>8 DEF EndBlock, BreakBlock, TopIs, Leave, FramePopped, Saves
<1>9. ASSUME RejectReturn \/ ReturnNil PROVE StackStays
  BY <1>9 DEF RejectReturn, ReturnNil, Yield, StackStays, scopes
<1> QED BY <1>1, <1>2, <1>3, <1>4, <1>5, <1>6, <1>7, <1>8, <1>9 DEF Statement, BeginReturn, Moves

LEMMA ExpressionMoves == Inv /\ Expression => Moves
<1> SUFFICES ASSUME Inv, Expression PROVE Moves
  OBVIOUS
<1>1. ASSUME NEW tag \in Operators, BeginExpression(tag) PROVE FramePushed
  <2>1. tag \in (StmtTags \cup ExprTags) \ {"Block", "Call"}
    BY DEF ExprTags, Operators
  <2> QED BY <1>1, <2>1, WaitingSavesNothing DEF BeginExpression, Enter, FramePushed, scopes
<1>2. ASSUME NEW v \in Literals, Literal(v) PROVE StackStays
  BY <1>2 DEF Literal, Yield, StackStays, scopes
<1>3. ASSUME NEW x \in Names, Variable(x) PROVE StackStays
  BY <1>3 DEF Variable, Yield, StackStays, scopes
<1>4. ASSUME NEW x \in Names, Assign(x) PROVE FramePopped
  BY <1>4 DEF Assign, Evaluated, Returned, TopIs, Leave, FramePopped, Saves
<1>5. ASSUME Unary \/ Logical \/ RejectArguments PROVE FramePopped \/ StackStays
  BY <1>5, InvFacts DEF Unary, Logical, RejectArguments, StackStays, Returned, TopIs, Leave, TailCall,
                        FramePopped, Saves, scopes
<1>6. ASSUME NEW op \in BinaryOps, Binary(op) PROVE FramePopped
  BY <1>6 DEF Binary, TopIs, Leave, FramePopped, Saves, scopes
<1>7. ASSUME BinaryRight PROVE FrameReplaced
  <2>1. stack # <<>> /\ Top.tag = "BinaryLhs" /\ mode = "ret"
    BY <1>7 DEF BinaryRight, TopIs
  <2>2. ~ IsReturning(res)
    BY <2>1, OperandNotReturning DEF ExprTags
  <2>3. Holding("BinaryRhs", res) \in Frame /\ ~ Saves(Holding("BinaryRhs", res))
    BY <2>2, InvFacts, WaitingSavesNothing DEF ExprTags
  <2> QED BY <1>7, <2>1, <2>3 DEF BinaryRight, Resume, FrameReplaced, Saves, scopes
<1>8. ASSUME CalleeKnown PROVE FrameReplaced \/ FramePopped
  <2>1. stack # <<>> /\ ~ Saves(Top) /\ IsOk(res) /\ UNCHANGED <<env, global_env>>
    BY <1>8 DEF CalleeKnown, Evaluated, Returned, TopIs, Saves, scopes
  <2>2. Holding("Args", res) \in Frame /\ ~ Saves(Holding("Args", res))
    BY <2>1, InvFacts, WaitingSavesNothing DEF ExprTags, IsOk, IsReturning
  <2>3. stack' = <<Holding("Args", res)>> \o Tail(stack) \/ stack' = Tail(stack)
    BY <1>8 DEF CalleeKnown, Resume, Leave
  <2> QED BY <2>1, <2>2, <2>3 DEF FrameReplaced, FramePopped
<1>9. ASSUME NextArgument PROVE StackStays
  BY <1>9 DEF NextArgument, StackStays, scopes
<1>10. ASSUME ArgumentKnown PROVE FrameReplaced
  <2> DEFINE f == [Top EXCEPT !.args = Append(@, res.val)]
  <2>1. stack # <<>> /\ Top.tag = "Args" /\ stack' = <<f>> \o Tail(stack)
        /\ UNCHANGED <<env, global_env>>
    BY <1>10 DEF ArgumentKnown, Evaluated, Returned, TopIs, Resume, scopes
  <2>2. Top \in Frame /\ res.val \in Value
    BY <2>1, InvFacts DEF KnownFrame, KnownValue
  <2>3. Append(Top.args, res.val) \in Seq(Value)
    BY <2>2, AppendProperties DEF Frame
  <2>4. f \in Frame /\ f.tag = "Args"
    BY <2>1, <2>2, <2>3 DEF Frame
  <2> HIDE DEF f
  <2> QED BY <2>1, <2>4 DEF FrameReplaced, Saves
<1> QED BY <1>1, <1>2, <1>3, <1>4, <1>5, <1>6, <1>7, <1>8, <1>9, <1>10 DEF Expression, Moves

LEMMA CallMoves == Inv /\ Call => Moves
<1> SUFFICES ASSUME Inv, Call PROVE Moves
  OBVIOUS
<1>1. ASSUME CallNative PROVE FramePopped
  BY <1>1, InvFacts DEF CallNative, Leave, FramePopped, Saves, scopes
<1>2. ASSUME CallFunction PROVE CallOpened
  BY <1>2, InvFacts DEF CallFunction, Resume, CallOpened, Saves
<1>3. ASSUME EndCall \/ FailCall PROVE FramePopped
  BY <1>3 DEF EndCall, FailCall, TopIs, Leave, FramePopped, Saves
<1> QED BY <1>1, <1>2, <1>3 DEF Call, Moves

LEMMA FallOffMoves == FallOffCall => ScopeKept
  BY DEF FallOffCall, TopIs, Leave, ScopeKept, scopes

LEMMA ProgramMoves == EndProgram \/ AbortProgram \/ NextInList => StackStays
  BY DEF EndProgram, AbortProgram, NextInList, scopes, StackStays

-----------------------------------------------------------------------------
(* The invariant is kept by each kind of move.                              *)

LEMMA InsidePush ==
  ASSUME NEW s \in Seq(Frame), NEW e, NEW g, Inside(s, e, g),
         NEW f \in Frame, Saves(f) => f.env = e,
         NEW d, d # g \/ (d = e /\ ~ Saves(f))
  PROVE  Inside(<<f>> \o s, d, g)
<1> DEFINE t == <<f>> \o s
<1>1. /\ Len(t) = Len(s) + 1 /\ t[1] = f
      /\ \A i \in 1 .. Len(s) : t[i + 1] = s[i]
  BY PushProperties
<1>2. Len(s) \in Nat
  BY LenProperties
<1> HIDE DEF t
<1>3. ASSUME NEW i \in 1 .. Len(t), i # 1
      PROVE  i - 1 \in 1 .. Len(s) /\ t[i] = s[i - 1]
  <2>1. i - 1 \in 1 .. Len(s) /\ (i - 1) + 1 = i
    BY <1>1, <1>2, <1>3
  <2> QED BY <1>1, <2>1
<1>4. ASSUME NEW j \in 1 .. Len(t), t[j].tag = "Call" PROVE d # g
  BY <1>1, <1>3, <1>4 DEF Inside, Saves
<1>5. ASSUME NEW i \in 1 .. Len(t), NEW j \in 1 .. Len(t), i < j, Saves(t[i]), t[j].tag = "Call"
      PROVE  t[i].env # g
  <2>1. j - 1 \in 1 .. Len(s) /\ s[j - 1].tag = "Call"
    BY <1>3, <1>5
  <2>2. CASE i = 1
    BY <1>1, <1>5, <2>1, <2>2 DEF Inside
  <2>3. CASE i # 1
    <3>1. i - 1 \in 1 .. Len(s) /\ t[i] = s[i - 1] /\ i - 1 < j - 1
      BY <1>3, <1>5, <2>3
    <3> QED BY <1>5, <2>1, <3>1 DEF Inside
  <2> QED BY <2>2, <2>3
<1>6. Inside(t, d, g)
  BY <1>4, <1>5 DEF Inside
<1> QED BY <1>6 DEF t

LEMMA InsidePop ==
  ASSUME NEW s \in Seq(Frame), s # <<>>, NEW e, NEW g, Inside(s, e, g),
         NEW d, d = e \/ (Saves(s[1]) /\ d = s[1].env)
  PROVE  Inside(Tail(s), d, g)
<1> DEFINE t == Tail(s)
<1>1. Len(s) \in Nat /\ Len(s) >= 1
  BY LenProperties, EmptySeq
<1>2. /\ t \in Seq(Frame) /\ Len(t) = Len(s) - 1
      /\ \A i \in 1 .. Len(t) : t[i] = s[i + 1]
  BY HeadTailProperties
<1> HIDE DEF t
<1>3. ASSUME NEW i \in 1 .. Len(t) PROVE i + 1 \in 1 .. Len(s) /\ t[i] = s[i + 1] /\ 1 < i + 1
  BY <1>1, <1>2
<1>4. 1 \in 1 .. Len(s)
  BY <1>1
<1>5. ASSUME NEW j \in 1 .. Len(t), t[j].tag = "Call" PROVE d # g
  BY <1>3, <1>4, <1>5 DEF Inside
<1>6. ASSUME NEW i \in 1 .. Len(t), NEW j \in 1 .. Len(t), i < j, Saves(t[i]), t[j].tag = "Call"
      PROVE  t[i].env # g
  <2>1. i + 1 < j + 1
    BY <1>6
  <2> QED BY <1>3, <1>6, <2>1 DEF Inside
<1>7. Inside(t, d, g)
  BY <1>5, <1>6 DEF Inside
<1> QED BY <1>7 DEF t

LEMMA MovesKeepInside == ASSUME Inv, InsideInv, Moves \/ ScopeKept PROVE InsideInv'
<1>1. stack \in Seq(Frame) /\ (stack # <<>> => Top = stack[1] /\ Tail(stack) \in Seq(Frame))
  <2>1. KnownFrame(Len(envs)) \subseteq Frame
    BY DEF KnownFrame
  <2> QED BY <2>1, InvFacts, PopKeepsNested, SeqMonotonic
<1>2. Inside(stack, env, global_env)
  BY DEF InsideInv
<1>3. stack # <<>> => Inside(Tail(stack), env, global_env)
  BY <1>1, <1>2, InsidePop
<1>4. CASE StackStays
  BY <1>2, <1>4 DEF StackStays, InsideInv
<1>5. CASE FramePushed
  BY <1>1, <1>2, <1>5, InsidePush DEF FramePushed, InsideInv
<1>6. CASE FrameReplaced
  BY <1>1, <1>3, <1>6, InsidePush DEF FrameReplaced, InsideInv
<1>7. CASE FramePopped \/ ScopeKept
  BY <1>1, <1>2, <1>7, InsidePop DEF FramePopped, ScopeKept, InsideInv
<1>8. ASSUME NEW tag \in {"Block", "Call"}
      PROVE  Saving(tag, env) \in Frame /\ Saving(tag, env).env = env
  <2>1. Saving(tag, env) \in KnownFrame(Len(envs))
    BY InvFacts, SavingIsKnown
  <2> QED BY <2>1 DEF KnownFrame, Saving, Waiting
<1>9. Len(envs) + 1 # global_env
  BY InvFacts DEF Inv, RegistersInv, Allocated, NoEnv
<1>10. CASE BlockOpened
  BY <1>1, <1>2, <1>8, <1>9, <1>10, InsidePush DEF BlockOpened, InsideInv
<1>11. CASE CallOpened
  BY <1>1, <1>3, <1>8, <1>9, <1>11, InsidePush DEF CallOpened, InsideInv
<1> QED BY <1>4, <1>5, <1>6, <1>7, <1>10, <1>11 DEF Moves

LEMMA InsideInductive == Inv /\ InsideInv /\ [Next]_vars => InsideInv'
<1> SUFFICES ASSUME Inv, InsideInv, [Next]_vars PROVE InsideInv'
  OBVIOUS
<1>1. CASE UNCHANGED vars \/ Finished
  BY <1>1 DEF vars, Finished, InsideInv, Inside
<1>2. CASE Interpret
  <2>1. stack' = <<>>
    BY <1>2 DEF Interpret, Inv, ControlInv, Control
  <2> QED BY <2>1, EmptySeq DEF InsideInv, Inside
<1>3. CASE Statement \/ Expression \/ Call \/ FallOffCall \/ EndProgram \/ AbortProgram \/ NextInList
  BY <1>3, StatementMoves, ExpressionMoves, CallMoves, FallOffMoves, ProgramMoves,
     MovesKeepInside DEF Moves
<1> QED BY <1>1, <1>2, <1>3 DEF Next, NextReturning, Program

\* Inside a function, however it was reached and whatever calls ended before,
\* the current scope is not the global one: the check in visit(Return) never
\* rejects a return statement of a function's body.
THEOREM ReturnsAreAccepted == Spec => []ReturnInFunctionAccepted
<1>1. Init => InsideInv
  BY EmptySeq DEF Init, InsideInv, Inside
<1>2. InsideInv => ReturnInFunctionAccepted
  BY DEF InsideInv, Inside, ReturnInFunctionAccepted, Frames
<1> QED BY <1>1, <1>2, InsideInductive, InvHolds, PTL DEF Spec

-----------------------------------------------------------------------------
\* A result that is not ok runs nothing more on its way out, but for the right
\* operand of a Binary whose left one failed: this follows from the steps alone.
THEOREM UnwindingIsSilent == Spec => UnwindingHasNoEffect
<1>1. ASSUME Next, mode = "ret", ~ IsOk(res), stack # <<>>
      PROVE  /\ mode' = IF Top.tag = "BinaryLhs" THEN "eval" ELSE "ret"
             /\ IsOk(res') => \/ Top.tag \in {"Unary", "BinaryLhs"}
                              \/ IsReturning(res) /\ Top.tag = "Call"
             /\ UNCHANGED <<envs, last_expr_res, stmts_res>>
  <2>1. CASE Finished
    BY <1>1, <2>1 DEF Finished
  <2>2. CASE Program
    BY <1>1, <2>2 DEF Program, Interpret, EndProgram, AbortProgram, NextInList, InList
  <2>3. CASE Statement
    <3>1. BreakBlock \/ Propagate
      BY <1>1, <2>3 DEF Statement, BeginStatement, AnyStatement, InList, ForInitializer,
         DeclareNil, Declare, DeclareFunction, PrintValue, ExpressionDone, Branch, WhileTest,
         WhileAgain, BeginFor, ForStart, ForTest, ForStep, ForAgain, BeginBlock, EndBlock,
         RejectReturn, ReturnNil, BeginReturn, ReturnValue, Evaluated, Returned
    <3> QED BY <1>1, <3>1 DEF BreakBlock, Propagate, Passing, TopIs, Leave, scopes
  <2>4. CASE Expression
    <3>1. Unary \/ BinaryRight \/ \E op \in BinaryOps : Binary(op)
      BY <1>1, <2>4 DEF Expression, BeginExpression, Literal, Variable, Assign,
         Logical, CalleeKnown, NextArgument, ArgumentKnown, RejectArguments, Evaluated, Returned,
         TopIs
    <3>2. CASE Unary
      BY <1>1, <3>2 DEF Unary, TopIs, Leave, scopes
    <3>3. CASE BinaryRight
      BY <1>1, <3>3 DEF BinaryRight, TopIs, Resume, scopes
    <3>4. CASE \E op \in BinaryOps : Binary(op)
      BY <1>1, <3>4 DEF Binary, TopIs, Leave, scopes
    <3> QED BY <3>1, <3>2, <3>3, <3>4
  <2>5. CASE Call \/ FallOffCall
    <3>1. EndCall \/ FailCall
      BY <1>1, <2>5 DEF Call, CallNative, CallFunction, FallOffCall, InList
    <3> QED BY <1>1, <3>1 DEF EndCall, FailCall, TopIs, Leave, Ok, IsOk, IsError, IsReturning, scopes
  <2> QED BY <1>1, <2>1, <2>2, <2>3, <2>4, <2>5 DEF Next, NextReturning
<1> QED BY <1>1, PTL DEF Spec, UnwindingHasNoEffect

-----------------------------------------------------------------------------
(* The strengthened invariant.                                              *)

\* A value that may be bound to a name.
Kept(v) == v.env # 1 /\ ~ Empty(v)

FrameKept(f) ==
  /\ f.env # 1 /\ f.res.val.env # 1
  /\ \A i \in 1 .. Len(f.args) : Kept(f.args[i])

StackKept(s) == \A i \in 1 .. Len(s) : FrameKept(s[i])

\* What moves between the visitors: the result r of the one that just ended, and
\* the value l in last_expr_res.
Carry(s, m, r, l) ==
  /\ r.val.env # 1 /\ l.env # 1
  /\ m = "ret" /\ IsOk(r) /\ Awaited(s) = "expression" => ~ Empty(r.val)
  /\ m = "ret" /\ IsReturning(r) => ~ Empty(l)

HeapKept == \A e \in Allocated(envs), x \in Names : Kept(envs[e].vars[x])

Rooted ==
  IF mode = "start"
  THEN env = Len(envs) /\ \A e \in Allocated(envs) : envs[e].chain = <<e>>
  ELSE env # 1 /\ \A e \in Allocated(envs) \ {1} : Outermost(e) = 2

FlowInv == StackKept(stack) /\ Carry(stack, mode, res, last_expr_res)

KeptInv == HeapKept /\ Rooted /\ FlowInv

-----------------------------------------------------------------------------
(* Values and frames that are kept.                                         *)

\* The plain values, a function outside environment 1, and the slot of a name
\* that is not bound.
LEMMA KeptValues ==
  /\ Kept(Nil) /\ Kept(Unbound) /\ \A b \in BOOLEAN : Kept(Boolean(b))
  /\ \A k \in Kinds \ {"monostate"} : Kept(Plain(k))
  /\ \A v \in Literals : Kept(v)
  /\ \A params : \A e : e # 1 => Kept(Fn(params, e))
  /\ Monostate.env # 1
<1>1. \A k : Plain(k).env # 1 /\ (k # "monostate" => Kept(Plain(k)))
  BY DEF Plain, Kept, Empty, NoEnv
<1>2. \A b \in BOOLEAN : Kept(Boolean(b))
  BY <1>1 DEF Boolean
<1>3. Kept(Nil) /\ Kept(Unbound) /\ Monostate.env # 1 /\ Kept(Plain("num")) /\ Kept(Plain("str"))
  BY <1>1 DEF Nil, Unbound, Monostate
<1>4. \A v \in Literals : Kept(v)
  BY <1>2, <1>3, LiteralsAssumption
<1> QED BY <1>1, <1>2, <1>3, <1>4 DEF Fn, Kept, Empty

LEMMA KeptFrames ==
  /\ \A tag : FrameKept(Waiting(tag))
  /\ \A tag, e : e # 1 => FrameKept(Saving(tag, e))
  /\ \A tag, r : r.val.env # 1 => FrameKept(Holding(tag, r))
<1>1. Len(<<>>) = 0
  BY EmptySeq
<1>2. Monostate.env # 1 /\ NoEnv # 1 /\ Ok(Monostate).val = Monostate
  BY KeptValues DEF NoEnv, Ok
<1>3. ASSUME NEW tag, NEW e, e # 1 PROVE FrameKept(Saving(tag, e))
  <2>1. Saving(tag, e) = [tag |-> tag, env |-> e, res |-> Ok(Monostate), args |-> <<>>]
    BY DEF Saving, Waiting
  <2> QED BY <1>1, <1>2, <1>3, <2>1 DEF FrameKept
<1>4. ASSUME NEW tag, NEW r, r.val.env # 1 PROVE FrameKept(Holding(tag, r))
  <2>1. Holding(tag, r) = [tag |-> tag, env |-> NoEnv, res |-> r, args |-> <<>>]
    BY DEF Holding, Waiting
  <2> QED BY <1>1, <1>2, <1>4, <2>1 DEF FrameKept
<1>5. ASSUME NEW tag PROVE FrameKept(Waiting(tag))
  <2>1. Waiting(tag) = [tag |-> tag, env |-> NoEnv, res |-> Ok(Monostate), args |-> <<>>]
    BY DEF Waiting
  <2> QED BY <1>1, <1>2, <2>1 DEF FrameKept
<1> QED BY <1>3, <1>4, <1>5

\* The operators answer, when they do, with a value that is kept.
LEMMA OperatorsKeepValues ==
  /\ \A r : \A q \in UnaryResults(r) : q.val.env # 1 /\ (IsOk(q) => ~ Empty(q.val)) /\ ~ IsReturning(q)
  /\ \A op \in BinaryOps : \A a, b : a.env # 1 =>
       \A q \in BinaryResults(op, a, b) :
         q.val.env # 1 /\ (IsOk(q) => ~ Empty(q.val)) /\ ~ IsReturning(q)
<1> DEFINE Good(q) == q.val.env # 1 /\ (IsOk(q) => ~ Empty(q.val)) /\ ~ IsReturning(q)
<1>1. /\ \A b \in BOOLEAN : Good(Ok(Boolean(b)))
      /\ Good(Ok(Plain("num"))) /\ Good(Failure("invalidArgument"))
      /\ \A v : Kept(v) => Good(Ok(v))
  <2>1. \A v : Kept(v) => Good(Ok(v))
    BY DEF Kept, Ok, IsReturning
  <2>2. Good(Failure("invalidArgument"))
    BY KeptValues DEF Failure, IsOk, IsReturning
  <2> HIDE DEF Good
  <2> QED BY <2>1, <2>2, KeptValues DEF Kinds
<1> HIDE DEF Good
<1>2. ASSUME NEW r, NEW q \in UnaryResults(r) PROVE Good(q)
  BY <1>1 DEF UnaryResults
<1>3. ASSUME NEW op \in BinaryOps, NEW a, NEW b, a.env # 1, NEW q \in BinaryResults(op, a, b)
      PROVE  Good(q)
  <2>1. DeepEqual(a, b) \subseteq BOOLEAN
    BY DEF DeepEqual
  <2>2. a.kind \in {"num", "str"} => Kept(a)
    BY <1>3 DEF Kept, Empty
  <2>3. CASE op = "=="
    BY <1>1, <1>3, <2>1, <2>3 DEF BinaryResults
  <2>4. CASE op = "!="
    BY <1>1, <1>3, <2>1, <2>4 DEF BinaryResults
  <2>5. CASE op = "+"
    BY <1>1, <1>3, <2>2, <2>5 DEF BinaryResults
  <2>6. CASE op = "arith"
    BY <1>1, <1>3, <2>2, <2>6 DEF BinaryResults
  <2>7. CASE op = "compare"
    BY <1>1, <1>3, <2>7 DEF BinaryResults
  <2> QED BY <2>3, <2>4, <2>5, <2>6, <2>7 DEF BinaryOps
<1> QED BY <1>2, <1>3 DEF Good

\* A lookup that finds something finds a value that is kept.
LEMMA FoundIsKept ==
  ASSUME Inv, HeapKept, NEW x \in Names
  PROVE  /\ Get(envs, env, x).env # 1
         /\ ~ Empty(Get(envs, env, x)) => Kept(Get(envs, env, x))
<1>1. HeapOK(envs) /\ env \in Allocated(envs)
  BY InvFacts
<1>2. CASE BindingDepths(envs, env, x) = {}
  BY <1>1, <1>2, FindProperties, KeptValues DEF Get, Kept
<1>3. CASE BindingDepths(envs, env, x) # {}
  BY <1>1, <1>3, FindProperties, KeptValues DEF Get, HeapKept, Kept
<1> QED BY <1>2, <1>3

\* What a parameter is bound to is one of the arguments.
LEMMA ParametersAreKept ==
  ASSUME NEW params \in Seq(Names), NEW args, Len(args) = Len(params),
         \A i \in 1 .. Len(args) : Kept(args[i]), NEW x \in Names
  PROVE  Kept(Parameters(params, args)[x])
<1> DEFINE at == {i \in 1 .. Len(params) : params[i] = x}
           k == CHOOSE i \in at : \A j \in at : j <= i
<1>1. Parameters(params, args)[x] = IF at = {} THEN Unbound ELSE args[k]
  BY DEF Parameters
<1>2. CASE at = {}
  BY <1>1, <1>2, KeptValues
<1>3. CASE at # {}
  <2>1. Len(params) \in Nat /\ at \subseteq 1 .. Len(params)
    BY LenProperties
  <2> HIDE DEF at
  <2>2. \E i \in at : \A j \in at : j <= i
    BY <1>3, <2>1, GreatestExists
  <2>3. k \in at
    BY <2>2
  <2> HIDE DEF k
  <2> QED BY <1>1, <1>3, <2>1, <2>3
<1> QED BY <1>2, <1>3

-----------------------------------------------------------------------------
(* How a step moves what is kept.                                           *)

StackKeeps ==
  \/ stack' = stack
  \/ \E f \in Frame : FrameKept(f) /\ stack' = <<f>> \o stack
  \/ stack # <<>> /\ stack' = Tail(stack)
  \/ stack # <<>> /\ \E f \in Frame : FrameKept(f) /\ stack' = <<f>> \o Tail(stack)

FlowKeeps == StackKeeps /\ Carry(stack', mode', res', last_expr_res')

\* The heap and the current scope stay, an outer scope is current again, a
\* value that is kept is set in a scope, or a scope of such values is opened.
ScopesStay == UNCHANGED scopes
ScopeRestored == UNCHANGED envs /\ stack # <<>> /\ env' = Top.env
ValueSet ==
  /\ UNCHANGED env
  /\ \E e \in Allocated(envs) \ {1}, x \in Names, v \in Value :
       Kept(v) /\ envs' = AddTo(envs, e, x, v)
ScopeOpened ==
  /\ Len(envs) < MaxEnvs
  /\ \E p \in Allocated(envs) \ {1}, table \in [Names -> Slot] :
       (\A x \in Names : Kept(table[x])) /\ envs' = NewEnv(envs, p, table)
  /\ env' = Len(envs) + 1

ScopesKeep == ScopesStay \/ ScopeRestored \/ ValueSet \/ ScopeOpened

\* The step of a running program.
Keeps == mode # "start" /\ mode' # "start" /\ FlowKeeps /\ ScopesKeep

LEMMA StackIsKept == ASSUME Inv, StackKept(stack), StackKeeps PROVE StackKept(stack')
<1>1. stack \in Seq(Frame)
  <2>1. KnownFrame(Len(envs)) \subseteq Frame
    BY DEF KnownFrame
  <2> QED BY <2>1, InvFacts, SeqMonotonic
<1>2. ASSUME NEW s \in Seq(Frame), StackKept(s), NEW f \in Frame, FrameKept(f)
      PROVE  StackKept(<<f>> \o s)
  <2> DEFINE t == <<f>> \o s
  <2>1. Len(t) = Len(s) + 1 /\ t[1] = f /\ \A i \in 1 .. Len(s) : t[i + 1] = s[i]
    BY PushProperties
  <2>2. Len(s) \in Nat
    BY LenProperties
  <2> HIDE DEF t
  <2>3. ASSUME NEW i \in 1 .. Len(t), i # 1 PROVE t[i] = s[i - 1] /\ i - 1 \in 1 .. Len(s)
    <3>1. i - 1 \in 1 .. Len(s) /\ (i - 1) + 1 = i
      BY <2>1, <2>2, <2>3
    <3> QED BY <2>1, <3>1
  <2>4. StackKept(t)
    BY <1>2, <2>1, <2>3 DEF StackKept
  <2> QED BY <2>4 DEF t
<1>3. ASSUME stack # <<>> PROVE Tail(stack) \in Seq(Frame) /\ StackKept(Tail(stack))
  <2> DEFINE t == Tail(stack)
  <2>1. /\ t \in Seq(Frame) /\ Len(t) = Len(stack) - 1
        /\ \A i \in 1 .. Len(t) : t[i] = stack[i + 1]
    BY <1>1, <1>3, HeadTailProperties
  <2>2. Len(stack) \in Nat
    BY <1>1, LenProperties
  <2> HIDE DEF t
  <2>3. \A i \in 1 .. Len(t) : i + 1 \in 1 .. Len(stack)
    BY <2>1, <2>2
  <2>4. StackKept(t)
    BY <2>1, <2>3 DEF StackKept
  <2> QED BY <2>1, <2>4 DEF t
<1> QED BY <1>1, <1>2, <1>3 DEF StackKeeps

\* The scopes on the way out from one that is not environment 1 are not either.
LEMMA ChainAvoids ==
  ASSUME Inv, Rooted, mode # "start", NEW e \in Allocated(envs), e # 1
  PROVE  \A i \in 1 .. Len(envs[e].chain) : envs[e].chain[i] \in Allocated(envs) \ {1}
<1> DEFINE c == envs[e].chain
           n == Len(c)
<1>1. n \in Nat /\ \A i \in 1 .. n : c[i] \in Allocated(envs)
  BY InvFacts, ChainProperties
<1>2. n > 0 /\ \A i, j \in 1 .. n : i < j => c[j] < c[i]
  BY InvFacts DEF HeapOK, WellFoundedChain
<1>3. c[n] = 2
  BY DEF Rooted, Outermost
<1> HIDE DEF c, n
<1>4. ASSUME NEW i \in 1 .. n PROVE c[i] # 1
  <2>1. n \in 1 .. n /\ (i = n \/ i < n)
    BY <1>1, <1>2
  <2>2. CASE i = n
    BY <1>3, <2>2
  <2>3. CASE i < n
    <3>1. 2 < c[i]
      BY <1>2, <1>3, <2>1, <2>3
    <3> QED BY <3>1
  <2> QED BY <2>1, <2>2, <2>3
<1>5. \A i \in 1 .. n : c[i] \in Allocated(envs) \ {1}
  BY <1>1, <1>4
<1> QED BY <1>5 DEF c, n

\* A scope opened inside another leads to the same outermost one.
LEMMA OutermostShared ==
  ASSUME NEW es, HeapOK(es), NEW p \in Allocated(es), NEW n \in EnvIds,
         NEW c, c = <<n>> \o es[p].chain
  PROVE  c[Len(c)] = es[p].chain[Len(es[p].chain)]
<1> DEFINE s == es[p].chain
<1>1. es[p] \in EnvRecord
  BY ElementOfSeq, LenProperties DEF HeapOK, Allocated
<1>2. s \in Seq(EnvIds) /\ Len(s) \in Nat /\ Len(s) > 0
  BY <1>1, LenProperties DEF EnvRecord, HeapOK, WellFoundedChain
<1> HIDE DEF s
<1>3. c = <<n>> \o s
  BY DEF s
<1>4. Len(c) = Len(s) + 1 /\ \A i \in 1 .. Len(s) : c[i + 1] = s[i]
  BY <1>2, <1>3, PushProperties
<1>5. c[Len(c)] = s[Len(s)]
  <2>1. Len(s) \in 1 .. Len(s)
    BY <1>2
  <2> QED BY <1>4, <2>1
<1> QED BY <1>5 DEF s

\* The step keeps the heap and the scopes, and leaves environment 1 alone.
LEMMA ScopesAreKept ==
  ASSUME Inv, KeptInv, Keeps
  PROVE  HeapKept' /\ Rooted' /\ envs'[1] = envs[1]
<1>1. /\ HeapOK(envs) /\ Len(envs) \in Nat /\ env \in Allocated(envs) /\ env # 1
      /\ \A e \in Allocated(envs) \ {1} : Outermost(e) = 2
      /\ mode' # "start" /\ 1 \in Allocated(envs)
  <2>1. HeapOK(envs) /\ Len(envs) \in Nat /\ env \in 1 .. Len(envs)
    BY InvFacts
  <2> QED BY <2>1 DEF Keeps, KeptInv, Rooted, Allocated
<1>2. CASE ScopesStay
  BY <1>1, <1>2 DEF ScopesStay, scopes, KeptInv, HeapKept, Rooted, Outermost
<1>3. CASE ScopeRestored
  <2>1. Top.env # 1
    <3>1. Top = stack[1] /\ 1 \in 1 .. Len(stack)
      BY <1>3, InvFacts, LenProperties, EmptySeq DEF ScopeRestored
    <3> QED BY <3>1 DEF KeptInv, FlowInv, StackKept, FrameKept
  <2> QED BY <1>1, <1>3, <2>1 DEF ScopeRestored, KeptInv, HeapKept, Rooted, Outermost
<1>4. CASE ValueSet
  <2>1. PICK e \in Allocated(envs) \ {1}, x \in Names, v \in Value :
          Kept(v) /\ envs' = AddTo(envs, e, x, v)
    BY <1>4 DEF ValueSet
  <2>2. v \in Slot
    BY UnboundIsNoValue
  <2>3. /\ Len(envs') = Len(envs)
        /\ \A d \in Allocated(envs) :
             /\ envs'[d].chain = envs[d].chain
             /\ \A y \in Names : envs'[d].vars[y] = IF d = e /\ y = x THEN v ELSE envs[d].vars[y]
    BY <1>1, <2>1, <2>2, AddToProperties
  <2>4. HeapKept'
    BY <2>1, <2>3 DEF KeptInv, HeapKept, Allocated
  <2>5. Rooted'
    BY <1>1, <1>4, <2>3 DEF ValueSet, Rooted, Outermost, Allocated
  <2>6. envs'[1] = envs[1]
    <3>1. envs \in Seq(EnvRecord)
      BY <1>1 DEF HeapOK
    <3> QED BY <1>1, <2>1, <3>1 DEF AddTo, Allocated
  <2> QED BY <2>4, <2>5, <2>6
<1>5. CASE ScopeOpened
  <2> DEFINE n == Len(envs) + 1
  <2>1. PICK p \in Allocated(envs) \ {1}, table \in [Names -> Slot] :
          (\A x \in Names : Kept(table[x])) /\ envs' = NewEnv(envs, p, table)
    BY <1>5 DEF ScopeOpened
  <2>2. Len(envs) < MaxEnvs /\ env' = n
    BY <1>5 DEF ScopeOpened
  <2>3. /\ Allocated(envs') = Allocated(envs) \cup {n}
        /\ \A d \in Allocated(envs) : envs'[d] = envs[d]
        /\ envs'[n].vars = table
        /\ envs'[n].chain = <<n>> \o ChainOf(envs, p)
    <3>1. HeapOK(envs) /\ p \in Allocated(envs) \cup {NoEnv} /\ Len(envs) < MaxEnvs
      BY <1>1, <2>1, <2>2
    <3>2. envs' = NewEnv(envs, p, table)
      BY <2>1
    <3> QED BY <3>1, <3>2, NewEnvProperties
  <2>4. p # NoEnv /\ n \in EnvIds /\ n # 1
    BY <1>1, <2>1, <2>2, MaxEnvsAssumption DEF Allocated, EnvIds, NoEnv
  <2>5. envs'[n].chain = <<n>> \o envs[p].chain
    BY <2>3, <2>4 DEF ChainOf
  <2>6. envs'[n].chain[Len(envs'[n].chain)] = 2
    <3>1. envs[p].chain[Len(envs[p].chain)] = 2
      BY <1>1, <2>1 DEF Outermost
    <3>2. HeapOK(envs) /\ p \in Allocated(envs)
      BY <1>1, <2>1
    <3> DEFINE c == envs'[n].chain
    <3>3. n \in EnvIds /\ c = <<n>> \o envs[p].chain
      BY <2>4, <2>5
    <3> HIDE DEF c, n
    <3>4. c[Len(c)] = envs[p].chain[Len(envs[p].chain)]
      BY <3>2, <3>3, OutermostShared
    <3> QED BY <3>1, <3>4 DEF c
  <2>7. HeapKept'
    BY <2>1, <2>3 DEF KeptInv, HeapKept
  <2>8. Rooted'
    BY <1>1, <2>2, <2>3, <2>4, <2>6 DEF Rooted, Outermost
  <2> QED BY <1>1, <2>3, <2>7, <2>8
<1> QED BY <1>2, <1>3, <1>4, <1>5 DEF Keeps, ScopesKeep

LEMMA KeptByStep == ASSUME Inv, KeptInv, Keeps PROVE KeptInv' /\ envs'[1] = envs[1]
<1>1. FlowInv'
  BY StackIsKept DEF Keeps, FlowKeeps, KeptInv, FlowInv
<1> QED BY <1>1, ScopesAreKept DEF KeptInv

-----------------------------------------------------------------------------
(* The moves of control, in a state of the invariant.                       *)

LEMMA KeptFacts ==
  ASSUME Inv, KeptInv
  PROVE  /\ res.val.env # 1 /\ last_expr_res.env # 1
         /\ mode # "start" => env \in Allocated(envs) \ {1}
         /\ mode = "ret" /\ IsReturning(res) => ~ Empty(last_expr_res)
         /\ stack # <<>> =>
              /\ Top \in Frame /\ FrameKept(Top)
              /\ Awaited(Tail(stack)) = Gives(Top)
              /\ mode = "ret" /\ IsOk(res) /\ Top.tag \in ExprTags => Kept(res.val)
<1>1. Carry(stack, mode, res, last_expr_res) /\ StackKept(stack)
  BY DEF KeptInv, FlowInv
<1>2. mode # "start" => env \in Allocated(envs) \ {1}
  BY InvFacts DEF KeptInv, Rooted
<1>3. ASSUME stack # <<>>
      PROVE  /\ Top \in Frame /\ FrameKept(Top) /\ Awaited(Tail(stack)) = Gives(Top)
             /\ mode = "ret" /\ IsOk(res) /\ Top.tag \in ExprTags => Kept(res.val)
  <2>1. Top = stack[1] /\ 1 \in 1 .. Len(stack)
    BY <1>3, InvFacts, LenProperties, EmptySeq
  <2>2. Top \in Frame /\ Awaited(Tail(stack)) = Gives(Top) /\ Awaited(stack) = Takes(Top)
    BY <1>3, InvFacts, PopKeepsNested DEF KnownFrame
  <2>3. Top.tag \in ExprTags => Takes(Top) = "expression"
    BY DEF Takes, ExprTags, StmtTags
  <2> QED BY <1>1, <2>1, <2>2, <2>3 DEF StackKept, Carry, Kept
<1> QED BY <1>1, <1>2, <1>3 DEF Carry

\* Entering and resuming a visitor hand no result over.
LEMMA EnterFlow ==
  ASSUME NEW f \in Frame, FrameKept(f), NEW m, m # "ret", Enter(f, m),
         last_expr_res'.env # 1
  PROVE  FlowKeeps
<1>1. Ok(Monostate).val.env # 1
  BY KeptValues DEF Ok
<1> QED BY <1>1 DEF Enter, FlowKeeps, StackKeeps, Carry

LEMMA ResumeFlow ==
  ASSUME stack # <<>>, NEW f \in Frame, FrameKept(f), NEW m, m # "ret", Resume(f, m),
         last_expr_res'.env # 1
  PROVE  FlowKeeps
<1>1. Ok(Monostate).val.env # 1
  BY KeptValues DEF Ok
<1> QED BY <1>1 DEF Resume, FlowKeeps, StackKeeps, Carry

LEMMA TailCallFlow ==
  ASSUME stack # <<>>, NEW m, m # "ret", TailCall(m), last_expr_res'.env # 1
  PROVE  FlowKeeps
<1>1. Ok(Monostate).val.env # 1
  BY KeptValues DEF Ok
<1> QED BY <1>1 DEF TailCall, FlowKeeps, StackKeeps, Carry

LEMMA LeaveFlow ==
  ASSUME Inv, KeptInv, stack # <<>>, NEW r, Leave(r), r.val.env # 1,
         IsOk(r) /\ Gives(Top) = "expression" => ~ Empty(r.val),
         last_expr_res'.env # 1, IsReturning(r) => ~ Empty(last_expr_res')
  PROVE  FlowKeeps
<1>1. Awaited(Tail(stack)) = Gives(Top)
  BY KeptFacts
<1> QED BY <1>1 DEF Leave, FlowKeeps, StackKeeps, Carry

LEMMA YieldFlow ==
  ASSUME NEW r, Yield(r), r.val.env # 1,
         IsOk(r) /\ Awaited(stack) = "expression" => ~ Empty(r.val),
         last_expr_res'.env # 1, IsReturning(r) => ~ Empty(last_expr_res')
  PROVE  FlowKeeps
  BY DEF Yield, FlowKeeps, StackKeeps, Carry

\* The frames of the visitors that wait, and a statement's own result.
LEMMA WaitingKept ==
  ASSUME Inv, NEW tag \in (StmtTags \cup ExprTags) \ {"Block", "Call"}
  PROVE  Waiting(tag) \in Frame /\ FrameKept(Waiting(tag))
  BY WaitingSavesNothing, KeptFrames

LEMMA StatementLeaves ==
  ASSUME Inv, KeptInv, stack # <<>>, Gives(Top) = "statement", Leave(Completed),
         last_expr_res'.env # 1
  PROVE  FlowKeeps
<1>1. Completed.val.env # 1 /\ ~ IsReturning(Completed)
  BY KeptValues DEF Completed, Ok, IsReturning
<1> QED BY <1>1, LeaveFlow

LEMMA StatementYields ==
  ASSUME Inv, KeptInv, Awaited(stack) = "statement", Yield(Completed),
         last_expr_res'.env # 1
  PROVE  FlowKeeps
<1>1. Completed.val.env # 1 /\ ~ IsReturning(Completed)
  BY KeptValues DEF Completed, Ok, IsReturning
<1> QED BY <1>1, YieldFlow

\* A visitor that is not a statement's passes on the failure it is handed.
LEMMA FailureFlow ==
  ASSUME Inv, KeptInv, mode = "ret", ~ IsOk(res), stack # <<>>, Leave(res),
         UNCHANGED last_expr_res
  PROVE  FlowKeeps
  BY KeptFacts, LeaveFlow

-----------------------------------------------------------------------------
(* Statements                                                               *)

LEMMA StatementEntersKeep ==
  ASSUME Inv, KeptInv
  PROVE  /\ \A tag \in {"Variable", "Print", "Expression", "If", "WhileCond", "Return"} :
              BeginStatement(tag) => Keeps
         /\ BeginFor => Keeps
<1>1. ASSUME NEW tag \in {"Variable", "Print", "Expression", "If", "WhileCond", "Return"},
             BeginStatement(tag)
      PROVE  Keeps
  <2>1. tag \in (StmtTags \cup ExprTags) \ {"Block", "Call"}
    BY DEF ExprTags
  <2>2. /\ mode # "start" /\ Enter(Waiting(tag), "eval")
        /\ UNCHANGED <<scopes, last_expr_res>>
    BY <1>1 DEF BeginStatement, AnyStatement, ForInitializer, InList
  <2>3. FlowKeeps
    BY <2>1, <2>2, WaitingKept, KeptFacts, EnterFlow
  <2> QED BY <2>2, <2>3 DEF Enter, Keeps, ScopesKeep, ScopesStay
<1>2. ASSUME BeginFor PROVE Keeps
  <2>1. {"ForInit", "ForCond", "ForBody"} \subseteq (StmtTags \cup ExprTags) \ {"Block", "Call"}
    BY DEF StmtTags, ExprTags
  <2>2. PICK tag \in {"ForInit", "ForCond", "ForBody"}, m \in {"stmt", "eval"} :
          Enter(Waiting(tag), m)
    BY <1>2 DEF BeginFor
  <2>3. mode # "start" /\ UNCHANGED <<scopes, last_expr_res>>
    BY <1>2 DEF BeginFor, AnyStatement
  <2>4. FlowKeeps
    BY <2>1, <2>2, <2>3, WaitingKept, KeptFacts, EnterFlow
  <2> QED BY <2>2, <2>3, <2>4 DEF Enter, Keeps, ScopesKeep, ScopesStay
<1> QED BY <1>1, <1>2

LEMMA DeclarationsKeep ==
  ASSUME Inv, KeptInv, NEW x \in Names
  PROVE  /\ DeclareNil(x) \/ Declare(x) => Keeps
         /\ \A params \in ParamLists : DeclareFunction(x, params) => Keeps
<1>1. ASSUME DeclareNil(x) PROVE Keeps
  <2>1. /\ mode \in {"list", "stmt"} /\ Yield(Completed)
        /\ envs' = AddTo(envs, env, x, Nil) /\ UNCHANGED <<env, last_expr_res>>
    BY <1>1 DEF DeclareNil, InList, ForInitializer
  <2>2. FlowKeeps
    BY <2>1, InvFacts, KeptFacts, StatementYields
  <2>3. Nil \in Value
    BY InvFacts, PlainValues DEF KnownValue
  <2>4. ValueSet
    BY <2>1, <2>3, KeptFacts, KeptValues DEF ValueSet
  <2> QED BY <2>1, <2>2, <2>4 DEF Yield, Keeps, ScopesKeep
<1>2. ASSUME Declare(x) PROVE Keeps
  <2>1. /\ mode = "ret" /\ IsOk(res) /\ stack # <<>> /\ Top.tag = "Variable"
        /\ Leave(Completed) /\ last_expr_res' = res.val
        /\ envs' = AddTo(envs, env, x, res.val) /\ UNCHANGED env
    BY <1>2 DEF Declare, Evaluated, Returned, TopIs
  <2>2. Gives(Top) = "statement" /\ Kept(res.val) /\ res.val \in Value
    BY <2>1, KeptFacts, InvFacts DEF Gives, ExprVisitors, ExprTags, KnownValue
  <2>3. FlowKeeps
    BY <2>1, <2>2, KeptFacts, StatementLeaves
  <2>4. ValueSet
    BY <2>1, <2>2, KeptFacts DEF ValueSet
  <2> QED BY <2>1, <2>3, <2>4 DEF Leave, Keeps, ScopesKeep
<1>3. ASSUME NEW params \in ParamLists, DeclareFunction(x, params) PROVE Keeps
  <2>1. /\ mode = "list" /\ Yield(Completed)
        /\ envs' = envs \/ envs' = AddTo(envs, env, x, Fn(params, env))
        /\ UNCHANGED <<env, last_expr_res>>
    BY <1>3 DEF DeclareFunction, InList
  <2>2. FlowKeeps
    BY <2>1, InvFacts, KeptFacts, StatementYields
  <2>3. env \in Allocated(envs) \ {1} /\ Kept(Fn(params, env))
    BY <2>1, KeptFacts, KeptValues
  <2>4. Fn(params, env) \in Value
    BY InvFacts, ParamListsAssumption, FnIsKnown DEF KnownValue
  <2>5. ScopesStay \/ ValueSet
    BY <2>1, <2>3, <2>4 DEF ScopesStay, ValueSet, scopes
  <2> QED BY <2>1, <2>2, <2>5 DEF Yield, Keeps, ScopesKeep
<1> QED BY <1>1, <1>2, <1>3

\* A statement that is given its value, and passes it to nobody.
LEMMA StatementsEndKeep ==
  ASSUME Inv, KeptInv, PrintValue \/ ExpressionDone \/ Branch \/ ReturnValue \/ Propagate
  PROVE  Keeps
<1>1. mode = "ret" /\ stack # <<>> /\ UNCHANGED scopes
  BY DEF PrintValue, ExpressionDone, Branch, ReturnValue, Propagate, Evaluated, Returned, TopIs
<1>2. CASE Propagate
  <2>1. FlowKeeps /\ mode' # "start"
    BY <1>1, <1>2, FailureFlow DEF Propagate, Leave
  <2> QED BY <1>1, <2>1 DEF Keeps, ScopesKeep, ScopesStay
<1>3. CASE PrintValue \/ ExpressionDone \/ Branch
  <2>1. last_expr_res' = res.val /\ Top.tag \in {"Print", "Expression", "If"}
    BY <1>3 DEF PrintValue, ExpressionDone, Branch, Evaluated, Returned, TopIs
  <2>2. Leave(Completed) \/ TailCall("stmt")
    BY <1>3 DEF PrintValue, ExpressionDone, Branch
  <2>3. Gives(Top) = "statement" /\ last_expr_res'.env # 1
    BY <2>1, KeptFacts DEF Gives, ExprVisitors
  <2>4. FlowKeeps /\ mode' # "start"
    BY <1>1, <2>2, <2>3, StatementLeaves, TailCallFlow DEF Leave, TailCall
  <2> QED BY <1>1, <2>4 DEF Keeps, ScopesKeep, ScopesStay
<1>4. CASE ReturnValue
  <2>1. last_expr_res' = res.val /\ Top.tag = "Return" /\ IsOk(res) /\ Leave(Returning)
    BY <1>4 DEF ReturnValue, Evaluated, Returned, TopIs
  <2>2. Kept(last_expr_res') /\ Returning.val.env # 1 /\ ~ IsOk(Returning)
    BY <1>1, <2>1, KeptFacts, KeptValues DEF ExprTags, Returning, Failure, IsOk
  <2>3. FlowKeeps /\ mode' # "start"
    BY <1>1, <2>1, <2>2, LeaveFlow DEF Kept, Leave
  <2> QED BY <1>1, <2>3 DEF Keeps, ScopesKeep, ScopesStay
<1> QED BY <1>2, <1>3, <1>4

LEMMA LoopsKeepScopes ==
  ASSUME Inv, KeptInv, WhileTest \/ WhileAgain \/ ForStart \/ ForTest \/ ForStep \/ ForAgain
  PROVE  Keeps
<1> DEFINE tags == {"WhileCond", "ForCond", "ForIncr", "WhileBody", "ForBody"}
<1>1. /\ mode = "ret" /\ stack # <<>> /\ UNCHANGED scopes
      /\ Top.tag \in tags \cup {"ForInit"}
      /\ last_expr_res' \in {last_expr_res, res.val}
  BY DEF WhileTest, WhileAgain, ForStart, ForTest, ForStep, ForAgain, Evaluated, Returned, TopIs
<1>2. \/ \E tag \in tags, m \in {"stmt", "eval"} : Resume(Waiting(tag), m)
      \/ Leave(Completed)
  BY DEF WhileTest, WhileAgain, ForStart, ForTest, ForStep, ForAgain, ForIterate
<1>3. tags \subseteq (StmtTags \cup ExprTags) \ {"Block", "Call"} /\ Gives(Top) = "statement"
  BY <1>1 DEF StmtTags, ExprTags, Gives, ExprVisitors
<1>4. last_expr_res'.env # 1
  BY <1>1, KeptFacts
<1> HIDE DEF tags
<1>5. FlowKeeps /\ mode' # "start"
  BY <1>1, <1>2, <1>3, <1>4, WaitingKept, ResumeFlow, StatementLeaves DEF Resume, Leave
<1> QED BY <1>1, <1>5 DEF Keeps, ScopesKeep, ScopesStay

LEMMA BlocksKeep ==
  ASSUME Inv, KeptInv, BeginBlock \/ EndBlock \/ BreakBlock
  PROVE  Keeps
<1>1. CASE BeginBlock
  <2>1. /\ mode \in {"list", "stmt"} /\ Len(envs) < MaxEnvs /\ Enter(Saving("Block", env), "list")
        /\ envs' = NewEnv(envs, env, NoVars) /\ env' = Len(envs) + 1
        /\ UNCHANGED last_expr_res
    BY <1>1 DEF BeginBlock, AnyStatement
  <2>2. env \in Allocated(envs) \ {1}
    BY <2>1, KeptFacts
  <2>3. Saving("Block", env) \in Frame
    BY InvFacts, SavingIsKnown DEF KnownFrame
  <2>4. FlowKeeps
    BY <2>1, <2>2, <2>3, KeptFrames, KeptFacts, EnterFlow
  <2>5. NoVars \in [Names -> Slot] /\ \A x \in Names : Kept(NoVars[x])
    BY KeptValues, UnboundIsNoValue DEF NoVars
  <2>6. ScopeOpened
    BY <2>1, <2>2, <2>5 DEF ScopeOpened
  <2> QED BY <2>1, <2>4, <2>6 DEF Enter, Keeps, ScopesKeep
<1>2. CASE EndBlock \/ BreakBlock
  <2>1. /\ mode # "start" /\ stack # <<>> /\ Top.tag = "Block"
        /\ UNCHANGED <<envs, last_expr_res>> /\ env' = Top.env
        /\ Leave(Completed) \/ (mode = "ret" /\ ~ IsOk(res) /\ Leave(res))
    BY <1>2 DEF EndBlock, BreakBlock, InList, TopIs
  <2>2. Gives(Top) = "statement"
    BY <2>1 DEF Gives, ExprVisitors
  <2>3. FlowKeeps
    BY <2>1, <2>2, KeptFacts, StatementLeaves, FailureFlow
  <2> QED BY <2>1, <2>3 DEF Leave, Keeps, ScopesKeep, ScopeRestored
<1> QED BY <1>1, <1>2

LEMMA ReturnsKeepScopes ==
  ASSUME Inv, KeptInv, RejectReturn \/ ReturnNil
  PROVE  Keeps
<1>1. mode \in {"list", "stmt"} /\ UNCHANGED scopes
  BY DEF RejectReturn, ReturnNil, AnyStatement
<1>2. CASE RejectReturn
  <2>1. Yield(Failure("invalidArgument")) /\ UNCHANGED last_expr_res
    BY <1>2 DEF RejectReturn
  <2>2. FlowKeeps
    BY <2>1, KeptFacts, KeptValues, YieldFlow DEF Failure, IsOk, IsReturning
  <2> QED BY <1>1, <2>1, <2>2 DEF Yield, Keeps, ScopesKeep, ScopesStay
<1>3. CASE ReturnNil
  <2>1. Yield(Returning) /\ last_expr_res' = Nil
    BY <1>3 DEF ReturnNil
  <2>2. FlowKeeps
    BY <2>1, KeptValues, YieldFlow DEF Returning, Failure, IsOk, Kept
  <2> QED BY <1>1, <2>1, <2>2 DEF Yield, Keeps, ScopesKeep, ScopesStay
<1> QED BY <1>2, <1>3

LEMMA StatementKeepsScopes == Inv /\ KeptInv /\ Statement => Keeps
  BY StatementEntersKeep, DeclarationsKeep, StatementsEndKeep, LoopsKeepScopes, BlocksKeep,
     ReturnsKeepScopes DEF Statement, BeginReturn

-----------------------------------------------------------------------------
(* Expressions                                                              *)

LEMMA ExpressionEntersKeep ==
  ASSUME Inv, KeptInv
  PROVE  /\ \A tag \in Operators : BeginExpression(tag) => Keeps
         /\ \A v \in Literals : Literal(v) => Keeps
         /\ \A x \in Names : Variable(x) => Keeps
<1>1. ASSUME NEW tag \in Operators, BeginExpression(tag) PROVE Keeps
  <2>1. tag \in (StmtTags \cup ExprTags) \ {"Block", "Call"}
    BY DEF Operators, ExprTags
  <2>2. mode # "start" /\ Enter(Waiting(tag), "eval") /\ UNCHANGED <<scopes, last_expr_res>>
    BY <1>1 DEF BeginExpression
  <2>3. FlowKeeps
    BY <2>1, <2>2, WaitingKept, KeptFacts, EnterFlow
  <2> QED BY <2>2, <2>3 DEF Enter, Keeps, ScopesKeep, ScopesStay
<1>2. ASSUME mode = "eval", UNCHANGED <<scopes, last_expr_res>>, NEW r, Yield(r),
             r.val.env # 1, IsOk(r) => ~ Empty(r.val), ~ IsReturning(r)
      PROVE  Keeps
  <2>1. FlowKeeps
    BY <1>2, KeptFacts, YieldFlow
  <2> QED BY <1>2, <2>1 DEF Yield, Keeps, ScopesKeep, ScopesStay
<1>3. ASSUME NEW v \in Literals, Literal(v) PROVE Keeps
  <2>1. Ok(v).val.env # 1 /\ ~ Empty(Ok(v).val) /\ ~ IsReturning(Ok(v))
    BY KeptValues DEF Ok, Kept, IsReturning
  <2> QED BY <1>2, <1>3, <2>1 DEF Literal
<1>4. ASSUME NEW x \in Names, Variable(x) PROVE Keeps
  <2> DEFINE v == Get(envs, env, x)
             r == IF Empty(v) THEN Failure("notFound") ELSE Ok(v)
  <2>1. r.val.env # 1 /\ (IsOk(r) => ~ Empty(r.val)) /\ ~ IsReturning(r)
    BY FoundIsKept, KeptValues DEF KeptInv, Failure, Ok, IsOk, IsReturning
  <2> QED BY <1>2, <1>4, <2>1 DEF Variable
<1> QED BY <1>1, <1>3, <1>4

LEMMA OperatorsKeepScopes ==
  ASSUME Inv, KeptInv
  PROVE  /\ Unary \/ BinaryRight \/ Logical => Keeps
         /\ \A op \in BinaryOps : Binary(op) => Keeps
<1>1. ASSUME Unary PROVE Keeps
  <2>1. stack # <<>> /\ mode = "ret" /\ UNCHANGED <<scopes, last_expr_res>>
    BY <1>1 DEF Unary, TopIs
  <2>2. PICK r \in UnaryResults(res) : Leave(r)
    BY <1>1 DEF Unary
  <2>3. FlowKeeps
    BY <2>1, <2>2, OperatorsKeepValues, KeptFacts, LeaveFlow
  <2> QED BY <2>1, <2>2, <2>3 DEF Leave, Keeps, ScopesKeep, ScopesStay
<1>2. ASSUME BinaryRight PROVE Keeps
  <2>1. /\ stack # <<>> /\ mode = "ret" /\ Top.tag = "BinaryLhs"
        /\ UNCHANGED <<scopes, last_expr_res>> /\ Resume(Holding("BinaryRhs", res), "eval")
    BY <1>2 DEF BinaryRight, TopIs
  <2>2. ~ IsReturning(res)
    BY <2>1, OperandNotReturning DEF ExprTags
  <2>3. Holding("BinaryRhs", res) \in Frame
    BY <2>2, InvFacts, WaitingSavesNothing DEF ExprTags
  <2>4. FlowKeeps
    BY <2>1, <2>3, KeptFrames, KeptFacts, ResumeFlow
  <2> QED BY <2>1, <2>4 DEF Resume, Keeps, ScopesKeep, ScopesStay
<1>3. ASSUME NEW op \in BinaryOps, Binary(op) PROVE Keeps
  <2>1. stack # <<>> /\ mode = "ret" /\ UNCHANGED <<scopes, last_expr_res>>
    BY <1>3 DEF Binary, TopIs
  <2>2. Top.res.val.env # 1 /\ ~ IsReturning(Top.res)
    BY <2>1, KeptFacts, InvFacts DEF FrameKept, KnownFrame
  <2>3. \/ ~ IsOk(Top.res) /\ Leave(Top.res)
        \/ ~ IsOk(res) /\ Leave(res)
        \/ \E r \in BinaryResults(op, Top.res.val, res.val) : Leave(r)
    BY <1>3 DEF Binary
  <2>4. CASE ~ IsOk(Top.res) /\ Leave(Top.res)
    <3>1. FlowKeeps
      BY <2>1, <2>2, <2>4, KeptFacts, LeaveFlow
    <3> QED BY <2>1, <2>4, <3>1 DEF Leave, Keeps, ScopesKeep, ScopesStay
  <2>5. CASE ~ IsOk(res) /\ Leave(res)
    <3>1. FlowKeeps
      BY <2>1, <2>5, FailureFlow
    <3> QED BY <2>1, <2>5, <3>1 DEF Leave, Keeps, ScopesKeep, ScopesStay
  <2>6. CASE \E r \in BinaryResults(op, Top.res.val, res.val) : Leave(r)
    <3>1. PICK r \in BinaryResults(op, Top.res.val, res.val) : Leave(r)
      BY <2>6
    <3>2. r.val.env # 1 /\ (IsOk(r) => ~ Empty(r.val)) /\ ~ IsReturning(r)
      BY <2>2, <3>1, OperatorsKeepValues
    <3>3. FlowKeeps
      BY <2>1, <3>1, <3>2, KeptFacts, LeaveFlow
    <3> QED BY <2>1, <3>1, <3>3 DEF Leave, Keeps, ScopesKeep, ScopesStay
  <2> QED BY <2>3, <2>4, <2>5, <2>6
<1>4. ASSUME Logical PROVE Keeps
  <2>1. /\ stack # <<>> /\ mode = "ret" /\ IsOk(res) /\ Top.tag = "Logical"
        /\ UNCHANGED <<scopes, last_expr_res>>
    BY <1>4 DEF Logical, Returned, TopIs
  <2> DEFINE v == IF IsTrue(res.val) THEN res.val ELSE Boolean(FALSE)
  <2>2. Kept(v)
    BY <2>1, KeptFacts, KeptValues DEF ExprTags
  <2>3. Leave(Ok(v)) \/ TailCall("eval")
    BY <1>4 DEF Logical
  <2> HIDE DEF v
  <2>4. Ok(v).val = v /\ ~ IsReturning(Ok(v))
    BY DEF Ok, IsReturning
  <2>5. FlowKeeps
    BY <2>1, <2>2, <2>3, <2>4, KeptFacts, LeaveFlow, TailCallFlow DEF Kept
  <2> QED BY <2>1, <2>3, <2>5 DEF Leave, TailCall, Keeps, ScopesKeep, ScopesStay
<1> QED BY <1>1, <1>2, <1>3, <1>4

LEMMA AssignmentKeeps == ASSUME Inv, KeptInv, NEW x \in Names, Assign(x) PROVE Keeps
<1>1. /\ mode = "ret" /\ IsOk(res) /\ stack # <<>> /\ Top.tag = "Assignment"
      /\ last_expr_res' = res.val /\ UNCHANGED env
  BY DEF Assign, Evaluated, Returned, TopIs
<1>2. Kept(res.val) /\ env \in Allocated(envs) \ {1} /\ res.val \in Value
  BY <1>1, KeptFacts, InvFacts DEF ExprTags, KnownValue
<1>3. CASE Find(envs, env, x) = NoEnv
  <2>1. Leave(Failure("notFound")) /\ UNCHANGED envs
    BY <1>3 DEF Assign
  <2>2. /\ Failure("notFound").val.env # 1 /\ ~ IsOk(Failure("notFound"))
        /\ ~ IsReturning(Failure("notFound"))
    BY KeptValues DEF Failure, IsOk, IsReturning
  <2>3. FlowKeeps
    BY <1>1, <1>2, <2>1, <2>2, LeaveFlow DEF Kept
  <2> QED BY <1>1, <2>1, <2>3 DEF Leave, Keeps, ScopesKeep, ScopesStay, scopes
<1>4. CASE Find(envs, env, x) # NoEnv
  <2>1. Leave(Ok(res.val)) /\ envs' = ReassignIn(envs, env, x, res.val)
    BY <1>4 DEF Assign
  <2>2. Ok(res.val).val = res.val /\ ~ IsReturning(Ok(res.val))
    BY DEF Ok, IsReturning
  <2>3. FlowKeeps
    BY <1>1, <1>2, <2>1, <2>2, LeaveFlow DEF Kept
  <2>4. Find(envs, env, x) \in Allocated(envs) \ {1}
    <3>1. \E i \in 1 .. Len(envs[env].chain) : Find(envs, env, x) = envs[env].chain[i]
      BY <1>2, <1>4, InvFacts, FindProperties
    <3> QED BY <1>1, <1>2, <3>1, ChainAvoids DEF KeptInv
  <2>5. ValueSet
    BY <1>1, <1>2, <2>1, <2>4 DEF ValueSet, ReassignIn, AddTo
  <2> QED BY <1>1, <2>1, <2>3, <2>5 DEF Leave, Keeps, ScopesKeep
<1> QED BY <1>3, <1>4

LEMMA CalleesKeep ==
  ASSUME Inv, KeptInv, CalleeKnown \/ NextArgument \/ ArgumentKnown \/ RejectArguments
  PROVE  Keeps
<1>1. CASE CalleeKnown
  <2>1. /\ mode = "ret" /\ IsOk(res) /\ stack # <<>> /\ last_expr_res' = res.val
        /\ UNCHANGED scopes
        /\ Resume(Holding("Args", res), "args") \/ Leave(Failure("notFound"))
    BY <1>1 DEF CalleeKnown, Evaluated, Returned, TopIs
  <2>2. Holding("Args", res) \in Frame /\ FrameKept(Holding("Args", res))
    BY <2>1, InvFacts, WaitingSavesNothing, KeptFacts, KeptFrames DEF ExprTags, IsOk, IsReturning
  <2>3. /\ Failure("notFound").val.env # 1 /\ ~ IsOk(Failure("notFound"))
        /\ ~ IsReturning(Failure("notFound"))
    BY KeptValues DEF Failure, IsOk, IsReturning
  <2>4. FlowKeeps
    BY <2>1, <2>2, <2>3, KeptFacts, ResumeFlow, LeaveFlow
  <2> QED BY <2>1, <2>4 DEF Resume, Leave, Keeps, ScopesKeep, ScopesStay
<1>2. CASE NextArgument
  <2>1. /\ mode = "args" /\ mode' = "eval"
        /\ UNCHANGED <<scopes, last_expr_res, stack, res>>
    BY <1>2 DEF NextArgument
  <2>2. FlowKeeps
    BY <2>1, KeptFacts DEF FlowKeeps, StackKeeps, Carry
  <2> QED BY <2>1, <2>2 DEF Keeps, ScopesKeep, ScopesStay
<1>3. CASE ArgumentKnown
  <2> DEFINE f == [Top EXCEPT !.args = Append(@, res.val)]
  <2>1. /\ mode = "ret" /\ IsOk(res) /\ stack # <<>> /\ Top.tag = "Args"
        /\ last_expr_res' = res.val /\ Resume(f, "args") /\ UNCHANGED scopes
    BY <1>3 DEF ArgumentKnown, Evaluated, Returned, TopIs
  <2>2. Top \in Frame /\ FrameKept(Top) /\ Kept(res.val) /\ res.val \in Value
    BY <2>1, KeptFacts, InvFacts DEF ExprTags, KnownValue
  <2>3. Top.args \in Seq(Value) /\ Len(Top.args) \in Nat
    BY <2>2, LenProperties DEF Frame
  <2>4. /\ Append(Top.args, res.val) \in Seq(Value)
        /\ Len(Append(Top.args, res.val)) = Len(Top.args) + 1
        /\ \A i \in 1 .. Len(Top.args) : Append(Top.args, res.val)[i] = Top.args[i]
        /\ Append(Top.args, res.val)[Len(Top.args) + 1] = res.val
    BY <2>2, <2>3, AppendProperties
  <2>5. f.env = Top.env /\ f.res = Top.res /\ f.args = Append(Top.args, res.val) /\ f \in Frame
    BY <2>2, <2>4 DEF Frame
  <2> HIDE DEF f
  <2>6. ASSUME NEW i \in 1 .. Len(f.args) PROVE Kept(f.args[i])
    <3>1. i \in 1 .. Len(Top.args) \/ i = Len(Top.args) + 1
      BY <2>3, <2>4, <2>5
    <3> QED BY <2>2, <2>4, <2>5, <3>1 DEF FrameKept
  <2>7. FrameKept(f)
    BY <2>2, <2>5, <2>6 DEF FrameKept
  <2>8. FlowKeeps
    BY <2>1, <2>2, <2>5, <2>7, ResumeFlow DEF Kept
  <2> QED BY <2>1, <2>8 DEF Resume, Keeps, ScopesKeep, ScopesStay
<1>4. CASE RejectArguments
  <2>1. /\ mode = "args" /\ stack # <<>> /\ UNCHANGED <<scopes, last_expr_res>>
        /\ \/ Leave(Failure("invalidArgument"))
           \/ mode' = "crashed" /\ UNCHANGED <<stack, res>>
    BY <1>4, InvFacts DEF RejectArguments
  <2>2. CASE Leave(Failure("invalidArgument"))
    <3>1. /\ Failure("invalidArgument").val.env # 1 /\ ~ IsOk(Failure("invalidArgument"))
          /\ ~ IsReturning(Failure("invalidArgument"))
      BY KeptValues DEF Failure, IsOk, IsReturning
    <3>2. FlowKeeps
      BY <2>1, <2>2, <3>1, KeptFacts, LeaveFlow
    <3> QED BY <2>1, <2>2, <3>2 DEF Leave, Keeps, ScopesKeep, ScopesStay
  <2>3. CASE mode' = "crashed" /\ UNCHANGED <<stack, res>>
    <3>1. FlowKeeps
      BY <2>1, <2>3, KeptFacts DEF FlowKeeps, StackKeeps, Carry
    <3> QED BY <2>1, <2>3, <3>1 DEF Keeps, ScopesKeep, ScopesStay
  <2> QED BY <2>1, <2>2, <2>3
<1> QED BY <1>1, <1>2, <1>3, <1>4

LEMMA ExpressionKeepsScopes == Inv /\ KeptInv /\ Expression => Keeps
  BY ExpressionEntersKeep, OperatorsKeepScopes, AssignmentKeeps, CalleesKeep DEF Expression

-----------------------------------------------------------------------------
(* Calls                                                                    *)

LEMMA CallKeepsScopes == Inv /\ KeptInv /\ (Call \/ FallOffCall) => Keeps
<1> SUFFICES ASSUME Inv, KeptInv, Call \/ FallOffCall PROVE Keeps
  OBVIOUS
<1>1. CASE CallNative
  <2>1. mode = "args" /\ stack # <<>> /\ UNCHANGED <<scopes, last_expr_res>>
    BY <1>1, InvFacts DEF CallNative
  <2>2. PICK v \in {Plain("num"), Boolean(TRUE)} : Leave(Ok(v))
    BY <1>1 DEF CallNative
  <2>3. Ok(v).val.env # 1 /\ ~ Empty(Ok(v).val) /\ ~ IsReturning(Ok(v))
    BY KeptValues DEF Kinds, Ok, Kept, IsReturning
  <2>4. FlowKeeps
    BY <2>1, <2>2, <2>3, KeptFacts, LeaveFlow
  <2> QED BY <2>1, <2>2, <2>4 DEF Leave, Keeps, ScopesKeep, ScopesStay
<1>2. CASE CallFunction
  <2> DEFINE fn == Top.res.val
             table == Parameters(fn.params, Top.args)
  <2>1. /\ mode = "args" /\ stack # <<>> /\ Len(envs) < MaxEnvs
        /\ fn.kind = "fn" /\ Len(Top.args) = Len(fn.params)
        /\ envs' = NewEnv(envs, fn.env, table) /\ env' = Len(envs) + 1
        /\ Resume(Saving("Call", env), "list") /\ UNCHANGED last_expr_res
    BY <1>2, InvFacts DEF CallFunction, Arity
  <2>2. FrameKept(Top) /\ fn.env # 1 /\ env # 1
    BY <2>1, KeptFacts DEF FrameKept
  <2>3. fn \in KnownValue(Len(envs)) /\ Top.args \in Seq(KnownValue(Len(envs)))
    BY <2>1, InvFacts DEF KnownFrame, KnownResult
  <2>4. fn.env \in Allocated(envs) \ {1} /\ fn.params \in Seq(Names)
    BY <2>1, <2>2, <2>3 DEF KnownValue, Value, Allocated
  <2>5. table \in [Names -> Slot]
    <3>1. table \in [Names -> KnownValue(Len(envs)) \cup {Unbound}]
      BY <2>1, <2>3, <2>4, InvFacts, ParametersAreKnown
    <3>2. KnownValue(Len(envs)) \cup {Unbound} \subseteq Slot
      BY UnboundIsNoValue DEF KnownValue
    <3> HIDE DEF table
    <3> QED BY <3>1, <3>2
  <2>6. \A x \in Names : Kept(table[x])
    BY <2>1, <2>2, <2>4, ParametersAreKept DEF FrameKept
  <2>7. Saving("Call", env) \in Frame
    BY InvFacts, SavingIsKnown DEF KnownFrame
  <2>8. FlowKeeps
    BY <2>1, <2>2, <2>7, KeptFrames, KeptFacts, ResumeFlow
  <2> HIDE DEF table, fn
  <2>9. ScopeOpened
    BY <2>1, <2>4, <2>5, <2>6 DEF ScopeOpened
  <2> QED BY <2>1, <2>8, <2>9 DEF Resume, Keeps, ScopesKeep
<1>3. CASE EndCall
  <2>1. /\ mode = "ret" /\ stack # <<>> /\ IsReturning(res) /\ env' = Top.env
        /\ UNCHANGED <<envs, last_expr_res>> /\ Leave(Ok(last_expr_res))
    BY <1>3 DEF EndCall, TopIs
  <2>2. Ok(last_expr_res).val = last_expr_res /\ ~ IsReturning(Ok(last_expr_res))
    BY DEF Ok, IsReturning
  <2>3. FlowKeeps
    BY <2>1, <2>2, KeptFacts, LeaveFlow
  <2> QED BY <2>1, <2>3 DEF Leave, Keeps, ScopesKeep, ScopeRestored
<1>4. CASE FailCall
  <2>1. /\ mode = "ret" /\ stack # <<>> /\ ~ IsOk(res) /\ env' = Top.env
        /\ UNCHANGED <<envs, last_expr_res>> /\ Leave(res)
    BY <1>4 DEF FailCall, TopIs, IsError, IsOk
  <2>2. FlowKeeps
    BY <2>1, FailureFlow
  <2> QED BY <2>1, <2>2 DEF Leave, Keeps, ScopesKeep, ScopeRestored
<1>5. CASE FallOffCall
  <2>1. mode # "start" /\ stack # <<>> /\ Leave(Ok(Nil)) /\ UNCHANGED <<scopes, last_expr_res>>
    BY <1>5 DEF FallOffCall, InList, TopIs
  <2>2. Ok(Nil).val.env # 1 /\ ~ Empty(Ok(Nil).val) /\ ~ IsReturning(Ok(Nil))
    BY KeptValues DEF Ok, Kept, IsReturning
  <2>3. FlowKeeps
    BY <2>1, <2>2, KeptFacts, LeaveFlow
  <2> QED BY <2>1, <2>3 DEF Leave, Keeps, ScopesKeep, ScopesStay
<1> QED BY <1>1, <1>2, <1>3, <1>4, <1>5 DEF Call

-----------------------------------------------------------------------------
(* interpret, and the start                                                 *)

LEMMA ProgramKeepsScopes ==
  ASSUME Inv, KeptInv, EndProgram \/ AbortProgram \/ NextInList
  PROVE  Keeps
<1>1. /\ mode # "start" /\ mode' \in {"list", "done"} /\ res' \in {res, Completed}
      /\ last_expr_res' \in {last_expr_res, Monostate}
      /\ UNCHANGED <<scopes, stack>>
  BY DEF EndProgram, AbortProgram, NextInList, InList
<1>2. Completed.val = Monostate
  BY DEF Completed, Ok
<1>3. FlowKeeps
  BY <1>1, <1>2, KeptFacts, KeptValues DEF FlowKeeps, StackKeeps, Carry
<1> QED BY <1>1, <1>3 DEF Keeps, ScopesKeep, ScopesStay

\* The first interpreter makes the global environment, number 2; a later one
\* already stands in its own, number 2 as well.
LEMMA InterpretKeepsScopes ==
  ASSUME Inv, KeptInv, Interpret
  PROVE  KeptInv' /\ (global_env = 1 => UNCHANGED envs)
<1> DEFINE n == Len(envs)
<1>1. /\ mode = "start" /\ mode' = "list"
      /\ n = IF global_env = NoEnv THEN 1 ELSE 2
      /\ env = n /\ \A e \in Allocated(envs) : envs[e].chain = <<e>>
      /\ UNCHANGED <<last_expr_res, stack, res>>
  BY DEF Interpret, Inv, RegistersInv, KeptInv, Rooted
<1>2. FlowInv'
  BY <1>1 DEF KeptInv, FlowInv, Carry
<1>3. CASE global_env # NoEnv
  <2>1. n = 2 /\ UNCHANGED <<envs, env>>
    BY <1>1, <1>3 DEF Interpret
  <2>2. Allocated(envs) \ {1} = {2}
    BY <2>1 DEF Allocated
  <2>3. Outermost(2) = 2
    BY <1>1, <2>2 DEF Outermost
  <2>4. Rooted'
    BY <1>1, <2>1, <2>2, <2>3 DEF Rooted, Outermost
  <2> QED BY <1>2, <2>1, <2>4 DEF KeptInv, HeapKept
<1>4. CASE global_env = NoEnv
  <2>1. n = 1 /\ envs' = NewEnv(envs, NoEnv, NativeVars) /\ env' = 2
    BY <1>1, <1>4 DEF Interpret
  <2>2. n < MaxEnvs /\ HeapOK(envs)
    BY <2>1, InvFacts, BoundsAssumption, MaxEnvsAssumption
  <2>3. NativeVars \in [Names -> Slot] /\ \A x \in Names : Kept(NativeVars[x])
    <3>1. Plain("native") \in Value
      BY InvFacts, PlainValues DEF Kinds, KnownValue
    <3> QED BY <3>1, KeptValues, UnboundIsNoValue DEF NativeVars, Kinds
  <2>4. LET fs == NewEnv(envs, NoEnv, NativeVars)
        IN  /\ Allocated(fs) = Allocated(envs) \cup {n + 1}
            /\ \A d \in Allocated(envs) : fs[d] = envs[d]
            /\ fs[n + 1].vars = NativeVars
            /\ fs[n + 1].chain = <<n + 1>> \o ChainOf(envs, NoEnv)
    <3>1. /\ HeapOK(envs) /\ Len(envs) < MaxEnvs
          /\ NoEnv \in Allocated(envs) \cup {NoEnv} /\ NativeVars \in [Names -> Slot]
      BY <2>2, <2>3
    <3> QED BY <3>1, NewEnvProperties
  <2>5. /\ Allocated(envs') = {1, 2} /\ envs'[1] = envs[1]
        /\ envs'[2].vars = NativeVars /\ envs'[2].chain = <<2>>
    BY <2>1, <2>4 DEF Allocated, ChainOf
  <2>6. HeapKept'
    BY <2>1, <2>3, <2>5 DEF KeptInv, HeapKept, Allocated
  <2>7. Rooted'
    BY <1>1, <2>1, <2>5 DEF Rooted, Outermost
  <2> QED BY <1>2, <1>4, <2>6, <2>7 DEF KeptInv, NoEnv
<1> QED BY <1>3, <1>4

LEMMA KeptInit == Init => KeptInv
<1> SUFFICES ASSUME Init PROVE KeptInv
  OBVIOUS
<1>1. PICK first \in BOOLEAN :
        envs = NewEnv(IF first THEN <<>> ELSE NewEnv(<<>>, NoEnv, NativeVars), NoEnv, NoVars)
  BY DEF Init
<1>2. \A es, table : NewEnv(es, NoEnv, table) =
                    Append(es, [chain |-> <<Len(es) + 1>>, vars |-> table])
  BY DEF NewEnv, ChainOf
<1> DEFINE own(n) == [chain |-> <<n>>, vars |-> NoVars]
           natural == [chain |-> <<1>>, vars |-> NativeVars]
<1>3. \A e \in Allocated(envs) :
        envs[e].chain = <<e>> /\ envs[e].vars \in {NoVars, NativeVars}
  <2>1. (\A a : Append(<<>>, a) = <<a>>) /\ Len(<<>>) + 1 = 1 /\ Len(<<natural>>) + 1 = 2
    BY EmptySeq
  <2>2. NewEnv(<<>>, NoEnv, NativeVars) = <<natural>> /\ NewEnv(<<>>, NoEnv, NoVars) = <<own(1)>>
    BY <1>2, <2>1
  <2>3. NewEnv(<<natural>>, NoEnv, NoVars) = Append(<<natural>>, own(2))
    BY <1>2, <2>1
  <2>4. CASE first
    <3>1. envs = <<own(1)>>
      BY <1>1, <2>2, <2>4
    <3> QED BY <3>1 DEF Allocated
  <2>5. CASE ~ first
    <3>1. envs = Append(<<natural>>, own(2))
      BY <1>1, <2>2, <2>3, <2>5
    <3>2. <<natural>> \in Seq({natural, own(2)}) /\ Len(<<natural>>) = 1 /\ <<natural>>[1] = natural
      OBVIOUS
    <3>3. Len(envs) = 2 /\ envs[1] = natural /\ envs[2] = own(2)
      <4> HIDE DEF natural, own
      <4> QED BY <3>1, <3>2, AppendProperties
    <3> QED BY <3>3 DEF Allocated
  <2> QED BY <2>4, <2>5
<1>4. \A x \in Names : Kept(NoVars[x]) /\ Kept(NativeVars[x])
  BY KeptValues DEF NoVars, NativeVars, Kinds
<1>5. HeapKept /\ \A e \in Allocated(envs) : envs[e].chain = <<e>>
  BY <1>3, <1>4 DEF HeapKept
<1>6. Rooted
  BY <1>5 DEF Init, Rooted
<1>7. FlowInv
  <2>1. Len(<<>>) = 0 /\ Completed.val = Monostate
    BY EmptySeq DEF Completed, Ok
  <2> QED BY <2>1, KeptValues DEF Init, FlowInv, StackKept, Carry
<1> QED BY <1>5, <1>6, <1>7 DEF KeptInv

LEMMA KeptInductive ==
  Inv /\ KeptInv /\ [Next]_vars => KeptInv' /\ (global_env = 1 => envs'[1] = envs[1])
<1> SUFFICES ASSUME Inv, KeptInv, [Next]_vars
             PROVE  KeptInv' /\ (global_env = 1 => envs'[1] = envs[1])
  OBVIOUS
<1>1. CASE UNCHANGED vars \/ Finished
  BY <1>1 DEF vars, Finished, KeptInv, HeapKept, Rooted, Outermost, FlowInv
<1>2. CASE Interpret
  BY <1>2, InterpretKeepsScopes
<1>3. CASE Statement \/ Expression \/ Call \/ FallOffCall \/ EndProgram \/ AbortProgram \/ NextInList
  BY <1>3, StatementKeepsScopes, ExpressionKeepsScopes, CallKeepsScopes, ProgramKeepsScopes,
     KeptByStep
<1> QED BY <1>1, <1>2, <1>3 DEF Next, NextReturning, Program

LEMMA KeptInvHolds == Spec => [](Inv /\ KeptInv)
  BY KeptInit, KeptInductive, InvInit, InvInductive, PTL DEF Spec

-----------------------------------------------------------------------------
(* The theorems.                                                            *)

\* Monostate is never bound, and never the value of an expression: a defined
\* variable is always found by the empty() test that follows Environment::get.
THEOREM DefinedIsFound == Spec => []DefinedIsNotEmpty
<1>1. Inv /\ KeptInv => DefinedIsNotEmpty
  <2> SUFFICES ASSUME Inv, KeptInv PROVE DefinedIsNotEmpty
    OBVIOUS
  <2>1. Monostate \notin Bound
    BY DEF KeptInv, HeapKept, Bound, Kept, Empty, Monostate, Plain
  <2>2. mode = "ret" /\ IsOk(res) /\ stack # <<>> /\ Top.tag \in ExprTags => ~ Empty(res.val)
    BY KeptFacts DEF Kept
  <2> QED BY <2>1, <2>2 DEF DefinedIsNotEmpty
<1> QED BY <1>1, KeptInvHolds, PTL

\* Every scope that is current, will be restored or is closed over leads to the
\* same outermost scope, whichever calls left their own in place.
THEOREM ScopesShareRoot == Spec => []OneRoot
<1>1. Inv /\ KeptInv => OneRoot
  <2> SUFFICES ASSUME Inv, KeptInv PROVE OneRoot
    OBVIOUS
  <2> DEFINE n == Len(envs)
  <2>1. n \in Nat /\ env \in 1 .. n /\ stack \in Seq(KnownFrame(n)) /\ Len(stack) \in Nat
    BY InvFacts, LenProperties
  <2>2. \A f \in Frames : f \in KnownFrame(n) /\ FrameKept(f)
    <3>1. \A i \in 1 .. Len(stack) : stack[i] \in KnownFrame(n)
      BY <2>1, ElementOfSeq
    <3> QED BY <3>1 DEF Frames, KeptInv, FlowInv, StackKept
  <2>3. \A f \in Frames : f.tag \in {"Block", "Call"} => f.env \in 1 .. n /\ f.env # 1
    BY <2>2 DEF KnownFrame, FrameKept
  <2>4. \A v \in ValuesHeld : v.kind = "fn" => v.env \in 1 .. n /\ v.env # 1
    <3>1. \A v \in KnownValue(n) : v.kind = "fn" => v.env \in 1 .. n
      BY DEF KnownValue
    <3>2. ASSUME NEW v \in {last_expr_res, res.val} PROVE v \in KnownValue(n) /\ v.env # 1
      BY <3>2, InvFacts, KeptFacts
    <3>3. ASSUME NEW v \in Bound PROVE (v.kind = "fn" => v \in KnownValue(n)) /\ v.env # 1
      <4>1. PICK e \in Allocated(envs), x \in Names : v = envs[e].vars[x]
        BY <3>3 DEF Bound
      <4>2. v \in KnownValue(n) \cup {Unbound} /\ Kept(v)
        BY <4>1 DEF Inv, HeapInv, KeptInv, HeapKept
      <4> QED BY <4>2 DEF Kept, Unbound, Plain
    <3>4. ASSUME NEW f \in Frames, NEW v \in FrameValues(f)
          PROVE  v \in KnownValue(n) /\ v.env # 1
      <4>1. f \in KnownFrame(n) /\ FrameKept(f)
        BY <2>2
      <4>2. /\ f.res.val \in KnownValue(n) /\ f.res.val.env # 1
            /\ f.args \in Seq(KnownValue(n))
        BY <4>1 DEF KnownFrame, KnownResult, FrameKept
      <4>3. \A i \in 1 .. Len(f.args) : f.args[i] \in KnownValue(n) /\ f.args[i].env # 1
        BY <4>1, <4>2, ElementOfSeq DEF FrameKept, Kept
      <4> QED BY <3>4, <4>2, <4>3 DEF FrameValues
    <3> QED BY <3>1, <3>2, <3>3, <3>4 DEF ValuesHeld
  <2>5. ASSUME NEW d \in ScopesHeld PROVE d \in 1 .. n /\ (d = env \/ d # 1)
    BY <2>1, <2>3, <2>4, <2>5 DEF ScopesHeld
  <2>6. CASE mode = "start"
    <3>1. env = n /\ n \in {1, 2}
      BY <2>6 DEF KeptInv, Rooted, Inv, RegistersInv
    <3>2. \A d \in ScopesHeld : d = n
      BY <2>5, <3>1
    <3> QED BY <2>5, <3>2 DEF OneRoot, Allocated
  <2>7. CASE mode # "start"
    <3>1. env # 1 /\ \A e \in Allocated(envs) \ {1} : Outermost(e) = 2
      BY <2>7 DEF KeptInv, Rooted
    <3>2. \A d \in ScopesHeld : d \in Allocated(envs) /\ Outermost(d) = 2
      BY <2>5, <3>1 DEF Allocated
    <3> QED BY <3>2 DEF OneRoot
  <2> QED BY <2>6, <2>7
<1> QED BY <1>1, KeptInvHolds, PTL

\* An interpreter that is not the first of its process never declares, assigns
\* or otherwise changes anything in the global environment.
THEOREM LaterInterpretersLeaveGlobal == Spec => GlobalUntouched
<1>1. Inv /\ KeptInv /\ [Next]_vars
      => [global_env = 1 => envs'[global_env] = envs[global_env]]_vars
  BY KeptInductive
<1> QED BY <1>1, KeptInvHolds, PTL DEF Spec, GlobalUntouched
-----------------------------------------------------------------------------
(* Interpreter implements ScopeDiscipline: each move of the stack is one of *)
(* its visits, or invisible.                                                *)

LEMMA PushOfTail == ASSUME NEW S, NEW s \in Seq(S), s # <<>> PROVE s = <<Head(s)>> \o Tail(s)
<1> DEFINE t == <<Head(s)>> \o Tail(s)
<1>1. Len(s) \in Nat /\ Len(s) >= 1
  BY EmptySeq, LenProperties
<1>2. /\ Head(s) \in S /\ Head(s) = s[1] /\ Tail(s) \in Seq(S) /\ Len(Tail(s)) = Len(s) - 1
      /\ \A i \in 1 .. Len(Tail(s)) : Tail(s)[i] = s[i + 1]
  BY HeadTailProperties
<1>3. /\ t \in Seq(S) /\ Len(t) = Len(Tail(s)) + 1 /\ t[1] = Head(s)
      /\ \A i \in 1 .. Len(Tail(s)) : t[i + 1] = Tail(s)[i]
  BY <1>2, PushProperties
<1> HIDE DEF t
<1>4. ASSUME NEW i \in 1 .. Len(s) PROVE s[i] = t[i]
  <2>1. CASE i = 1
    BY <1>2, <1>3, <2>1
  <2>2. CASE i # 1
    <3>1. i - 1 \in 1 .. Len(Tail(s)) /\ (i - 1) + 1 = i
      BY <1>1, <1>2, <2>2
    <3> QED BY <1>2, <1>3, <3>1
  <2> QED BY <2>1, <2>2
<1>5. s = t
  BY <1>1, <1>2, <1>3, <1>4, SeqEqual
<1> QED BY <1>5 DEF t

Restore(f) == IF Saves(f) THEN f.env ELSE NoEnv

LEMMA RestoresType ==
  ASSUME NEW s \in Seq(Frame)
  PROVE  /\ Restores(s) \in Seq(EnvIds \cup {NoEnv})
         /\ Len(Restores(s)) = Len(s)
         /\ \A i \in 1 .. Len(s) : Restores(s)[i] = Restore(s[i])
<1>1. Len(s) \in Nat /\ \A i \in 1 .. Len(s) : s[i] \in Frame
  BY LenProperties, ElementOfSeq
<1>2. Restores(s) \in [1 .. Len(s) -> EnvIds \cup {NoEnv}]
  BY <1>1 DEF Restores, Frame
<1>3. Restores(s) \in Seq(EnvIds \cup {NoEnv})
  BY <1>1, <1>2, SeqDef
<1>4. Len(Restores(s)) = Len(s)
  BY <1>1, <1>2, <1>3, LenProperties
<1> QED BY <1>3, <1>4 DEF Restores, Restore

LEMMA RestoresPush ==
  ASSUME NEW s \in Seq(Frame), NEW f \in Frame
  PROVE  Restores(<<f>> \o s) = <<Restore(f)>> \o Restores(s)
<1> DEFINE Scope == EnvIds \cup {NoEnv}
           t == <<f>> \o s
           r == Restores(s)
           b == <<Restore(f)>> \o r
<1>1. /\ t \in Seq(Frame) /\ Len(t) = Len(s) + 1 /\ t[1] = f
      /\ \A i \in 1 .. Len(s) : t[i + 1] = s[i]
  BY PushProperties
<1>2. Len(s) \in Nat
  BY LenProperties
<1>3. Restore(f) \in Scope
  BY DEF Restore, Frame
<1>4. r \in Seq(Scope) /\ Len(r) = Len(s) /\ \A i \in 1 .. Len(s) : r[i] = Restore(s[i])
  BY RestoresType
<1> HIDE DEF Scope, t, r
<1>5. /\ b \in Seq(Scope) /\ Len(b) = Len(r) + 1 /\ b[1] = Restore(f)
      /\ \A i \in 1 .. Len(r) : b[i + 1] = r[i]
  BY <1>3, <1>4, PushProperties
<1>6. /\ Restores(t) \in Seq(Scope) /\ Len(Restores(t)) = Len(t)
      /\ \A i \in 1 .. Len(t) : Restores(t)[i] = Restore(t[i])
  BY <1>1, RestoresType DEF Scope
<1> HIDE DEF b
<1>7. ASSUME NEW i \in 1 .. Len(t) PROVE Restores(t)[i] = b[i]
  <2>1. CASE i = 1
    BY <1>1, <1>2, <1>5, <1>6, <2>1
  <2>2. CASE i # 1
    <3>1. i - 1 \in 1 .. Len(s) /\ (i - 1) + 1 = i
      BY <1>1, <1>2, <1>7, <2>2
    <3>2. b[i] = r[i - 1] /\ t[i] = s[i - 1]
      BY <1>1, <1>4, <1>5, <3>1
    <3> QED BY <1>4, <1>6, <3>1, <3>2
  <2> QED BY <2>1, <2>2
<1>8. Restores(t) = b
  BY <1>1, <1>4, <1>5, <1>6, <1>7, SeqEqual
<1> QED BY <1>8 DEF b, t, r

LEMMA RestoresPop ==
  ASSUME NEW s \in Seq(Frame), s # <<>>
  PROVE  /\ Restores(s) # <<>>
         /\ Head(Restores(s)) = Restore(Head(s))
         /\ Tail(Restores(s)) = Restores(Tail(s))
<1> DEFINE Scope == EnvIds \cup {NoEnv}
           r == Restores(s)
           t == Tail(s)
           u == Tail(r)
<1>1. Len(s) \in Nat /\ Len(s) >= 1
  BY EmptySeq, LenProperties
<1>2. r \in Seq(Scope) /\ Len(r) = Len(s) /\ \A i \in 1 .. Len(s) : r[i] = Restore(s[i])
  BY RestoresType
<1>3. r # <<>>
  BY <1>1, <1>2, EmptySeq
<1>4. /\ t \in Seq(Frame) /\ Len(t) = Len(s) - 1 /\ Head(s) = s[1]
      /\ \A i \in 1 .. Len(t) : t[i] = s[i + 1]
  BY HeadTailProperties
<1> HIDE DEF Scope, r, t
<1>5. /\ u \in Seq(Scope) /\ Len(u) = Len(r) - 1 /\ Head(r) = r[1]
      /\ \A i \in 1 .. Len(u) : u[i] = r[i + 1]
  BY <1>2, <1>3, HeadTailProperties
<1>6. /\ Restores(t) \in Seq(Scope) /\ Len(Restores(t)) = Len(t)
      /\ \A i \in 1 .. Len(t) : Restores(t)[i] = Restore(t[i])
  BY <1>4, RestoresType DEF Scope
<1> HIDE DEF u
<1>7. ASSUME NEW i \in 1 .. Len(u) PROVE u[i] = Restores(t)[i]
  <2>1. i + 1 \in 1 .. Len(s) /\ i \in 1 .. Len(t)
    BY <1>1, <1>2, <1>4, <1>5
  <2> QED BY <1>2, <1>4, <1>5, <1>6, <2>1
<1>8. u = Restores(t)
  BY <1>2, <1>4, <1>5, <1>6, <1>7, SeqEqual
<1> QED BY <1>1, <1>2, <1>3, <1>4, <1>5, <1>8 DEF r, t, u

\* A scope just made is not in use.
LEMMA NewScopeIsFresh ==
  ASSUME Inv, Len(envs) < MaxEnvs
  PROVE  Len(envs) + 1 \in EnvIds \ Discipline!InUse
<1>1. Len(envs) \in Nat /\ env \in 1 .. Len(envs) /\ stack \in Seq(KnownFrame(Len(envs)))
  BY InvFacts
<1>2. KnownFrame(Len(envs)) \subseteq Frame
  BY DEF KnownFrame
<1>3. stack \in Seq(Frame) /\ \A i \in 1 .. Len(stack) : stack[i] \in KnownFrame(Len(envs))
  BY <1>1, <1>2, SeqMonotonic, ElementOfSeq
<1>4. /\ Len(Restores(stack)) = Len(stack)
      /\ \A i \in 1 .. Len(stack) : Restores(stack)[i] = Restore(stack[i])
  BY <1>3, RestoresType
<1>5. \A i \in 1 .. Len(stack) : Restore(stack[i]) # Len(envs) + 1
  BY <1>1, <1>3 DEF KnownFrame, Restore, Saves, NoEnv
<1>6. Len(envs) + 1 \in EnvIds
  BY <1>1, MaxEnvsAssumption DEF EnvIds
<1> QED BY <1>1, <1>4, <1>5, <1>6 DEF Discipline!InUse

LEMMA MovesAreVisits ==
  ASSUME Inv, mode # "start", mode' # "start", Moves
  PROVE  [Discipline!Next]_(Discipline!vars)
<1> DEFINE r == Restores(stack)
           r1 == Restores(stack')
<1>1. Len(envs) \in Nat /\ env \in 1 .. Len(envs) /\ KnownFrame(Len(envs)) \subseteq Frame
  BY InvFacts DEF KnownFrame
<1>2. stack \in Seq(Frame)
  BY <1>1, InvFacts, SeqMonotonic
<1>3. stack # <<>> => Tail(stack) \in Seq(Frame) /\ Top \in KnownFrame(Len(envs))
  BY <1>1, <1>2, InvFacts, HeadTailProperties
<1>4. stack # <<>> => /\ r # <<>> /\ Head(r) = Restore(Top)
                      /\ Tail(r) = Restores(Tail(stack))
  BY <1>2, RestoresPop DEF Top
<1>5. stack # <<>> => (Discipline!Plain <=> ~ Saves(Top))
  BY <1>1, <1>3, <1>4 DEF Discipline!Plain, Restore, KnownFrame, Saves, NoEnv
<1>6. \A f \in Frame : ~ Saves(f) => Restore(f) = NoEnv
  BY DEF Restore
<1>7. ASSUME NEW tag \in {"Block", "Call"}
      PROVE  Saving(tag, env) \in Frame /\ Restore(Saving(tag, env)) = env
  <2>1. Saving(tag, env) \in KnownFrame(Len(envs)) /\ Saving(tag, env).tag = tag
    BY <1>1, InvFacts, SavingIsKnown
  <2>2. Saving(tag, env).env = env
    BY DEF Saving, Waiting
  <2> QED BY <1>1, <2>1, <2>2 DEF Restore, Saves
<1>8. CASE StackStays
  BY <1>8 DEF StackStays, Discipline!vars
<1>9. CASE FramePushed
  <2>1. r1 = <<NoEnv>> \o r
    BY <1>2, <1>6, <1>9, RestoresPush DEF FramePushed
  <2>2. Discipline!Visit
    BY <1>9, <2>1 DEF FramePushed, Discipline!Visit
  <2> QED BY <2>2 DEF Discipline!Next
<1>10. CASE FrameReplaced
  <2>1. r1 = <<NoEnv>> \o Tail(r)
    BY <1>3, <1>4, <1>6, <1>10, RestoresPush DEF FrameReplaced
  <2>2. r = <<Head(r)>> \o Tail(r) /\ Head(r) = NoEnv
    <3>1. r \in Seq(EnvIds \cup {NoEnv}) /\ r # <<>>
      BY <1>2, <1>4, <1>10, RestoresType DEF FrameReplaced
    <3> HIDE DEF r
    <3>2. r = <<Head(r)>> \o Tail(r)
      BY <3>1, PushOfTail
    <3> QED BY <1>4, <1>6, <1>10, <3>2 DEF FrameReplaced, Restore
  <2>3. UNCHANGED Discipline!vars
    BY <1>10, <2>1, <2>2 DEF FrameReplaced, Discipline!vars
  <2> QED BY <2>3
<1>11. CASE FramePopped
  <2>1. r1 = Tail(r) /\ stack # <<>>
    BY <1>4, <1>11 DEF FramePopped
  <2>2. CASE Saves(Top)
    <3>1. Discipline!Close
      BY <1>4, <1>5, <1>11, <2>1, <2>2 DEF FramePopped, Restore, Discipline!Close
    <3> QED BY <3>1 DEF Discipline!Next
  <2>3. CASE ~ Saves(Top)
    <3>1. Discipline!Leave
      BY <1>5, <1>11, <2>1, <2>3 DEF FramePopped, Discipline!Leave
    <3> QED BY <3>1 DEF Discipline!Next
  <2> QED BY <2>2, <2>3
<1>12. CASE BlockOpened
  <2>1. r1 = <<env>> \o r
    BY <1>2, <1>7, <1>12, RestoresPush DEF BlockOpened
  <2>2. Discipline!Open
    BY <1>12, <2>1, NewScopeIsFresh DEF BlockOpened, Discipline!Open
  <2> QED BY <2>2 DEF Discipline!Next
<1>13. CASE CallOpened
  <2>1. r1 = <<env>> \o Tail(r)
    BY <1>3, <1>4, <1>7, <1>13, RestoresPush DEF CallOpened
  <2>2. Discipline!Open
    BY <1>5, <1>13, <2>1, NewScopeIsFresh DEF CallOpened, Discipline!Open
  <2> QED BY <2>2 DEF Discipline!Next
<1> QED BY <1>8, <1>9, <1>10, <1>11, <1>12, <1>13 DEF Moves

LEMMA StepsAreVisits ==
  Inv /\ KeptInv /\ [NextReturning]_vars => [Discipline!Next]_(Discipline!vars)
<1> SUFFICES ASSUME Inv, KeptInv, [NextReturning]_vars
             PROVE  [Discipline!Next]_(Discipline!vars)
  OBVIOUS
<1>1. CASE UNCHANGED vars \/ Finished
  BY <1>1 DEF vars, Finished, Discipline!vars
<1>2. CASE Interpret
  <2>1. Inv'
    BY <1>2, InvInductive DEF Next, NextReturning, Program
  <2>2. env' \in EnvIds
    BY <2>1, MaxEnvsAssumption DEF Inv, HeapInv, HeapOK, RegistersInv, Allocated, EnvIds
  <2>3. Discipline!Begin
    BY <1>2, <2>2 DEF Interpret, Discipline!Begin
  <2> QED BY <2>3 DEF Discipline!Next
<1>3. CASE Statement \/ Expression \/ Call \/ EndProgram \/ AbortProgram \/ NextInList
  <2>1. Moves
    BY <1>3, StatementMoves, ExpressionMoves, CallMoves, ProgramMoves DEF Moves
  <2>2. mode # "start" /\ mode' # "start"
    BY <1>3, StatementKeepsScopes, ExpressionKeepsScopes, CallKeepsScopes, ProgramKeepsScopes
       DEF Keeps
  <2> QED BY <2>1, <2>2, MovesAreVisits
<1> QED BY <1>1, <1>2, <1>3 DEF NextReturning, Program

\* As long as every function body that ends normally ends with a return, each
\* visit gives back the scope it found, whether it ends, returns or fails, and
\* each block and call has had a scope of its own that nothing else was using.
THEOREM DisciplineIsObeyed == SpecNoFallOff => ObeysScopeDiscipline
<1>1. Init => Discipline!Init
  <2> SUFFICES ASSUME Init PROVE Discipline!Init
    OBVIOUS
  <2>1. stack \in Seq(Frame) /\ Len(stack) = 0 /\ mode = "start"
    BY EmptySeq DEF Init
  <2>2. Restores(stack) = <<>>
    BY <2>1, RestoresType, EmptySeq
  <2>3. env \in EnvIds
    BY InvInit, InvFacts, MaxEnvsAssumption DEF EnvIds
  <2> QED BY <2>1, <2>2, <2>3 DEF Discipline!Init
<1>2. [NextReturning]_vars => [Next]_vars
  BY DEF Next
<1>3. SpecNoFallOff => [](Inv /\ KeptInv)
  BY <1>2, KeptInit, KeptInductive, InvInit, InvInductive, PTL DEF SpecNoFallOff
<1> QED BY <1>1, <1>3, StepsAreVisits, PTL DEF SpecNoFallOff, ObeysScopeDiscipline, Discipline!Spec
=============================================================================
