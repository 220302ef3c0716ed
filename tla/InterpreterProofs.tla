--------------------------- MODULE InterpreterProofs ---------------------------
(***************************************************************************)
(* Proofs about Interpreter, for any names, programs, numbers of            *)
(* environments and depths of the stack.                                    *)
(*                                                                         *)
(* The inductive invariant has four parts: the heap (HeapInv), the          *)
(* interpreter's registers (RegistersInv), the C++ stack (ControlInv) and   *)
(* the value of a return under way (ReturnValueSurvives).  The stack part   *)
(* carries the argument: visitors call each other as the grammar says, so   *)
(* what the visitor in a frame gives - a statement's result or an           *)
(* expression's - is what the frame below waits for.                        *)
(***************************************************************************)
EXTENDS Interpreter, EnvironmentLemmas

-----------------------------------------------------------------------------
(* The inductive invariant.  n stands for the size of the heap.             *)

\* A function closes over an environment of the heap; other values have none.
KnownValue(n) == {v \in Value : v.env \in IF v.kind = "fn" THEN 1 .. n ELSE {NoEnv}}

KnownResult(n) == {r \in Result : r.val \in KnownValue(n)}

\* A frame that restores an environment restores one of the heap, and no frame
\* keeps the result of a statement that returned.
KnownFrame(n) ==
  {f \in Frame : /\ f.env \in IF f.tag \in {"Block", "Call"} THEN 1 .. n ELSE {NoEnv}
                 /\ f.res \in KnownResult(n) /\ ~ IsReturning(f.res)
                 /\ f.args \in Seq(KnownValue(n))}

\* What the visitor of a frame gives, and what it waits for.
ExprVisitors == {"Call", "Unary", "BinaryLhs", "BinaryRhs", "Logical", "Assignment",
                 "Callee", "Args"}
Gives(f) == IF f.tag \in ExprVisitors THEN "expression" ELSE "statement"
Takes(f) == IF f.tag \in StmtTags THEN "statement" ELSE "expression"

\* The interpreter's loop waits, below the stack, for statements.
Awaited(s) == IF s = <<>> THEN "statement" ELSE Takes(s[1])
Nested(s) ==
  \A i \in 1 .. Len(s) :
    Gives(s[i]) = IF i = Len(s) THEN "statement" ELSE Takes(s[i + 1])

\* The modes a frame's visitor may be left in to wait.
Suits(f, m) ==
  \/ m = "list" /\ f.tag \in {"Block", "Call"}
  \/ m = "stmt" /\ Takes(f) = "statement"
  \/ m = "eval" /\ Takes(f) = "expression"
  \/ m = "args" /\ f.tag = "Args"

Control(n, s, m, r) ==
  /\ s \in Seq(KnownFrame(n)) /\ Nested(s)
  /\ m \in Modes
  /\ r \in KnownResult(n)
  /\ m \in {"start", "done"} => s = <<>>
  /\ m = "list" => s = <<>> \/ Suits(s[1], m)
  /\ m = "stmt" => Awaited(s) = "statement"
  /\ m = "eval" => Awaited(s) = "expression"
  /\ m = "args" => s # <<>> /\ Suits(s[1], m)
  /\ m = "ret" /\ IsReturning(r) => Awaited(s) = "statement"

HeapInv ==
  /\ HeapOK(envs) /\ Len(envs) <= MaxEnvs
  /\ \A e \in Allocated(envs), x \in Names :
       envs[e].vars[x] \in KnownValue(Len(envs)) \cup {Unbound}

RegistersInv ==
  /\ env \in Allocated(envs)
  /\ global_env \in Allocated(envs) \cup {NoEnv}
  /\ last_expr_res \in KnownValue(Len(envs))
  /\ returned \in KnownValue(Len(envs))
  /\ stmts_res \in 0 .. MaxPrints
  \* the constructor's environment and the global one fit
  /\ mode = "start" => Len(envs) = IF global_env = NoEnv THEN 1 ELSE 2

ControlInv == Control(Len(envs), stack, mode, res)

Inv == HeapInv /\ RegistersInv /\ ControlInv /\ ReturnValueSurvives

-----------------------------------------------------------------------------
(* Values, results and frames.                                              *)

\* The values that are no function have no environment, whatever the heap.
LEMMA PlainValues ==
  ASSUME NEW n \in Nat
  PROVE  /\ \A k \in Kinds \ {"fn"} : Plain(k) \in KnownValue(n)
         /\ Monostate \in KnownValue(n) /\ Nil \in KnownValue(n)
         /\ \A b \in BOOLEAN : Boolean(b) \in KnownValue(n)
         /\ Literals \subseteq KnownValue(n)
<1>1. ASSUME NEW k \in Kinds \ {"fn"} PROVE Plain(k) \in KnownValue(n)
  <2>1. Plain(k) \in Value
    BY EmptySeq DEF Plain, Value
  <2> QED BY <2>1 DEF KnownValue, Plain
<1>2. /\ Monostate \in KnownValue(n) /\ Nil \in KnownValue(n)
      /\ Plain("num") \in KnownValue(n) /\ Plain("str") \in KnownValue(n)
      /\ Plain("true") \in KnownValue(n) /\ Plain("false") \in KnownValue(n)
  BY <1>1 DEF Kinds, Monostate, Nil
<1>3. \A b \in BOOLEAN : Boolean(b) \in KnownValue(n)
  BY <1>2 DEF Boolean
<1> QED BY <1>1, <1>2, <1>3, LiteralsAssumption

\* A closure over an environment of the heap.
LEMMA FnIsKnown ==
  ASSUME NEW n \in Nat, n <= MaxEnvs, NEW e \in 1 .. n, NEW params \in Seq(Names)
  PROVE  Fn(params, e) \in KnownValue(n)
<1>1. e \in EnvIds
  BY MaxEnvsAssumption DEF EnvIds
<1> QED BY <1>1 DEF Fn, KnownValue, Value, Kinds

LEMMA KnownResults ==
  ASSUME NEW n \in Nat
  PROVE  /\ \A v \in KnownValue(n) : Ok(v) \in KnownResult(n) /\ ~ IsReturning(Ok(v))
         /\ \A c \in Codes : Failure(c) \in KnownResult(n)
         /\ Completed \in KnownResult(n) /\ ~ IsReturning(Completed)
         /\ Returning \in KnownResult(n)
         /\ ~ IsReturning(Failure("invalidArgument")) /\ ~ IsReturning(Failure("notFound"))
<1>1. ASSUME NEW v \in KnownValue(n) PROVE Ok(v) \in KnownResult(n) /\ ~ IsReturning(Ok(v))
  BY DEF KnownResult, Ok, Result, Codes, KnownValue, IsReturning
<1>2. ASSUME NEW c \in Codes PROVE Failure(c) \in KnownResult(n)
  BY PlainValues DEF KnownResult, Failure, Result, KnownValue
<1>3. Monostate \in KnownValue(n)
  BY PlainValues
<1> QED BY <1>1, <1>2, <1>3 DEF Completed, Returning, Codes, IsReturning, Failure

\* What is known in a heap is known in a larger one.
LEMMA KnownGrows ==
  ASSUME NEW n \in Nat, NEW k \in Nat, n <= k
  PROVE  /\ KnownValue(n) \subseteq KnownValue(k)
         /\ KnownResult(n) \subseteq KnownResult(k)
         /\ KnownFrame(n) \subseteq KnownFrame(k)
         /\ Seq(KnownFrame(n)) \subseteq Seq(KnownFrame(k))
<1>1. KnownValue(n) \subseteq KnownValue(k)
  BY DEF KnownValue
<1>2. KnownResult(n) \subseteq KnownResult(k)
  BY <1>1 DEF KnownResult
<1>3. Seq(KnownValue(n)) \subseteq Seq(KnownValue(k))
  BY <1>1, SeqMonotonic
<1>4. KnownFrame(n) \subseteq KnownFrame(k)
  BY <1>2, <1>3 DEF KnownFrame
<1> QED BY <1>1, <1>2, <1>4, SeqMonotonic

\* The operators answer with known results, never with the returning status.
LEMMA OperatorsAreKnown ==
  ASSUME NEW n \in Nat
  PROVE  /\ \A r \in KnownResult(n) : \A q \in UnaryResults(r) :
              q \in KnownResult(n) /\ ~ IsReturning(q)
         /\ \A op \in BinaryOps, a, b \in KnownValue(n) : \A q \in BinaryResults(op, a, b) :
              q \in KnownResult(n) /\ ~ IsReturning(q)
<1> DEFINE Good(q) == q \in KnownResult(n) /\ ~ IsReturning(q)
<1>1. /\ \A b \in BOOLEAN : Good(Ok(Boolean(b)))
      /\ Good(Ok(Plain("num")))
      /\ Good(Failure("invalidArgument"))
      /\ \A v \in KnownValue(n) : Good(Ok(v))
  BY PlainValues, KnownResults DEF Kinds, Codes
<1> HIDE DEF Good
<1>2. ASSUME NEW r \in KnownResult(n), NEW q \in UnaryResults(r) PROVE Good(q)
  BY <1>1 DEF UnaryResults
<1>3. ASSUME NEW op \in BinaryOps, NEW a \in KnownValue(n), NEW b \in KnownValue(n),
             NEW q \in BinaryResults(op, a, b)
      PROVE  Good(q)
  <2>1. \A c, d : DeepEqual(c, d) \subseteq BOOLEAN
    BY DEF DeepEqual
  <2>2. CASE op = "=="
    BY <1>1, <1>3, <2>1, <2>2 DEF BinaryResults
  <2>3. CASE op = "!="
    BY <1>1, <1>3, <2>1, <2>3 DEF BinaryResults
  <2>4. CASE op = "+"
    BY <1>1, <1>3, <2>4 DEF BinaryResults
  <2>5. CASE op = "arith"
    BY <1>1, <1>3, <2>5 DEF BinaryResults
  <2>6. CASE op = "compare"
    BY <1>1, <1>3, <2>6 DEF BinaryResults
  <2> QED BY <2>2, <2>3, <2>4, <2>5, <2>6 DEF BinaryOps
<1> QED BY <1>2, <1>3 DEF Good

-----------------------------------------------------------------------------
(* The stack.                                                               *)

\* A stack with a frame on top.
LEMMA PushProperties ==
  ASSUME NEW S, NEW f \in S, NEW s \in Seq(S)
  PROVE  /\ <<f>> \o s \in Seq(S)
         /\ Len(<<f>> \o s) = Len(s) + 1
         /\ (<<f>> \o s)[1] = f
         /\ \A i \in 1 .. Len(s) : (<<f>> \o s)[i + 1] = s[i]
         /\ <<f>> \o s # <<>>
<1> DEFINE t == <<f>> \o s
<1>1. <<f>> \in Seq(S) /\ Len(<<f>>) = 1 /\ <<f>>[1] = f
  OBVIOUS
<1>2. Len(s) \in Nat
  BY LenProperties
<1>3. /\ t \in Seq(S) /\ Len(t) = 1 + Len(s)
      /\ \A i \in 1 .. 1 + Len(s) : t[i] = IF i <= 1 THEN <<f>>[i] ELSE s[i - 1]
  BY <1>1, ConcatProperties
<1> HIDE DEF t
<1>4. t[1] = f /\ \A i \in 1 .. Len(s) : t[i + 1] = s[i]
  BY <1>1, <1>2, <1>3
<1>5. t # <<>>
  BY <1>2, <1>3, EmptySeq
<1> QED BY <1>2, <1>3, <1>4, <1>5 DEF t

\* A visitor is entered from one that waits for what it gives.
LEMMA PushKeepsNested ==
  ASSUME NEW n \in Nat, NEW s \in Seq(KnownFrame(n)), Nested(s),
         NEW f \in KnownFrame(n), Gives(f) = Awaited(s)
  PROVE  <<f>> \o s \in Seq(KnownFrame(n)) /\ Nested(<<f>> \o s)
<1> DEFINE t == <<f>> \o s
<1>1. /\ t \in Seq(KnownFrame(n))
      /\ Len(t) = Len(s) + 1 /\ t[1] = f
      /\ \A i \in 1 .. Len(s) : t[i + 1] = s[i]
  BY PushProperties
<1>2. Len(s) \in Nat /\ (s = <<>> <=> Len(s) = 0)
  BY LenProperties, EmptySeq
<1> HIDE DEF t
<1>3. ASSUME NEW i \in 1 .. Len(t)
      PROVE  Gives(t[i]) = IF i = Len(t) THEN "statement" ELSE Takes(t[i + 1])
  <2>1. CASE i = 1
    BY <1>1, <1>2, <2>1 DEF Awaited
  <2>2. CASE i # 1
    <3>1. i - 1 \in 1 .. Len(s) /\ t[i] = s[i - 1]
      <4>1. i - 1 \in 1 .. Len(s) /\ (i - 1) + 1 = i
        BY <1>1, <1>2, <2>2
      <4> QED BY <1>1, <4>1
    <3>2. i # Len(t) => t[i + 1] = s[i]
      BY <1>1, <1>2
    <3>3. Gives(s[i - 1]) = IF i - 1 = Len(s) THEN "statement" ELSE Takes(s[i])
      BY <3>1 DEF Nested
    <3> QED BY <1>1, <1>2, <3>1, <3>2, <3>3
  <2> QED BY <2>1, <2>2
<1> QED BY <1>1, <1>3 DEF Nested, t

\* What the top visitor gives is what the frame below waits for.
LEMMA PopKeepsNested ==
  ASSUME NEW n \in Nat, NEW s \in Seq(KnownFrame(n)), Nested(s), s # <<>>
  PROVE  /\ s[1] \in KnownFrame(n) /\ Head(s) = s[1]
         /\ Tail(s) \in Seq(KnownFrame(n)) /\ Nested(Tail(s))
         /\ Awaited(Tail(s)) = Gives(s[1])
<1> DEFINE t == Tail(s)
<1>1. Len(s) \in Nat /\ Len(s) >= 1
  BY LenProperties, EmptySeq
<1>2. s[1] \in KnownFrame(n) /\ Head(s) = s[1]
  BY <1>1, ElementOfSeq
<1>3. /\ t \in Seq(KnownFrame(n)) /\ Len(t) = Len(s) - 1
      /\ \A i \in 1 .. Len(t) : t[i] = s[i + 1]
  BY HeadTailProperties
<1>4. t = <<>> <=> Len(t) = 0
  BY <1>3, EmptySeq
<1> HIDE DEF t
<1>5. Nested(t)
  <2> SUFFICES ASSUME NEW i \in 1 .. Len(t)
               PROVE  Gives(t[i]) = IF i = Len(t) THEN "statement" ELSE Takes(t[i + 1])
    BY DEF Nested
  <2>1. i + 1 \in 1 .. Len(s)
    BY <1>1, <1>3
  <2>2. Gives(s[i + 1]) = IF i + 1 = Len(s) THEN "statement" ELSE Takes(s[i + 1 + 1])
    BY <2>1 DEF Nested
  <2>3. i # Len(t) => t[i + 1] = s[i + 1 + 1]
    BY <1>1, <1>3
  <2> QED BY <1>1, <1>3, <2>2, <2>3
<1>6. Awaited(t) = Gives(s[1])
  <2>1. Gives(s[1]) = IF 1 = Len(s) THEN "statement" ELSE Takes(s[2])
    <3>1. 1 \in 1 .. Len(s) /\ 1 + 1 = 2
      BY <1>1
    <3> QED BY <3>1 DEF Nested
  <2>2. t # <<>> => t[1] = s[2]
    BY <1>1, <1>3, <1>4
  <2> QED BY <1>1, <1>3, <1>4, <2>1, <2>2 DEF Awaited
<1> QED BY <1>2, <1>3, <1>5, <1>6 DEF t

-----------------------------------------------------------------------------
(* How control moves: the stack, mode and result after each of Enter,       *)
(* Resume, TailCall, Leave and Yield.                                       *)

LEMMA EnterControl ==
  ASSUME NEW n \in Nat, NEW s \in Seq(KnownFrame(n)), Nested(s),
         NEW f \in KnownFrame(n), Gives(f) = Awaited(s), NEW m, Suits(f, m)
  PROVE  Control(n, <<f>> \o s, m, Ok(Monostate))
<1> DEFINE t == <<f>> \o s
<1>1. t \in Seq(KnownFrame(n)) /\ Nested(t)
  BY PushKeepsNested
<1>2. t[1] = f /\ t # <<>>
  BY PushProperties
<1>3. Ok(Monostate) \in KnownResult(n)
  BY KnownResults, PlainValues
<1> HIDE DEF t
<1>4. Control(n, t, m, Ok(Monostate))
  BY <1>1, <1>2, <1>3 DEF Control, Suits, Modes, Awaited, Takes, StmtTags
<1> QED BY <1>4 DEF t

LEMMA ResumeControl ==
  ASSUME NEW n \in Nat, NEW s \in Seq(KnownFrame(n)), Nested(s), s # <<>>,
         NEW f \in KnownFrame(n), Gives(f) = Gives(s[1]), NEW m, Suits(f, m)
  PROVE  Control(n, <<f>> \o Tail(s), m, Ok(Monostate))
  BY PopKeepsNested, EnterControl

LEMMA TailCallControl ==
  ASSUME NEW n \in Nat, NEW s \in Seq(KnownFrame(n)), Nested(s), s # <<>>, NEW m,
         \/ m = "stmt" /\ Gives(s[1]) = "statement"
         \/ m = "eval" /\ Gives(s[1]) = "expression"
  PROVE  Control(n, Tail(s), m, Ok(Monostate))
<1>1. Tail(s) \in Seq(KnownFrame(n)) /\ Nested(Tail(s)) /\ Awaited(Tail(s)) = Gives(s[1])
  BY PopKeepsNested
<1>2. Ok(Monostate) \in KnownResult(n)
  BY KnownResults, PlainValues
<1> QED BY <1>1, <1>2 DEF Control, Modes

LEMMA YieldControl ==
  ASSUME NEW n \in Nat, NEW s \in Seq(KnownFrame(n)), Nested(s), NEW r \in KnownResult(n),
         IsReturning(r) => Awaited(s) = "statement"
  PROVE  Control(n, s, "ret", r)
  BY DEF Control, Modes

LEMMA LeaveControl ==
  ASSUME NEW n \in Nat, NEW s \in Seq(KnownFrame(n)), Nested(s), s # <<>>,
         NEW r \in KnownResult(n), IsReturning(r) => Gives(s[1]) = "statement"
  PROVE  Control(n, Tail(s), "ret", r)
  BY PopKeepsNested, YieldControl

\* The frames the visitors wait in.
LEMMA FrameIsKnown ==
  ASSUME NEW n \in Nat, n <= MaxEnvs, NEW tag \in StmtTags \cup ExprTags,
         NEW e \in IF tag \in {"Block", "Call"} THEN 1 .. n ELSE {NoEnv},
         NEW r \in KnownResult(n), ~ IsReturning(r),
         NEW args \in Seq(KnownValue(n))
  PROVE  [tag |-> tag, env |-> e, res |-> r, args |-> args] \in KnownFrame(n)
<1> DEFINE f == [tag |-> tag, env |-> e, res |-> r, args |-> args]
<1>1. e \in EnvIds \cup {NoEnv}
  BY MaxEnvsAssumption DEF EnvIds
<1>2. r \in Result
  BY DEF KnownResult
<1>3. args \in Seq(Value)
  BY SeqMonotonic DEF KnownValue
<1>4. f \in Frame
  BY <1>1, <1>2, <1>3 DEF Frame
<1> QED BY <1>4 DEF KnownFrame

LEMMA WaitingIsKnown ==
  ASSUME NEW n \in Nat, n <= MaxEnvs,
         NEW tag \in (StmtTags \cup ExprTags) \ {"Block", "Call"}
  PROVE  Waiting(tag) \in KnownFrame(n) /\ Waiting(tag).tag = tag
<1>1. Ok(Monostate) \in KnownResult(n) /\ ~ IsReturning(Ok(Monostate))
  BY KnownResults, PlainValues
<1>2. <<>> \in Seq(KnownValue(n))
  BY EmptySeq
<1> QED BY <1>1, <1>2, FrameIsKnown DEF Waiting

LEMMA SavingIsKnown ==
  ASSUME NEW n \in Nat, n <= MaxEnvs, NEW tag \in {"Block", "Call"}, NEW e \in 1 .. n
  PROVE  Saving(tag, e) \in KnownFrame(n) /\ Saving(tag, e).tag = tag
<1>1. Ok(Monostate) \in KnownResult(n) /\ ~ IsReturning(Ok(Monostate))
  BY KnownResults, PlainValues
<1>2. <<>> \in Seq(KnownValue(n))
  BY EmptySeq
<1>3. Saving(tag, e) = [tag |-> tag, env |-> e, res |-> Ok(Monostate), args |-> <<>>]
  BY DEF Saving, Waiting
<1>4. tag \in StmtTags \cup ExprTags
  BY DEF StmtTags
<1>5. Saving(tag, e) \in KnownFrame(n)
  BY <1>1, <1>2, <1>3, <1>4, FrameIsKnown
<1> QED BY <1>3, <1>5

LEMMA HoldingIsKnown ==
  ASSUME NEW n \in Nat, n <= MaxEnvs, NEW tag \in ExprTags,
         NEW r \in KnownResult(n), ~ IsReturning(r)
  PROVE  Holding(tag, r) \in KnownFrame(n) /\ Holding(tag, r).tag = tag
<1>1. Holding(tag, r) = [tag |-> tag, env |-> NoEnv, res |-> r, args |-> <<>>]
  BY DEF Holding, Waiting
<1>2. <<>> \in Seq(KnownValue(n))
  BY EmptySeq
<1>3. tag \in StmtTags \cup ExprTags /\ tag \notin {"Block", "Call"}
  BY DEF ExprTags
<1>4. Holding(tag, r) \in KnownFrame(n)
  BY <1>1, <1>2, <1>3, FrameIsKnown
<1> QED BY <1>1, <1>4

-----------------------------------------------------------------------------
(* What the steps have in common.                                           *)

LEMMA InvFacts ==
  ASSUME Inv
  PROVE  /\ HeapOK(envs) /\ Len(envs) \in Nat /\ Len(envs) <= MaxEnvs
         /\ env \in Allocated(envs) /\ env \in 1 .. Len(envs)
         /\ last_expr_res \in KnownValue(Len(envs))
         /\ returned \in KnownValue(Len(envs))
         /\ stack \in Seq(KnownFrame(Len(envs))) /\ Nested(stack)
         /\ res \in KnownResult(Len(envs)) /\ res.val \in KnownValue(Len(envs))
         /\ mode \in {"list", "stmt"} => Awaited(stack) = "statement"
         /\ mode = "eval" => Awaited(stack) = "expression"
         /\ mode = "args" => stack # <<>> /\ Top.tag = "Args"
         /\ stack # <<>> => /\ Top = stack[1] /\ Top \in KnownFrame(Len(envs))
                            /\ Awaited(stack) = Takes(Top)
<1>1. HeapOK(envs) /\ Len(envs) \in Nat /\ Len(envs) <= MaxEnvs
  BY LenProperties DEF Inv, HeapInv, HeapOK
<1>2. Control(Len(envs), stack, mode, res)
  BY DEF Inv, ControlInv
<1>3. stack # <<>> => Top = stack[1] /\ Top \in KnownFrame(Len(envs))
  BY <1>1, <1>2, PopKeepsNested DEF Control, Top
<1>4. /\ mode \in {"list", "stmt"} => Awaited(stack) = "statement"
      /\ mode = "eval" => Awaited(stack) = "expression"
      /\ mode = "args" => stack # <<>> /\ Top.tag = "Args"
  BY <1>2, <1>3 DEF Control, Awaited, Suits, Takes, StmtTags
<1> QED BY <1>1, <1>2, <1>3, <1>4 DEF Control, KnownResult, Inv, RegistersInv, Allocated, Awaited

\* A step that leaves the size of the heap alone.
LEMMA StepKeeps ==
  ASSUME Inv, HeapInv', Len(envs') = Len(envs), UNCHANGED global_env,
         env' \in Allocated(envs), mode' # "start",
         Control(Len(envs), stack', mode', res'),
         last_expr_res' \in KnownValue(Len(envs)), returned' \in KnownValue(Len(envs)),
         stmts_res' \in 0 .. MaxPrints,
         mode' = "ret" /\ IsReturning(res') => last_expr_res' = returned'
  PROVE  Inv'
  BY DEF Inv, RegistersInv, ControlInv, ReturnValueSurvives, Allocated

\* A step that changes nothing but the stack and the last result.
LEMMA QuietKeeps ==
  ASSUME Inv, UNCHANGED <<scopes, global_env, returned, stmts_res>>, mode' # "start",
         Control(Len(envs), stack', mode', res'),
         last_expr_res' \in KnownValue(Len(envs)),
         mode' = "ret" /\ IsReturning(res') => last_expr_res' = returned
  PROVE  Inv'
<1>1. HeapInv' /\ Len(envs') = Len(envs)
  BY DEF Inv, HeapInv, scopes
<1> QED BY <1>1, StepKeeps DEF Inv, RegistersInv, scopes

\* Declaring and assigning a value that the heap knows.
LEMMA HeapAfterAdd ==
  ASSUME HeapInv, NEW e \in Allocated(envs), NEW x \in Names, NEW v \in KnownValue(Len(envs)),
         envs' = AddTo(envs, e, x, v)
  PROVE  HeapInv' /\ Len(envs') = Len(envs)
<1>1. v \in Slot
  BY UnboundIsNoValue DEF KnownValue
<1>2. /\ HeapOK(envs') /\ Len(envs') = Len(envs)
      /\ \A d \in Allocated(envs), y \in Names :
           envs'[d].vars[y] = IF d = e /\ y = x THEN v ELSE envs[d].vars[y]
  BY <1>1, AddToProperties DEF HeapInv
<1> QED BY <1>2 DEF HeapInv, Allocated, HeapOK

\* A scope with known values in it is made inside another one.
LEMMA HeapAfterNewEnv ==
  ASSUME HeapInv, Len(envs) < MaxEnvs, NEW p \in Allocated(envs) \cup {NoEnv},
         NEW table \in [Names -> KnownValue(Len(envs)) \cup {Unbound}],
         envs' = NewEnv(envs, p, table)
  PROVE  HeapInv' /\ Len(envs') = Len(envs) + 1
<1>1. Len(envs) \in Nat
  BY LenProperties DEF HeapInv, HeapOK
<1>2. table \in [Names -> Slot]
  BY UnboundIsNoValue DEF KnownValue, Slot
<1>3. /\ HeapOK(envs') /\ Len(envs') = Len(envs) + 1
      /\ Allocated(envs') = Allocated(envs) \cup {Len(envs) + 1}
      /\ \A d \in Allocated(envs) : envs'[d] = envs[d]
      /\ envs'[Len(envs) + 1].vars = table
  BY <1>2, NewEnvProperties DEF HeapInv
<1>4. KnownValue(Len(envs)) \subseteq KnownValue(Len(envs) + 1)
  BY <1>1, KnownGrows
<1>5. \A e \in Allocated(envs'), x \in Names :
        envs'[e].vars[x] \in KnownValue(Len(envs')) \cup {Unbound}
  BY <1>3, <1>4 DEF HeapInv
<1> QED BY <1>1, <1>3, <1>5, MaxEnvsAssumption DEF HeapInv

\* A lookup answers with a value that the heap knows.
LEMMA GetIsKnown ==
  ASSUME HeapInv, NEW e \in Allocated(envs), NEW x \in Names
  PROVE  Get(envs, e, x) \in KnownValue(Len(envs))
<1>1. HeapOK(envs) /\ Len(envs) \in Nat
  BY LenProperties DEF HeapInv, HeapOK
<1>2. Monostate \in KnownValue(Len(envs))
  BY <1>1, PlainValues
<1>3. CASE BindingDepths(envs, e, x) = {}
  BY <1>1, <1>2, <1>3, FindProperties DEF Get
<1>4. CASE BindingDepths(envs, e, x) # {}
  <2>1. /\ Find(envs, e, x) \in Allocated(envs)
        /\ envs[Find(envs, e, x)].vars[x] \in Value
    BY <1>1, <1>4, FindProperties
  <2>2. envs[Find(envs, e, x)].vars[x] \in KnownValue(Len(envs))
    BY <2>1, UnboundIsNoValue DEF HeapInv
  <2> QED BY <1>2, <2>2 DEF Get
<1> QED BY <1>3, <1>4

\* The moves of control, in a state of the invariant.
LEMMA EnterStep ==
  ASSUME Inv, NEW tag \in (StmtTags \cup ExprTags) \ {"Block", "Call"}, NEW m,
         Enter(Waiting(tag), m), m # "start",
         Gives(Waiting(tag)) = Awaited(stack), Suits(Waiting(tag), m)
  PROVE  Control(Len(envs), stack', mode', res') /\ mode' # "start" /\ ~ IsReturning(res')
<1>1. Waiting(tag) \in KnownFrame(Len(envs))
  BY InvFacts, WaitingIsKnown
<1>2. Control(Len(envs), stack', mode', res')
  BY <1>1, InvFacts, EnterControl DEF Enter
<1> QED BY <1>2 DEF Enter, IsReturning, Ok

LEMMA ResumeStep ==
  ASSUME Inv, stack # <<>>, NEW f \in KnownFrame(Len(envs)), NEW m, Resume(f, m), m # "start",
         Gives(f) = Gives(Top), Suits(f, m)
  PROVE  Control(Len(envs), stack', mode', res') /\ mode' # "start" /\ ~ IsReturning(res')
<1>1. Control(Len(envs), stack', mode', res')
  BY InvFacts, ResumeControl DEF Resume
<1> QED BY <1>1 DEF Resume, IsReturning, Ok

LEMMA ResumeWaiting ==
  ASSUME Inv, stack # <<>>, NEW tag \in (StmtTags \cup ExprTags) \ {"Block", "Call"}, NEW m,
         Resume(Waiting(tag), m), m # "start",
         Gives(Waiting(tag)) = Gives(Top), Suits(Waiting(tag), m)
  PROVE  Control(Len(envs), stack', mode', res') /\ mode' # "start" /\ ~ IsReturning(res')
<1>1. Waiting(tag) \in KnownFrame(Len(envs))
  BY InvFacts, WaitingIsKnown
<1> QED BY <1>1, ResumeStep

LEMMA TailCallStep ==
  ASSUME Inv, stack # <<>>, NEW m, TailCall(m),
         \/ m = "stmt" /\ Gives(Top) = "statement"
         \/ m = "eval" /\ Gives(Top) = "expression"
  PROVE  Control(Len(envs), stack', mode', res') /\ mode' # "start" /\ ~ IsReturning(res')
<1>1. Control(Len(envs), stack', mode', res')
  BY InvFacts, TailCallControl DEF TailCall
<1> QED BY <1>1 DEF TailCall, IsReturning, Ok

LEMMA LeaveStep ==
  ASSUME Inv, stack # <<>>, NEW r \in KnownResult(Len(envs)), Leave(r),
         IsReturning(r) => Gives(Top) = "statement"
  PROVE  Control(Len(envs), stack', mode', res') /\ mode' # "start" /\ res' = r
<1>1. Control(Len(envs), stack', mode', res')
  BY InvFacts, LeaveControl DEF Leave
<1> QED BY <1>1 DEF Leave

LEMMA YieldStep ==
  ASSUME Inv, NEW r \in KnownResult(Len(envs)), Yield(r),
         IsReturning(r) => Awaited(stack) = "statement"
  PROVE  Control(Len(envs), stack', mode', res') /\ mode' # "start" /\ res' = r
<1>1. Control(Len(envs), stack', mode', res')
  BY InvFacts, YieldControl DEF Yield
<1> QED BY <1>1 DEF Yield

-----------------------------------------------------------------------------
(* interpret                                                                *)

LEMMA InterpretKeeps == Inv /\ Interpret => Inv'
<1> SUFFICES ASSUME Inv, Interpret PROVE Inv'
  OBVIOUS
<1> DEFINE n == Len(envs)
<1>1. /\ mode = "start" /\ mode' = "list" /\ stack = <<>> /\ stack' = <<>>
      /\ n = IF global_env = NoEnv THEN 1 ELSE 2
      /\ UNCHANGED <<last_expr_res, stmts_res, res, returned>>
  BY DEF Interpret, Inv, ControlInv, Control, RegistersInv
<1>2. CASE global_env # NoEnv
  <2>1. UNCHANGED <<envs, global_env, env>>
    BY <1>2 DEF Interpret
  <2>2. HeapInv' /\ Control(n, stack', mode', res')
    BY <1>1, <2>1 DEF Inv, HeapInv, ControlInv, Control, Modes
  <2> QED BY <1>1, <2>1, <2>2, StepKeeps DEF Inv, RegistersInv
<1>3. CASE global_env = NoEnv
  <2>1. /\ envs' = NewEnv(envs, NoEnv, NativeVars)
        /\ global_env' = n + 1 /\ env' = n + 1
    BY <1>3 DEF Interpret
  <2>2. n \in Nat /\ n < MaxEnvs
    BY <1>1, <1>3, InvFacts, BoundsAssumption, MaxEnvsAssumption
  <2>3. NativeVars \in [Names -> KnownValue(n) \cup {Unbound}]
    <3>1. Plain("native") \in KnownValue(n)
      BY <2>2, PlainValues DEF Kinds
    <3> QED BY <3>1 DEF NativeVars
  <2>4. HeapInv' /\ Len(envs') = n + 1
    BY <2>1, <2>2, <2>3, HeapAfterNewEnv DEF Inv
  <2>5. KnownValue(n) \subseteq KnownValue(n + 1) /\ KnownResult(n) \subseteq KnownResult(n + 1)
    BY <2>2, KnownGrows
  <2>6. RegistersInv'
    BY <1>1, <2>1, <2>2, <2>4, <2>5 DEF Inv, RegistersInv, Allocated
  <2>7. ControlInv'
    <3>1. res' \in KnownResult(n + 1) /\ stack' \in Seq(KnownFrame(n + 1))
      BY <1>1, <2>5, InvFacts, EmptySeq
    <3>2. Nested(stack')
      BY <1>1, InvFacts
    <3> QED BY <1>1, <2>4, <3>1, <3>2 DEF ControlInv, Control, Modes
  <2> QED BY <1>1, <2>4, <2>6, <2>7 DEF Inv, ReturnValueSurvives
<1> QED BY <1>2, <1>3

LEMMA ProgramKeeps == Inv /\ (EndProgram \/ AbortProgram \/ NextInList) => Inv'
<1> SUFFICES ASSUME Inv, EndProgram \/ AbortProgram \/ NextInList PROVE Inv'
  OBVIOUS
<1>1. UNCHANGED <<scopes, global_env, returned, stmts_res, stack>>
  BY DEF EndProgram, AbortProgram, NextInList
<1>2. CASE EndProgram
  <2>1. mode' = "done" /\ stack = <<>> /\ UNCHANGED <<res, last_expr_res>>
    BY <1>2 DEF EndProgram
  <2>2. Control(Len(envs), stack', mode', res')
    BY <1>1, <2>1 DEF Inv, ControlInv, Control, Modes
  <2> QED BY <1>1, <2>1, <2>2, InvFacts, QuietKeeps
<1>3. CASE AbortProgram
  <2>1. mode' = "done" /\ stack = <<>> /\ res' = res /\ last_expr_res' = Monostate
    BY <1>3 DEF AbortProgram
  <2>2. Control(Len(envs), stack', mode', res')
    BY <1>1, <2>1 DEF Inv, ControlInv, Control, Modes
  <2>3. Monostate \in KnownValue(Len(envs))
    BY InvFacts, PlainValues
  <2> QED BY <1>1, <2>1, <2>2, <2>3, QuietKeeps
<1>4. CASE NextInList
  <2>1. mode' = "list" /\ res' = Completed /\ last_expr_res' = last_expr_res
    BY <1>4 DEF NextInList
  <2>2. stack = <<>> \/ stack[1].tag \in {"Block", "Call"}
    BY <1>4, InvFacts DEF NextInList, TopIs
  <2>3. Completed \in KnownResult(Len(envs))
    BY InvFacts, KnownResults
  <2>4. Control(Len(envs), stack', mode', res')
    BY <1>1, <2>1, <2>2, <2>3, InvFacts DEF Control, Modes, Suits
  <2> QED BY <1>1, <2>1, <2>4, InvFacts, QuietKeeps
<1> QED BY <1>2, <1>3, <1>4

-----------------------------------------------------------------------------
(* Statements                                                               *)

LEMMA BeginStatementKeeps ==
  ASSUME Inv, NEW tag \in {"Variable", "Print", "Expression", "If", "WhileCond", "Return"},
         BeginStatement(tag)
  PROVE  Inv'
<1>1. mode \in {"list", "stmt"} /\ Enter(Waiting(tag), "eval")
  BY DEF BeginStatement, AnyStatement, InList, ForInitializer
<1>2. tag \in (StmtTags \cup ExprTags) \ {"Block", "Call"} /\ Waiting(tag).tag = tag
  BY DEF ExprTags, Waiting
<1>3. Gives(Waiting(tag)) = Awaited(stack) /\ Suits(Waiting(tag), "eval")
  BY <1>1, <1>2, InvFacts DEF Gives, Suits, Takes, ExprVisitors, StmtTags
<1>4. Control(Len(envs), stack', mode', res') /\ mode' # "start" /\ ~ IsReturning(res')
  BY <1>1, <1>2, <1>3, EnterStep
<1> QED BY <1>4, InvFacts, QuietKeeps DEF BeginStatement

\* A declaration gives its statement's result at once.
LEMMA DeclareNilKeeps == ASSUME Inv, NEW x \in Names, DeclareNil(x) PROVE Inv'
<1>1. /\ envs' = AddTo(envs, env, x, Nil) /\ Yield(Completed)
      /\ UNCHANGED <<global_env, returned, env, last_expr_res, stmts_res>>
  BY DEF DeclareNil
<1>2. Nil \in KnownValue(Len(envs)) /\ Completed \in KnownResult(Len(envs)) /\ ~ IsReturning(Completed)
  BY InvFacts, PlainValues, KnownResults
<1>3. HeapInv' /\ Len(envs') = Len(envs)
  BY <1>1, <1>2, InvFacts, HeapAfterAdd DEF Inv
<1>4. Control(Len(envs), stack', mode', res') /\ mode' # "start" /\ res' = Completed
  BY <1>1, <1>2, YieldStep
<1> QED BY <1>1, <1>2, <1>3, <1>4, InvFacts, StepKeeps DEF Inv, RegistersInv

LEMMA DeclareKeeps == ASSUME Inv, NEW x \in Names, Declare(x) PROVE Inv'
<1>1. /\ envs' = AddTo(envs, env, x, res.val) /\ Leave(Completed) /\ stack # <<>>
      /\ last_expr_res' = res.val
      /\ UNCHANGED <<global_env, returned, env, stmts_res>>
  BY DEF Declare, Evaluated, Returned, TopIs
<1>2. Completed \in KnownResult(Len(envs)) /\ ~ IsReturning(Completed)
  BY InvFacts, KnownResults
<1>3. HeapInv' /\ Len(envs') = Len(envs)
  BY <1>1, InvFacts, HeapAfterAdd DEF Inv
<1>4. Control(Len(envs), stack', mode', res') /\ mode' # "start" /\ res' = Completed
  BY <1>1, <1>2, LeaveStep
<1> QED BY <1>1, <1>2, <1>3, <1>4, InvFacts, StepKeeps DEF Inv, RegistersInv

LEMMA DeclareFunctionKeeps ==
  ASSUME Inv, NEW x \in Names, NEW params \in ParamLists, DeclareFunction(x, params)
  PROVE  Inv'
<1>1. /\ envs' = IF Empty(Get(envs, env, x)) THEN AddTo(envs, env, x, Fn(params, env)) ELSE envs
      /\ Yield(Completed)
      /\ UNCHANGED <<global_env, returned, env, last_expr_res, stmts_res>>
  BY DEF DeclareFunction
<1>2. Completed \in KnownResult(Len(envs)) /\ ~ IsReturning(Completed)
  BY InvFacts, KnownResults
<1>3. Fn(params, env) \in KnownValue(Len(envs))
  BY InvFacts, ParamListsAssumption, FnIsKnown
<1>4. HeapInv' /\ Len(envs') = Len(envs)
  <2>1. CASE envs' = envs
    BY <2>1 DEF Inv, HeapInv
  <2>2. CASE envs' # envs
    BY <1>1, <1>3, <2>2, InvFacts, HeapAfterAdd DEF Inv
  <2> QED BY <2>1, <2>2
<1>5. Control(Len(envs), stack', mode', res') /\ mode' # "start" /\ res' = Completed
  BY <1>1, <1>2, YieldStep
<1> QED BY <1>1, <1>2, <1>4, <1>5, InvFacts, StepKeeps DEF Inv, RegistersInv

LEMMA PrintAndExpressionKeep == Inv /\ (PrintValue \/ ExpressionDone) => Inv'
<1> SUFFICES ASSUME Inv, PrintValue \/ ExpressionDone PROVE Inv'
  OBVIOUS
<1>1. /\ Leave(Completed) /\ stack # <<>> /\ last_expr_res' = res.val
      /\ UNCHANGED <<scopes, global_env, returned>>
  BY DEF PrintValue, ExpressionDone, Evaluated, Returned, TopIs
<1>2. Completed \in KnownResult(Len(envs)) /\ ~ IsReturning(Completed)
  BY InvFacts, KnownResults
<1>3. Control(Len(envs), stack', mode', res') /\ mode' # "start" /\ res' = Completed
  BY <1>1, <1>2, LeaveStep
<1>4. stmts_res' \in 0 .. MaxPrints
  BY BoundsAssumption DEF PrintValue, ExpressionDone, Inv, RegistersInv
<1>5. HeapInv' /\ Len(envs') = Len(envs) /\ env' \in Allocated(envs)
  BY <1>1, InvFacts DEF Inv, HeapInv, scopes
<1> QED BY <1>1, <1>2, <1>3, <1>4, <1>5, InvFacts, StepKeeps DEF Inv

LEMMA BranchKeeps == Inv /\ Branch => Inv'
<1> SUFFICES ASSUME Inv, Branch PROVE Inv'
  OBVIOUS
<1>1. /\ stack # <<>> /\ Top.tag = "If" /\ last_expr_res' = res.val
      /\ TailCall("stmt") \/ Leave(Completed)
      /\ UNCHANGED <<scopes, global_env, returned, stmts_res>>
  BY DEF Branch, Evaluated, Returned, TopIs
<1>2. Completed \in KnownResult(Len(envs)) /\ ~ IsReturning(Completed)
  BY InvFacts, KnownResults
<1>3. Gives(Top) = "statement"
  BY <1>1 DEF Gives, ExprVisitors
<1>4. Control(Len(envs), stack', mode', res') /\ mode' # "start" /\ ~ IsReturning(res')
  BY <1>1, <1>2, <1>3, TailCallStep, LeaveStep
<1> QED BY <1>1, <1>4, InvFacts, QuietKeeps

\* The steps of a loop: on to its next part, or out of it.
LoopTags == {"WhileCond", "WhileBody", "ForInit", "ForCond", "ForBody", "ForIncr"}

LEMMA LoopStep ==
  ASSUME Inv, stack # <<>>, Top.tag \in LoopTags,
         UNCHANGED <<scopes, global_env, returned, stmts_res>>,
         last_expr_res' \in {last_expr_res, res.val},
         \/ \E tag \in {"WhileCond", "ForCond", "ForIncr"} : Resume(Waiting(tag), "eval")
         \/ \E tag \in {"WhileBody", "ForBody"} : Resume(Waiting(tag), "stmt")
         \/ Leave(Completed)
  PROVE  Inv'
<1>1. Gives(Top) = "statement"
  BY DEF Gives, ExprVisitors, LoopTags
<1>2. last_expr_res' \in KnownValue(Len(envs))
  BY InvFacts
<1>3. ASSUME NEW tag \in {"WhileCond", "ForCond", "ForIncr"}, Resume(Waiting(tag), "eval")
      PROVE  Control(Len(envs), stack', mode', res') /\ mode' # "start" /\ ~ IsReturning(res')
  <2>1. tag \in (StmtTags \cup ExprTags) \ {"Block", "Call"} /\ Waiting(tag).tag = tag
    BY DEF ExprTags, Waiting
  <2>2. Gives(Waiting(tag)) = "statement" /\ Suits(Waiting(tag), "eval")
    BY <2>1 DEF Gives, Suits, Takes, ExprVisitors, StmtTags
  <2> QED BY <1>1, <1>3, <2>1, <2>2, ResumeWaiting
<1>4. ASSUME NEW tag \in {"WhileBody", "ForBody"}, Resume(Waiting(tag), "stmt")
      PROVE  Control(Len(envs), stack', mode', res') /\ mode' # "start" /\ ~ IsReturning(res')
  <2>1. tag \in (StmtTags \cup ExprTags) \ {"Block", "Call"} /\ Waiting(tag).tag = tag
    BY DEF StmtTags, Waiting
  <2>2. Gives(Waiting(tag)) = "statement" /\ Suits(Waiting(tag), "stmt")
    BY <2>1 DEF Gives, Suits, Takes, ExprVisitors, StmtTags
  <2> QED BY <1>1, <1>4, <2>1, <2>2, ResumeWaiting
<1>5. ASSUME Leave(Completed)
      PROVE  Control(Len(envs), stack', mode', res') /\ mode' # "start" /\ ~ IsReturning(res')
  BY <1>5, InvFacts, KnownResults, LeaveStep
<1> QED BY <1>2, <1>3, <1>4, <1>5, QuietKeeps

LEMMA LoopsKeep ==
  ASSUME Inv, WhileTest \/ WhileAgain \/ ForStart \/ ForTest \/ ForStep \/ ForAgain
  PROVE  Inv'
<1>1. /\ stack # <<>> /\ Top.tag \in LoopTags
      /\ UNCHANGED <<scopes, global_env, returned, stmts_res>>
  BY DEF WhileTest, WhileAgain, ForStart, ForTest, ForStep, ForAgain, Evaluated, Returned,
         TopIs, LoopTags
<1>2. last_expr_res' \in {last_expr_res, res.val}
  BY DEF WhileTest, WhileAgain, ForStart, ForTest, ForStep, ForAgain, Evaluated
<1>3. \/ \E tag \in {"WhileCond", "ForCond", "ForIncr"} : Resume(Waiting(tag), "eval")
      \/ \E tag \in {"WhileBody", "ForBody"} : Resume(Waiting(tag), "stmt")
      \/ Leave(Completed)
  BY DEF WhileTest, WhileAgain, ForStart, ForTest, ForStep, ForAgain, ForIterate
<1> QED BY <1>1, <1>2, <1>3, LoopStep

LEMMA BeginForKeeps == Inv /\ BeginFor => Inv'
<1> SUFFICES ASSUME Inv, BeginFor PROVE Inv'
  OBVIOUS
<1>1. /\ mode \in {"list", "stmt"}
      /\ UNCHANGED <<scopes, global_env, returned, last_expr_res, stmts_res>>
  BY DEF BeginFor, AnyStatement
<1>2. PICK tag \in {"ForInit", "ForCond", "ForBody"} :
        Enter(Waiting(tag), IF tag = "ForCond" THEN "eval" ELSE "stmt")
  BY DEF BeginFor
<1>3. tag \in (StmtTags \cup ExprTags) \ {"Block", "Call"} /\ Waiting(tag).tag = tag
  BY DEF StmtTags, ExprTags, Waiting
<1>4. /\ Gives(Waiting(tag)) = Awaited(stack)
      /\ Suits(Waiting(tag), IF tag = "ForCond" THEN "eval" ELSE "stmt")
  BY <1>1, <1>3, InvFacts DEF Gives, Suits, Takes, ExprVisitors, StmtTags
<1>5. Control(Len(envs), stack', mode', res') /\ mode' # "start" /\ ~ IsReturning(res')
  BY <1>2, <1>3, <1>4, EnterStep
<1> QED BY <1>1, <1>5, InvFacts, QuietKeeps

\* A scope is entered: the stack is that of the smaller heap, with a frame on it
\* that restores the environment of before.
LEMMA ScopeEntered ==
  ASSUME Inv, Len(envs) < MaxEnvs, NEW tag \in {"Block", "Call"},
         NEW s \in Seq(KnownFrame(Len(envs))), Nested(s),
         Gives(Saving(tag, env)) = Awaited(s),
         stack' = <<Saving(tag, env)>> \o s, mode' = "list", res' = Ok(Monostate),
         NEW p \in Allocated(envs) \cup {NoEnv},
         NEW table \in [Names -> KnownValue(Len(envs)) \cup {Unbound}],
         envs' = NewEnv(envs, p, table), env' = Len(envs) + 1,
         UNCHANGED <<global_env, returned, last_expr_res, stmts_res>>
  PROVE  Inv'
<1> DEFINE n == Len(envs)
<1>1. n \in Nat /\ n + 1 <= MaxEnvs
  BY InvFacts, MaxEnvsAssumption
<1>2. HeapInv' /\ Len(envs') = n + 1
  BY HeapAfterNewEnv DEF Inv
<1>3. /\ KnownValue(n) \subseteq KnownValue(n + 1)
      /\ Seq(KnownFrame(n)) \subseteq Seq(KnownFrame(n + 1))
  BY <1>1, KnownGrows
<1>4. Saving(tag, env) \in KnownFrame(n + 1) /\ Saving(tag, env).tag = tag
  <2>1. env \in 1 .. n + 1
    BY <1>1, InvFacts
  <2> QED BY <1>1, <2>1, SavingIsKnown
<1>5. Control(n + 1, stack', mode', res')
  <2>1. Suits(Saving(tag, env), "list")
    BY <1>4 DEF Suits
  <2> QED BY <1>1, <1>3, <1>4, <2>1, EnterControl
<1>6. RegistersInv'
  BY <1>1, <1>2, <1>3, InvFacts DEF Inv, RegistersInv, Allocated
<1> QED BY <1>2, <1>5, <1>6 DEF Inv, ControlInv, ReturnValueSurvives

LEMMA BeginBlockKeeps == Inv /\ BeginBlock => Inv'
<1> SUFFICES ASSUME Inv, BeginBlock PROVE Inv'
  OBVIOUS
<1>1. /\ mode \in {"list", "stmt"} /\ Len(envs) < MaxEnvs
      /\ stack' = <<Saving("Block", env)>> \o stack /\ mode' = "list" /\ res' = Ok(Monostate)
      /\ envs' = NewEnv(envs, env, NoVars) /\ env' = Len(envs) + 1
      /\ UNCHANGED <<global_env, returned, last_expr_res, stmts_res>>
  BY DEF BeginBlock, AnyStatement, Enter
<1>2. Gives(Saving("Block", env)) = Awaited(stack)
  BY <1>1, InvFacts DEF Gives, ExprVisitors, Saving, Waiting
<1>3. NoVars \in [Names -> KnownValue(Len(envs)) \cup {Unbound}]
  BY DEF NoVars
<1> QED BY <1>1, <1>2, <1>3, InvFacts, ScopeEntered

\* A scope is left: the environment of before is current again.
LEMMA ScopeLeft ==
  ASSUME Inv, stack # <<>>, Top.tag \in {"Block", "Call"}, env' = Top.env,
         NEW r \in KnownResult(Len(envs)), Leave(r), IsReturning(r) => Top.tag = "Block" /\ res = r,
         mode = "ret" \/ ~ IsReturning(r),
         returned' \in {returned, Monostate}, IsReturning(r) => returned' = returned,
         UNCHANGED <<envs, global_env, last_expr_res, stmts_res>>
  PROVE  Inv'
<1>1. Top.env \in Allocated(envs)
  BY InvFacts DEF KnownFrame, Allocated
<1>2. Control(Len(envs), stack', mode', res') /\ mode' # "start" /\ res' = r
  BY LeaveStep DEF Gives, ExprVisitors
<1>3. HeapInv'
  BY DEF Inv, HeapInv
<1>4. returned' \in KnownValue(Len(envs))
  BY InvFacts, PlainValues
<1>5. IsReturning(r) => last_expr_res' = returned'
  BY DEF Inv, ReturnValueSurvives
<1> QED BY <1>1, <1>2, <1>3, <1>4, <1>5, InvFacts, StepKeeps DEF Inv, RegistersInv

LEMMA BlockEndsKeep == Inv /\ (EndBlock \/ BreakBlock) => Inv'
<1> SUFFICES ASSUME Inv, EndBlock \/ BreakBlock PROVE Inv'
  OBVIOUS
<1>1. /\ stack # <<>> /\ Top.tag = "Block" /\ env' = Top.env
      /\ UNCHANGED <<envs, global_env, returned, last_expr_res, stmts_res>>
  BY DEF EndBlock, BreakBlock, TopIs
<1>2. CASE EndBlock
  <2>1. Leave(Completed) /\ Completed \in KnownResult(Len(envs)) /\ ~ IsReturning(Completed)
    BY <1>2, InvFacts, KnownResults DEF EndBlock
  <2> QED BY <1>1, <2>1, ScopeLeft
<1>3. CASE BreakBlock
  <2>1. Leave(res) /\ mode = "ret"
    BY <1>3 DEF BreakBlock
  <2> QED BY <1>1, <2>1, InvFacts, ScopeLeft
<1> QED BY <1>2, <1>3

LEMMA RejectReturnKeeps == Inv /\ RejectReturn => Inv'
<1> SUFFICES ASSUME Inv, RejectReturn PROVE Inv'
  OBVIOUS
<1>1. /\ Yield(Failure("invalidArgument"))
      /\ UNCHANGED <<scopes, global_env, returned, last_expr_res, stmts_res>>
  BY DEF RejectReturn
<1>2. /\ Failure("invalidArgument") \in KnownResult(Len(envs))
      /\ ~ IsReturning(Failure("invalidArgument"))
  BY InvFacts, KnownResults DEF Codes
<1>3. Control(Len(envs), stack', mode', res') /\ mode' # "start" /\ ~ IsReturning(res')
  BY <1>1, <1>2, YieldStep
<1> QED BY <1>1, <1>3, InvFacts, QuietKeeps

\* A return begins to unwind where a statement's result is awaited, with its
\* value in last_expr_res.
LEMMA ReturnsKeep == Inv /\ (ReturnNil \/ ReturnValue) => Inv'
<1> SUFFICES ASSUME Inv, ReturnNil \/ ReturnValue PROVE Inv'
  OBVIOUS
<1>1. /\ last_expr_res' = returned'
      /\ UNCHANGED <<scopes, global_env, stmts_res>>
  BY DEF ReturnNil, ReturnValue, Evaluated
<1>2. returned' \in KnownValue(Len(envs))
  BY InvFacts, PlainValues DEF ReturnNil, ReturnValue
<1>3. Returning \in KnownResult(Len(envs))
  BY InvFacts, KnownResults
<1>4. Control(Len(envs), stack', mode', res') /\ mode' # "start"
  <2>1. CASE ReturnNil
    <3>1. Yield(Returning) /\ Awaited(stack) = "statement"
      BY <2>1, InvFacts DEF ReturnNil, AnyStatement
    <3> QED BY <1>3, <3>1, YieldStep
  <2>2. CASE ReturnValue
    <3>1. Leave(Returning) /\ stack # <<>> /\ Gives(Top) = "statement"
      BY <2>2 DEF ReturnValue, Evaluated, Returned, TopIs, Gives, ExprVisitors
    <3> QED BY <1>3, <3>1, LeaveStep
  <2> QED BY <2>1, <2>2
<1>5. HeapInv' /\ Len(envs') = Len(envs)
  BY <1>1 DEF Inv, HeapInv, scopes
<1> QED BY <1>1, <1>2, <1>4, <1>5, InvFacts, StepKeeps DEF Inv, RegistersInv, scopes

\* A failure passes through any visitor, a return only through those that wait
\* for a statement, and they give a statement's result too.
LEMMA PropagateKeeps == Inv /\ Propagate => Inv'
<1> SUFFICES ASSUME Inv, Propagate PROVE Inv'
  OBVIOUS
<1>1. /\ mode = "ret" /\ stack # <<>> /\ Top.tag \in Passing /\ Leave(res)
      /\ UNCHANGED <<scopes, global_env, returned, last_expr_res, stmts_res>>
  BY DEF Propagate
<1>2. IsReturning(res) => Gives(Top) = "statement"
  <2> SUFFICES ASSUME IsReturning(res) PROVE Gives(Top) = "statement"
    OBVIOUS
  <2>1. Takes(Top) = "statement"
    BY <1>1, InvFacts DEF Inv, ControlInv, Control
  <2>2. Top.tag \in StmtTags \ {"Call"}
    BY <1>1, <2>1 DEF Takes, Passing
  <2> QED BY <2>2 DEF Gives, ExprVisitors, StmtTags
<1>3. Control(Len(envs), stack', mode', res') /\ mode' # "start" /\ res' = res
  BY <1>1, <1>2, InvFacts, LeaveStep
<1>4. IsReturning(res) => last_expr_res = returned
  BY <1>1 DEF Inv, ReturnValueSurvives
<1> QED BY <1>1, <1>3, <1>4, InvFacts, QuietKeeps

LEMMA StatementKeeps == Inv /\ Statement => Inv'
<1> SUFFICES ASSUME Inv, Statement PROVE Inv'
  OBVIOUS
<1>1. ASSUME NEW tag \in {"Variable", "Print", "Expression", "If", "WhileCond"},
             BeginStatement(tag)
      PROVE  Inv'
  BY <1>1, BeginStatementKeeps
<1>2. CASE BeginReturn
  BY <1>2, BeginStatementKeeps DEF BeginReturn
<1> QED BY <1>1, <1>2, DeclareNilKeeps, DeclareKeeps, DeclareFunctionKeeps, PrintAndExpressionKeep,
           BranchKeeps, LoopsKeep, BeginForKeeps, BeginBlockKeeps, BlockEndsKeep,
           RejectReturnKeeps, ReturnsKeep, PropagateKeeps DEF Statement

-----------------------------------------------------------------------------
(* Expressions                                                              *)

LEMMA BeginExpressionKeeps ==
  ASSUME Inv, NEW tag \in Operators, BeginExpression(tag)
  PROVE  Inv'
<1>1. mode = "eval" /\ Enter(Waiting(tag), "eval")
  BY DEF BeginExpression
<1>2. tag \in (StmtTags \cup ExprTags) \ {"Block", "Call"} /\ Waiting(tag).tag = tag
  BY DEF ExprTags, Waiting, Operators
<1>3. Gives(Waiting(tag)) = Awaited(stack) /\ Suits(Waiting(tag), "eval")
  BY <1>1, <1>2, InvFacts DEF Gives, Suits, Takes, ExprVisitors, StmtTags, Operators
<1>4. Control(Len(envs), stack', mode', res') /\ mode' # "start" /\ ~ IsReturning(res')
  BY <1>1, <1>2, <1>3, EnterStep
<1> QED BY <1>4, InvFacts, QuietKeeps DEF BeginExpression

LEMMA LiteralKeeps == ASSUME Inv, NEW v \in Literals, Literal(v) PROVE Inv'
<1>1. Yield(Ok(v)) /\ UNCHANGED <<scopes, global_env, returned, last_expr_res, stmts_res>>
  BY DEF Literal
<1>2. Ok(v) \in KnownResult(Len(envs)) /\ ~ IsReturning(Ok(v))
  BY InvFacts, PlainValues, KnownResults
<1>3. Control(Len(envs), stack', mode', res') /\ mode' # "start" /\ ~ IsReturning(res')
  BY <1>1, <1>2, YieldStep
<1> QED BY <1>1, <1>3, InvFacts, QuietKeeps

LEMMA VariableKeeps == ASSUME Inv, NEW x \in Names, Variable(x) PROVE Inv'
<1> DEFINE r == IF Empty(Get(envs, env, x)) THEN Failure("notFound") ELSE Ok(Get(envs, env, x))
<1>1. Yield(r) /\ UNCHANGED <<scopes, global_env, returned, last_expr_res, stmts_res>>
  BY DEF Variable
<1>2. Get(envs, env, x) \in KnownValue(Len(envs))
  BY InvFacts, GetIsKnown DEF Inv
<1>3. r \in KnownResult(Len(envs)) /\ ~ IsReturning(r)
  BY <1>2, InvFacts, KnownResults DEF Codes
<1> HIDE DEF r
<1>4. Control(Len(envs), stack', mode', res') /\ mode' # "start" /\ ~ IsReturning(res')
  BY <1>1, <1>3, YieldStep
<1> QED BY <1>1, <1>4, InvFacts, QuietKeeps

\* An expression's visitor gives a result that is not the returning one.
LEMMA ExpressionLeaves ==
  ASSUME Inv, stack # <<>>, NEW r \in KnownResult(Len(envs)), ~ IsReturning(r), Leave(r),
         UNCHANGED <<scopes, global_env, returned, stmts_res>>,
         last_expr_res' \in {last_expr_res, res.val}
  PROVE  Inv'
<1>1. Control(Len(envs), stack', mode', res') /\ mode' # "start" /\ ~ IsReturning(res')
  BY LeaveStep
<1> QED BY <1>1, InvFacts, QuietKeeps

\* A visitor that waits for an expression is never handed a return.
LEMMA OperandNotReturning ==
  ASSUME Inv, mode = "ret", stack # <<>>, Top.tag \in ExprTags
  PROVE  ~ IsReturning(res)
  BY InvFacts DEF Inv, ControlInv, Control, Takes, StmtTags, ExprTags

LEMMA OperatorsKeep ==
  ASSUME Inv, Unary \/ \E op \in BinaryOps : Binary(op)
  PROVE  Inv'
<1>1. /\ mode = "ret" /\ stack # <<>> /\ Top.tag \in {"Unary", "BinaryRhs"}
      /\ UNCHANGED <<scopes, global_env, returned, last_expr_res, stmts_res>>
  BY DEF Unary, Binary, TopIs
<1>2. ~ IsReturning(res)
  BY <1>1, OperandNotReturning DEF ExprTags
<1>3. /\ Top.res \in KnownResult(Len(envs)) /\ ~ IsReturning(Top.res)
      /\ Top.res.val \in KnownValue(Len(envs))
  BY <1>1, InvFacts DEF KnownFrame, KnownResult
<1>4. PICK r \in KnownResult(Len(envs)) : ~ IsReturning(r) /\ Leave(r)
  <2>1. CASE Unary
    <3>1. PICK r \in UnaryResults(res) : Leave(r)
      BY <2>1 DEF Unary
    <3> QED BY <3>1, InvFacts, OperatorsAreKnown
  <2>2. ASSUME NEW op \in BinaryOps, Binary(op)
        PROVE  \E r \in KnownResult(Len(envs)) : ~ IsReturning(r) /\ Leave(r)
    <3>1. CASE Leave(Top.res)
      BY <1>3, <3>1
    <3>2. CASE Leave(res)
      BY <1>2, <3>2, InvFacts
    <3>3. CASE \E r \in BinaryResults(op, Top.res.val, res.val) : Leave(r)
      BY <1>3, <3>3, InvFacts, OperatorsAreKnown
    <3> QED BY <2>2, <3>1, <3>2, <3>3 DEF Binary
  <2> QED BY <2>1, <2>2
<1> QED BY <1>1, <1>4, ExpressionLeaves

LEMMA BinaryRightKeeps == Inv /\ BinaryRight => Inv'
<1> SUFFICES ASSUME Inv, BinaryRight PROVE Inv'
  OBVIOUS
<1>1. /\ mode = "ret" /\ stack # <<>> /\ Top.tag = "BinaryLhs"
      /\ Resume(Holding("BinaryRhs", res), "eval")
      /\ UNCHANGED <<scopes, global_env, returned, last_expr_res, stmts_res>>
  BY DEF BinaryRight, TopIs
<1>2. ~ IsReturning(res)
  BY <1>1, OperandNotReturning DEF ExprTags
<1>3. Holding("BinaryRhs", res) \in KnownFrame(Len(envs)) /\ Holding("BinaryRhs", res).tag = "BinaryRhs"
  BY <1>2, InvFacts, HoldingIsKnown DEF ExprTags
<1>4. Gives(Holding("BinaryRhs", res)) = Gives(Top) /\ Suits(Holding("BinaryRhs", res), "eval")
  BY <1>1, <1>3 DEF Gives, ExprVisitors, Suits, Takes, StmtTags
<1>5. Control(Len(envs), stack', mode', res') /\ mode' # "start" /\ ~ IsReturning(res')
  BY <1>1, <1>3, <1>4, ResumeStep
<1> QED BY <1>1, <1>5, InvFacts, QuietKeeps

LEMMA LogicalKeeps == Inv /\ Logical => Inv'
<1> SUFFICES ASSUME Inv, Logical PROVE Inv'
  OBVIOUS
<1> DEFINE r == Ok(IF IsTrue(res.val) THEN res.val ELSE Boolean(FALSE))
<1>1. /\ stack # <<>> /\ Top.tag = "Logical"
      /\ Leave(r) \/ TailCall("eval")
      /\ UNCHANGED <<scopes, global_env, returned, last_expr_res, stmts_res>>
  BY DEF Logical, Returned, TopIs
<1>2. r \in KnownResult(Len(envs)) /\ ~ IsReturning(r)
  BY InvFacts, PlainValues, KnownResults
<1> HIDE DEF r
<1>3. CASE Leave(r)
  BY <1>1, <1>2, <1>3, ExpressionLeaves
<1>4. CASE TailCall("eval")
  <2>1. Gives(Top) = "expression"
    BY <1>1 DEF Gives, ExprVisitors
  <2>2. Control(Len(envs), stack', mode', res') /\ mode' # "start" /\ ~ IsReturning(res')
    BY <1>1, <1>4, <2>1, TailCallStep
  <2> QED BY <1>1, <2>2, InvFacts, QuietKeeps
<1> QED BY <1>1, <1>3, <1>4

LEMMA AssignKeeps == ASSUME Inv, NEW x \in Names, Assign(x) PROVE Inv'
<1>1. /\ stack # <<>> /\ last_expr_res' = res.val
      /\ UNCHANGED <<global_env, returned, env, stmts_res>>
  BY DEF Assign, Evaluated, Returned, TopIs
<1>2. CASE Find(envs, env, x) = NoEnv
  <2>1. Leave(Failure("notFound")) /\ UNCHANGED envs
    BY <1>2 DEF Assign
  <2>2. Failure("notFound") \in KnownResult(Len(envs)) /\ ~ IsReturning(Failure("notFound"))
    BY InvFacts, KnownResults DEF Codes
  <2> QED BY <1>1, <2>1, <2>2, ExpressionLeaves DEF scopes
<1>3. CASE Find(envs, env, x) # NoEnv
  <2>1. Leave(Ok(res.val)) /\ envs' = AddTo(envs, Find(envs, env, x), x, res.val)
    BY <1>3 DEF Assign, ReassignIn, AddTo
  <2>2. Find(envs, env, x) \in Allocated(envs)
    BY <1>3, InvFacts, FindProperties
  <2>3. HeapInv' /\ Len(envs') = Len(envs)
    BY <2>1, <2>2, InvFacts, HeapAfterAdd DEF Inv
  <2>4. Ok(res.val) \in KnownResult(Len(envs)) /\ ~ IsReturning(Ok(res.val))
    BY InvFacts, KnownResults
  <2>5. Control(Len(envs), stack', mode', res') /\ mode' # "start" /\ ~ IsReturning(res')
    BY <1>1, <2>1, <2>4, LeaveStep
  <2> QED BY <1>1, <2>3, <2>5, InvFacts, StepKeeps DEF Inv, RegistersInv
<1> QED BY <1>2, <1>3

LEMMA CalleeKnownKeeps == Inv /\ CalleeKnown => Inv'
<1> SUFFICES ASSUME Inv, CalleeKnown PROVE Inv'
  OBVIOUS
<1>1. /\ mode = "ret" /\ stack # <<>> /\ Top.tag = "Callee" /\ IsOk(res)
      /\ last_expr_res' = res.val
      /\ UNCHANGED <<scopes, global_env, returned, stmts_res>>
      /\ Resume(Holding("Args", res), "args") \/ Leave(Failure("notFound"))
  BY DEF CalleeKnown, Evaluated, Returned, TopIs
<1>2. CASE Leave(Failure("notFound"))
  <2>1. Failure("notFound") \in KnownResult(Len(envs)) /\ ~ IsReturning(Failure("notFound"))
    BY InvFacts, KnownResults DEF Codes
  <2> QED BY <1>1, <1>2, <2>1, ExpressionLeaves
<1>3. CASE Resume(Holding("Args", res), "args")
  <2>1. ~ IsReturning(res)
    BY <1>1 DEF IsOk, IsReturning
  <2>2. Holding("Args", res) \in KnownFrame(Len(envs)) /\ Holding("Args", res).tag = "Args"
    BY <2>1, InvFacts, HoldingIsKnown DEF ExprTags
  <2>3. Gives(Holding("Args", res)) = Gives(Top) /\ Suits(Holding("Args", res), "args")
    BY <1>1, <2>2 DEF Gives, ExprVisitors, Suits
  <2>4. Control(Len(envs), stack', mode', res') /\ mode' # "start" /\ ~ IsReturning(res')
    BY <1>1, <1>3, <2>2, <2>3, ResumeStep
  <2> QED BY <1>1, <2>4, InvFacts, QuietKeeps
<1> QED BY <1>1, <1>2, <1>3

LEMMA NextArgumentKeeps == Inv /\ NextArgument => Inv'
<1> SUFFICES ASSUME Inv, NextArgument PROVE Inv'
  OBVIOUS
<1>1. /\ mode = "args" /\ mode' = "eval"
      /\ UNCHANGED <<scopes, global_env, returned, last_expr_res, stmts_res, stack, res>>
  BY DEF NextArgument
<1>2. Awaited(stack) = "expression"
  BY <1>1, InvFacts DEF Takes, StmtTags
<1>3. Control(Len(envs), stack', mode', res')
  BY <1>1, <1>2, InvFacts DEF Control, Modes
<1> QED BY <1>1, <1>3, InvFacts, QuietKeeps

LEMMA ArgumentKnownKeeps == Inv /\ ArgumentKnown => Inv'
<1> SUFFICES ASSUME Inv, ArgumentKnown PROVE Inv'
  OBVIOUS
<1> DEFINE f == [Top EXCEPT !.args = Append(@, res.val)]
<1>1. /\ stack # <<>> /\ Top.tag = "Args" /\ last_expr_res' = res.val
      /\ Resume(f, "args")
      /\ UNCHANGED <<scopes, global_env, returned, stmts_res>>
  BY DEF ArgumentKnown, Evaluated, Returned, TopIs
<1>2. f \in KnownFrame(Len(envs)) /\ f.tag = "Args"
  <2>1. Top \in KnownFrame(Len(envs)) /\ Top \in Frame /\ Top.args \in Seq(KnownValue(Len(envs)))
    BY <1>1, InvFacts DEF KnownFrame
  <2>2. Append(Top.args, res.val) \in Seq(KnownValue(Len(envs)))
    BY <2>1, InvFacts, AppendProperties
  <2>3. Append(Top.args, res.val) \in Seq(Value)
    BY <2>2, SeqMonotonic DEF KnownValue
  <2>4. f \in Frame /\ f.tag = "Args" /\ f.env = Top.env /\ f.res = Top.res
        /\ f.args = Append(Top.args, res.val)
    BY <1>1, <2>1, <2>3 DEF Frame
  <2> HIDE DEF f
  <2> QED BY <1>1, <2>1, <2>2, <2>4 DEF KnownFrame
<1> HIDE DEF f
<1>3. Gives(f) = Gives(Top) /\ Suits(f, "args")
  BY <1>1, <1>2 DEF Gives, Suits
<1>4. Control(Len(envs), stack', mode', res') /\ mode' # "start" /\ ~ IsReturning(res')
  BY <1>1, <1>2, <1>3, ResumeStep
<1> QED BY <1>1, <1>4, InvFacts, QuietKeeps

LEMMA RejectArgumentsKeeps == Inv /\ RejectArguments => Inv'
<1> SUFFICES ASSUME Inv, RejectArguments PROVE Inv'
  OBVIOUS
<1>1. /\ mode = "args"
      /\ \/ Leave(Failure("invalidArgument"))
         \/ mode' = "crashed" /\ UNCHANGED <<stack, res>>
      /\ UNCHANGED <<scopes, global_env, returned, last_expr_res, stmts_res>>
  BY DEF RejectArguments
<1>2. /\ Failure("invalidArgument") \in KnownResult(Len(envs))
      /\ ~ IsReturning(Failure("invalidArgument"))
  BY InvFacts, KnownResults DEF Codes
<1>3. CASE Leave(Failure("invalidArgument"))
  BY <1>1, <1>2, <1>3, InvFacts, ExpressionLeaves
<1>4. CASE mode' = "crashed" /\ UNCHANGED <<stack, res>>
  <2>1. Control(Len(envs), stack', mode', res')
    BY <1>4, InvFacts DEF Control, Modes
  <2> QED BY <1>1, <1>4, <2>1, InvFacts, QuietKeeps
<1> QED BY <1>1, <1>3, <1>4

LEMMA ExpressionKeeps == Inv /\ Expression => Inv'
  BY BeginExpressionKeeps, LiteralKeeps, VariableKeeps, AssignKeeps, OperatorsKeep,
     BinaryRightKeeps, LogicalKeeps, CalleeKnownKeeps, NextArgumentKeeps, ArgumentKnownKeeps,
     RejectArgumentsKeeps DEF Expression

-----------------------------------------------------------------------------
(* Calls                                                                    *)

\* The scope of a call binds its parameters to known values.
LEMMA ParametersAreKnown ==
  ASSUME NEW n \in Nat, NEW params \in Seq(Names), NEW args \in Seq(KnownValue(n)),
         Len(args) = Len(params)
  PROVE  Parameters(params, args) \in [Names -> KnownValue(n) \cup {Unbound}]
<1> SUFFICES ASSUME NEW x \in Names
             PROVE  Parameters(params, args)[x] \in KnownValue(n) \cup {Unbound}
  BY DEF Parameters
<1> DEFINE at == {i \in 1 .. Len(params) : params[i] = x}
           k == CHOOSE i \in at : \A j \in at : j <= i
<1>1. Parameters(params, args)[x] = IF at = {} THEN Unbound ELSE args[k]
  BY DEF Parameters
<1>2. CASE at = {}
  BY <1>1, <1>2
<1>3. CASE at # {}
  <2>1. Len(params) \in Nat /\ at \subseteq 1 .. Len(params)
    BY LenProperties
  <2> HIDE DEF at
  <2>2. \E i \in at : \A j \in at : j <= i
    BY <1>3, <2>1, GreatestExists
  <2>3. k \in at
    BY <2>2
  <2> HIDE DEF k
  <2>4. args[k] \in KnownValue(n)
    BY <2>1, <2>3, ElementOfSeq
  <2> QED BY <1>1, <1>3, <2>4
<1> QED BY <1>2, <1>3

LEMMA CallNativeKeeps == Inv /\ CallNative => Inv'
<1> SUFFICES ASSUME Inv, CallNative PROVE Inv'
  OBVIOUS
<1>1. /\ mode = "args"
      /\ UNCHANGED <<scopes, global_env, returned, last_expr_res, stmts_res>>
  BY DEF CallNative
<1>2. PICK v \in {Plain("num"), Boolean(TRUE)} : Leave(Ok(v))
  BY DEF CallNative
<1>3. Ok(v) \in KnownResult(Len(envs)) /\ ~ IsReturning(Ok(v))
  BY InvFacts, PlainValues, KnownResults DEF Kinds
<1> QED BY <1>1, <1>2, <1>3, InvFacts, ExpressionLeaves

LEMMA CallFunctionKeeps == Inv /\ CallFunction => Inv'
<1> SUFFICES ASSUME Inv, CallFunction PROVE Inv'
  OBVIOUS
<1> DEFINE n == Len(envs)
           fn == Top.res.val
<1>1. /\ mode = "args" /\ stack # <<>> /\ Top.tag = "Args" /\ n < MaxEnvs
      /\ fn.kind = "fn" /\ Len(Top.args) = Len(fn.params)
      /\ envs' = NewEnv(envs, fn.env, Parameters(fn.params, Top.args)) /\ env' = n + 1
      /\ Resume(Saving("Call", env), "list")
      /\ UNCHANGED <<global_env, returned, last_expr_res, stmts_res>>
  BY InvFacts DEF CallFunction, Arity
<1>2. Top \in KnownFrame(n)
  BY <1>1, InvFacts
<1>3. fn \in KnownValue(n) /\ Top.args \in Seq(KnownValue(n))
  BY <1>2 DEF KnownFrame, KnownResult
<1>4. fn.env \in Allocated(envs) \cup {NoEnv} /\ fn.params \in Seq(Names)
  BY <1>1, <1>3 DEF KnownValue, Value, Allocated
<1>5. Parameters(fn.params, Top.args) \in [Names -> KnownValue(n) \cup {Unbound}]
  BY <1>1, <1>3, <1>4, InvFacts, ParametersAreKnown
<1>6. /\ Tail(stack) \in Seq(KnownFrame(n)) /\ Nested(Tail(stack))
      /\ Awaited(Tail(stack)) = Gives(Top)
  BY <1>1, InvFacts, PopKeepsNested
<1>7. Gives(Saving("Call", env)) = Awaited(Tail(stack))
  BY <1>1, <1>6 DEF Gives, ExprVisitors, Saving, Waiting
<1>8. stack' = <<Saving("Call", env)>> \o Tail(stack) /\ mode' = "list" /\ res' = Ok(Monostate)
  BY <1>1 DEF Resume
<1> HIDE DEF n, fn
<1> QED BY <1>1, <1>4, <1>5, <1>6, <1>7, <1>8, ScopeEntered DEF n

LEMMA CallEndsKeep == Inv /\ (EndCall \/ FailCall) => Inv'
<1> SUFFICES ASSUME Inv, EndCall \/ FailCall PROVE Inv'
  OBVIOUS
<1>1. /\ mode = "ret" /\ stack # <<>> /\ Top.tag = "Call" /\ env' = Top.env
      /\ returned' \in {returned, Monostate}
      /\ UNCHANGED <<envs, global_env, last_expr_res, stmts_res>>
  BY DEF EndCall, FailCall, TopIs
<1>2. CASE EndCall
  <2>1. Leave(Ok(last_expr_res))
    BY <1>2 DEF EndCall
  <2>2. Ok(last_expr_res) \in KnownResult(Len(envs)) /\ ~ IsReturning(Ok(last_expr_res))
    BY InvFacts, KnownResults
  <2> QED BY <1>1, <2>1, <2>2, ScopeLeft
<1>3. CASE FailCall
  <2>1. Leave(res) /\ ~ IsReturning(res)
    BY <1>3 DEF FailCall, IsError, IsReturning
  <2> QED BY <1>1, <2>1, InvFacts, ScopeLeft
<1> QED BY <1>2, <1>3

LEMMA FallOffCallKeeps == Inv /\ FallOffCall => Inv'
<1> SUFFICES ASSUME Inv, FallOffCall PROVE Inv'
  OBVIOUS
<1>1. /\ stack # <<>> /\ Leave(Ok(Nil))
      /\ UNCHANGED <<scopes, global_env, returned, last_expr_res, stmts_res>>
  BY DEF FallOffCall, TopIs
<1>2. Ok(Nil) \in KnownResult(Len(envs)) /\ ~ IsReturning(Ok(Nil))
  BY InvFacts, PlainValues, KnownResults
<1> QED BY <1>1, <1>2, ExpressionLeaves

-----------------------------------------------------------------------------
(* The theorems.                                                            *)

LEMMA InvInit == Init => Inv
<1> SUFFICES ASSUME Init PROVE Inv
  OBVIOUS
<1> DEFINE Natural == NewEnv(<<>>, NoEnv, NativeVars)
<1>0. PICK first \in BOOLEAN :
        /\ envs = NewEnv(IF first THEN <<>> ELSE Natural, NoEnv, NoVars)
        /\ global_env = IF first THEN NoEnv ELSE 1
  BY DEF Init
<1> DEFINE before == IF first THEN <<>> ELSE Natural
<1>1. /\ envs = NewEnv(before, NoEnv, NoVars)
      /\ global_env = (IF first THEN NoEnv ELSE 1) /\ env = Len(envs)
      /\ last_expr_res = Monostate /\ stmts_res = 0 /\ stack = <<>> /\ mode = "start"
      /\ res = Completed /\ returned = Monostate
  BY <1>0 DEF Init
<1>2. HeapOK(<<>>) /\ Len(<<>>) = 0 /\ 0 < MaxEnvs /\ 1 < MaxEnvs
  BY EmptySeq, BoundsAssumption, MaxEnvsAssumption DEF HeapOK, Allocated
<1>3. /\ NativeVars \in [Names -> KnownValue(0) \cup {Unbound}]
      /\ NoVars \in [Names -> KnownValue(0) \cup {Unbound}]
      /\ KnownValue(0) \cup {Unbound} \subseteq Slot
  <2>1. Plain("native") \in KnownValue(0)
    BY PlainValues DEF Kinds
  <2> QED BY <2>1, UnboundIsNoValue DEF NativeVars, NoVars, KnownValue
<1>4. /\ HeapOK(Natural) /\ Len(Natural) = 1 /\ Allocated(Natural) = Allocated(<<>>) \cup {1}
      /\ Natural[1].vars = NativeVars
  <2>1. NativeVars \in [Names -> Slot] /\ NoEnv \in Allocated(<<>>) \cup {NoEnv}
    BY <1>3
  <2>2. LET fs == NewEnv(<<>>, NoEnv, NativeVars)
        IN  /\ HeapOK(fs) /\ Len(fs) = Len(<<>>) + 1
            /\ Allocated(fs) = Allocated(<<>>) \cup {Len(<<>>) + 1}
            /\ fs[Len(<<>>) + 1].vars = NativeVars
    BY <1>2, <2>1, NewEnvProperties
  <2> QED BY <1>2, <2>2
<1> HIDE DEF Natural
<1>5. /\ HeapOK(before) /\ Len(before) = (IF first THEN 0 ELSE 1)
      /\ \A e \in Allocated(before) : before[e].vars = NativeVars
  <2>1. CASE first
    <3>1. before = <<>>
      BY <2>1
    <3> QED BY <1>2, <2>1, <3>1 DEF Allocated
  <2>2. CASE ~ first
    <3>1. before = Natural
      BY <2>2
    <3>2. \A e \in Allocated(before) : e = 1
      BY <1>4, <3>1 DEF Allocated
    <3> HIDE DEF before
    <3>3. HeapOK(before) /\ Len(before) = 1
      BY <1>4, <3>1
    <3>4. \A e \in Allocated(before) : before[e].vars = NativeVars
      BY <1>4, <3>1, <3>2
    <3> QED BY <2>2, <3>3, <3>4
  <2> QED BY <2>1, <2>2
<1> HIDE DEF before
<1>6. /\ HeapOK(envs) /\ Len(envs) = Len(before) + 1
      /\ Allocated(envs) = Allocated(before) \cup {Len(before) + 1}
      /\ \A e \in Allocated(before) : envs[e] = before[e]
      /\ envs[Len(before) + 1].vars = NoVars
  <2>1. NoVars \in [Names -> Slot] /\ NoEnv \in Allocated(before) \cup {NoEnv}
    BY <1>3
  <2>2. Len(before) < MaxEnvs
    BY <1>2, <1>5
  <2>3. envs = NewEnv(before, NoEnv, NoVars) /\ HeapOK(before)
    BY <1>1, <1>5
  <2> QED BY <2>1, <2>2, <2>3, NewEnvProperties
<1>7. Len(envs) = (IF first THEN 1 ELSE 2) /\ Len(envs) \in Nat /\ Len(envs) <= MaxEnvs
  BY <1>2, <1>5, <1>6, BoundsAssumption, MaxEnvsAssumption
<1>8. KnownValue(0) \subseteq KnownValue(Len(envs))
  BY <1>7, KnownGrows
<1>9. HeapInv
  BY <1>3, <1>5, <1>6, <1>7, <1>8 DEF HeapInv
<1>10. Monostate \in KnownValue(Len(envs)) /\ Completed \in KnownResult(Len(envs))
       /\ ~ IsReturning(Completed)
  BY <1>7, PlainValues, KnownResults
<1>11. RegistersInv
  <2>1. Len(envs) = IF global_env = NoEnv THEN 1 ELSE 2
    BY <1>1, <1>7 DEF NoEnv
  <2>2. env \in Allocated(envs) /\ global_env \in Allocated(envs) \cup {NoEnv}
    BY <1>1, <1>7 DEF Allocated
  <2> QED BY <1>1, <1>10, <2>1, <2>2, BoundsAssumption DEF RegistersInv
<1>12. ControlInv
  <2>1. stack \in Seq(KnownFrame(Len(envs))) /\ Len(stack) = 0
    BY <1>1, EmptySeq
  <2>2. Nested(stack)
    BY <2>1 DEF Nested
  <2> QED BY <1>1, <1>10, <2>1, <2>2 DEF ControlInv, Control, Modes
<1> QED BY <1>1, <1>9, <1>11, <1>12 DEF Inv, ReturnValueSurvives

LEMMA InvInductive == Inv /\ [Next]_vars => Inv'
<1> SUFFICES ASSUME Inv, [Next]_vars PROVE Inv'
  OBVIOUS
<1>1. CASE UNCHANGED vars
  BY <1>1 DEF vars, Inv, HeapInv, RegistersInv, ControlInv, ReturnValueSurvives
<1>2. CASE Program
  BY <1>2, InterpretKeeps, ProgramKeeps DEF Program
<1>3. CASE Statement
  BY <1>3, StatementKeeps
<1>4. CASE Expression
  BY <1>4, ExpressionKeeps
<1>5. CASE Call
  BY <1>5, CallNativeKeeps, CallFunctionKeeps, CallEndsKeep DEF Call
<1>6. CASE Finished
  BY <1>1, <1>6 DEF Finished
<1>7. CASE FallOffCall
  BY <1>7, FallOffCallKeeps
<1> QED BY <1>1, <1>2, <1>3, <1>4, <1>5, <1>6, <1>7 DEF Next, NextReturning

LEMMA InvHolds == Spec => []Inv
  BY InvInit, InvInductive, PTL DEF Spec

\* The machine is well typed: among the rest, whatever is restored at the end of
\* a block or call is an environment.
THEOREM TypeCorrect == Spec => []TypeOK
<1>1. Inv => TypeOK
  <2> SUFFICES ASSUME Inv PROVE TypeOK
    OBVIOUS
  <2>1. /\ HeapInv /\ Len(envs) \in Nat /\ Allocated(envs) \subseteq EnvIds
    BY InvFacts, MaxEnvsAssumption DEF Inv, Allocated, EnvIds
  <2>2. EnvTypeOK
    BY <2>1 DEF EnvTypeOK, HeapInv, HeapOK
  <2>3. stack \in Seq(Frame)
    <3>1. KnownFrame(Len(envs)) \subseteq Frame
      BY DEF KnownFrame
    <3> QED BY <3>1, InvFacts, SeqMonotonic
  <2>4. mode \in Modes /\ res \in Result
    BY DEF Inv, ControlInv, Control, KnownResult
  <2>5. last_expr_res \in Value /\ returned \in Value
    BY InvFacts DEF KnownValue
  <2>6. env \in EnvIds /\ global_env \in EnvIds \cup {NoEnv} /\ stmts_res \in 0 .. MaxPrints
    BY <2>1 DEF Inv, RegistersInv
  <2> QED BY <2>2, <2>3, <2>4, <2>5, <2>6 DEF TypeOK
<1> QED BY <1>1, InvHolds, PTL

\* kReturning stays among statements: no operator, argument list, condition or
\* assignment ever takes it for the result of its operand (is the claim behind
\* StatusOr::value(), which lets kReturning through).
THEOREM ReturnStays == Spec => []ReturnStaysInStatements
<1>1. Inv => ReturnStaysInStatements
  <2> SUFFICES ASSUME Inv, mode = "ret", IsReturning(res), stack # <<>>
               PROVE  Top.tag \in StmtTags
    BY DEF ReturnStaysInStatements
  <2>1. Awaited(stack) = "statement" /\ Awaited(stack) = Takes(Top)
    BY InvFacts DEF Inv, ControlInv, Control
  <2> QED BY <2>1 DEF Takes
<1> QED BY <1>1, InvHolds, PTL

\* The value of a return statement is still in last_expr_res when the call it
\* ends reads it there, however many blocks and loops it leaves.
THEOREM ReturnValueArrives == Spec => []ReturnValueSurvives
<1>1. Inv => ReturnValueSurvives
  BY DEF Inv
<1> QED BY <1>1, InvHolds, PTL
=============================================================================
