-------------------------------- MODULE Values --------------------------------
(***************************************************************************)
(* The values a Lox program computes (driver/include/Evaluatable.hpp), the  *)
(* variant that holds one (driver/include/details/IVisitor.hpp) and the     *)
(* StatusOr every visitor returns it in                                     *)
(* (shared/include/net/ancillarycat/utils/Status.hpp).                      *)
(*                                                                         *)
(* Numbers and strings are abstracted to one value of each kind: an         *)
(* operation whose outcome depends on which number or string it gets is a   *)
(* set of outcomes.  Functions keep what calling them depends on: their     *)
(* parameters and the environment they close over.  A function's body is    *)
(* left open (Interpreter chooses its statements as they are reached).      *)
(***************************************************************************)
EXTENDS Integers, Sequences

CONSTANTS
  Names,     \* the identifiers a program uses
  MaxEnvs    \* bound: how many environments an execution allocates

ASSUME MaxEnvsAssumption == MaxEnvs \in Nat

EnvIds == 1 .. MaxEnvs
NoEnv == 0        \* a null env_ptr_t

-----------------------------------------------------------------------------
Kinds == {"monostate", "true", "false", "nil", "num", "str", "native", "fn"}

Value == [kind : Kinds, params : Seq(Names), env : EnvIds \cup {NoEnv}]

Plain(k) == [kind |-> k, params |-> <<>>, env |-> NoEnv]
Monostate == Plain("monostate")
Nil == Plain("nil")
Boolean(b) == IF b THEN Plain("true") ELSE Plain("false")
Fn(params, env) == [kind |-> "fn", params |-> params, env |-> env]

\* Variant::empty
Empty(v) == v.kind = "monostate"

\* holds_alternative<Callable>
IsCallable(v) == v.kind \in {"native", "fn"}

\* Callable::arity; both natives are created with no parameter
Arity(v) == Len(v.params)

\* Variant::index: the alternative held, whatever its content
Index(v) == CASE v.kind \in {"true", "false"} -> "Boolean"
              [] IsCallable(v)                -> "Callable"
              [] OTHER                        -> v.kind

\* interpreter::is_true_value: nil and false are false, all else is true
IsTrue(v) == v.kind \notin {"nil", "false"}

\* interpreter::is_deep_equal: the answers possible for values of these kinds;
\* two callables are never equal, not even to themselves
DeepEqual(a, b) ==
  CASE Index(a) # Index(b)       -> {FALSE}
    [] a.kind = "nil"            -> {TRUE}
    [] Index(a) = "Boolean"      -> {a.kind = b.kind}
    [] a.kind \in {"num", "str"} -> BOOLEAN
    [] OTHER                     -> {FALSE}

-----------------------------------------------------------------------------
\* Status::Code, the codes an interpreter's visitor can return
Codes == {"ok", "returning", "notFound", "invalidArgument"}

Result == [code : Codes, val : Value]

Ok(v) == [code |-> "ok", val |-> v]
\* a Status converted to a StatusOr: its value is default constructed
Failure(c) == [code |-> c, val |-> Monostate]
\* a Stmt's accept() returns a Status, so the value visit(Return) puts beside the
\* code is lost on its way to the caller of execute()
Returning == Failure("returning")

\* Status::ok; kReturning is not an error, and not ok either
IsOk(r) == r.code = "ok"
IsReturning(r) == r.code = "returning"
IsError(r) == r.code \in {"notFound", "invalidArgument"}

-----------------------------------------------------------------------------
\* expression::Unary once its operand is known: neither operator looks at the
\* operand's status, and value() of a failed one is Monostate
UnaryResults(operand) ==
  {IF operand.val.kind = "num" THEN Ok(Plain("num")) ELSE Failure("invalidArgument"),
   Ok(Boolean(~ IsTrue(operand.val)))}

\* "arith" stands for - / *, "compare" for < <= > >=
BinaryOps == {"==", "!=", "+", "arith", "compare"}

\* expression::Binary once both operands are known and ok
BinaryResults(op, lhs, rhs) ==
  CASE op = "==" -> {Ok(Boolean(b)) : b \in DeepEqual(lhs, rhs)}
    [] op = "!=" -> {Ok(Boolean(~ b)) : b \in DeepEqual(lhs, rhs)}
    [] /\ op = "+"
       /\ lhs.kind = rhs.kind
       /\ lhs.kind \in {"num", "str"} -> {Ok(lhs)}
    [] /\ op = "arith"
       /\ lhs.kind = "num"
       /\ rhs.kind = "num" -> {Ok(lhs)}
    [] /\ op = "compare"
       /\ lhs.kind = "num"
       /\ rhs.kind = "num" -> {Ok(Boolean(b)) : b \in BOOLEAN}
    [] OTHER -> {Failure("invalidArgument")}
=============================================================================
