# Verification of the Lox interpreter

TLA+ models of this repository's Lox implementation, the TLC configurations that
check them on small instances, and theorems about them that TLAPS checks for
every value of their constants. Line numbers are those of the files under `src/`.

## 1. The system

One process, one thread, no persistence: a command line goes through
`loxo_main`, which runs up to three stages on one source file and turns their
results into an exit code. What makes it hard is not concurrency but state that
outlives the step that set it (scopes, `last_expr_res`, the process-wide global
environment), results that travel as codes beside values, and cursors at the end
of what they read.

| Component | State | Operations | Talks to |
|---|---|---|---|
| driver (`shared/loxo_driver.cpp`, `shared/execution_context.hpp`, `tools/lox_interpreter.cpp`) | `ExecutionContext`: commands, input files, the three stages, two streams | `inspectArgs`, `loxo_main`, `tokenize`, `parse`, `evaluate`, `interpret` | calls every stage in turn, reads their results |
| lexer (`driver/src/lexer.cpp`) | contents, `head`, `cursor`, `current_line`, tokens, `error_count` | `load` (two), `lex`, `next_token` and its branches | its tokens are viewed by the parser |
| tokens (`Token`, `TokenType`) | kind, lexeme, literal, line | formatting | made by the lexer, copied into trees |
| parser (`driver/src/parser.cpp`) | a view of the tokens, a cursor, the C++ stack, `stmts`, `expr_head` | `parse` with two policies, one function per rule, `synchronize` | reads tokens, makes the trees that the interpreter visits |
| interpreter (`driver/src/interpreter.cpp`, `Callable` in `Evaluatable.cpp`) | current `env`, `last_expr_res`, `stmts_res`, the C++ stack | `interpret`, `evaluate`, one visitor per node, `Callable::call` | reads and extends environments; functions call back into it |
| environment (`Environment.cpp`, `ScopeAssoc.cpp`) | a table of names, a parent; the process's `global_env` | constructors, `add`, `reassign`, `get`, `find`, `getGlobalEnvironment` | shared by blocks, calls and closures |
| values (`Evaluatable.hpp`, `Variant.hpp`) | a variant; a `Callable` has its parameters and environment | truth, equality, operators | results of visitors |
| status (`Status.hpp`) | a code, a message, in `StatusOr` a value too | construction, `ok`, `value`, slicing | every result |
| ASTPrinter (and `to_string` in `expression.cpp`) | the text written | `evaluate`: a tree as text | visits what the parser made, for the `parse` command |
| Resolver, utilities, tests | - | a stub; files, formatting, macros | - |

What is hard, and what makes each component correct:

- **Environment.** Closures share scopes, so a write must be seen by exactly
  those whose lookup reaches the binding written, a declaration by exactly those
  inside its scope that nothing nearer hides it from; chains must end.
- **Interpreter.** Each block and call replaces `env` and must put the old one
  back on three ways out (end, return, error), while nested calls do the same.
  A return travels as a `Status` without its value, through any nesting of
  blocks and loops, and its value waits in `last_expr_res`, which every
  evaluation overwrites. `Monostate` means "undefined", "no value" and "nothing
  yet" at once. Whether a return is at top level is decided by comparing
  environments. Correct: scopes are restored, a return delivers its value and
  nothing runs on the way, the returning status never gets into an expression,
  an error ends the program, no defined name is bound to `Monostate`.
- **Parser.** The cursor at the end of file, loops that must take a token or
  end, errors that must name the right token, one function per level of
  precedence. Correct: it accepts what the grammar derives, builds the tree that
  precedence asks for from exactly those tokens, and always returns.
- **Lexer.** Two characters of lookahead at the end of the contents, lines
  counted in two places, errors that only a counter tells of, `load` and `lex`
  called again. Correct: no character is lost, each token is as long as it can
  be, lines and errors are counted right, and `lex` returns.
- **Driver.** Each stage runs on what the one before it left, whether or not
  that one succeeded, or is there. Correct: a failure is reported once and told
  by the code; a rejected token is in no program, an accepted program is the
  whole file, every command ends.
- **ASTPrinter.** Most nodes are written in prefix form, a logical one infix, two
  not at all. Correct: the text tells the tree, and the process survives it.

`PROJECT.json` lists the components, and under `hazards` each of these at its line.

## 2. The modules

| Module | Models |
|---|---|
| `Values` | kinds of values, truth, equality, status codes, results, operators |
| `Environment` | the heap of environments and the operations on it, as operators |
| `EnvironmentClient` | a client that calls those operations in any order |
| `Interpreter` | every visitor, `interpret`, `Callable::call` |
| `ScopeDiscipline` | abstract: what each visit promises about the current scope: a block or call puts back the one it found, any other leaves it |
| `InterpreterScopes` | the refinement mapping from `Interpreter` to it |
| `Parser` | the cursor, the recursive descent, `synchronize` |
| `TreeRules` | what the README's grammar asks of the nodes that `Parser` makes |
| `GrammarRules` | the README's grammar, and what the tokens accepted and their tree have to do with it |
| `Lexer` | `load`, `lex`, `next_token` |
| `LexicalRules` | the README's lexical rules, and what tokens have to do with them |
| `Printer` | what `parse` writes of a tree, and which trees it cannot write |
| `Driver` | abstract: `loxo_main`, with what each stage may make of what it is given |
| `Pipeline` | `loxo_main` over the lexer and parser themselves |
| `MCEnvironment`, `MCInterpreter`, `MCParser`, `MCLexer`, `MCPipeline` | instances for TLC, and the recursive operators, which only TLC can use |
| `EnvironmentLemmas`, `EnvironmentProofs`, `InterpreterProofs`, `ScopeProofs`, `ParserProofs`, `GrammarProofs`, `LexerProofs`, `PipelineProofs` | the theorems |

`Interpreter` composes with `Environment` by EXTENDS: it uses the same operators
as the client does, under the control of a program. `Pipeline` EXTENDS `Driver`
and has an INSTANCE of `Lexer` and of `Parser`, whose variables are its own: the
driver's calls are their actions, the lexer's tokens are the parser's views. It
implements `Driver` (the property `ImplementsDriver`), so that what `Driver` says
of the stages is proved and not assumed. What a tree cannot do is said by two
constant operators of it: `CanPrint`, whether `parse` can write it, and `MayThrow`,
whether running it may throw; `MCPipeline` gives them `Printer`'s recursive
`Printable` and `CallsUnprintable`. `TreeRules` has `Open` in the same way, which
`MCParser` gives the recursive `StatementOpen`.

`ScopeDiscipline` says what nested visits do to the current scope. `saved` has for
each visit under way the scope to go back to, or `None` if it opened none: a
visit begins (`Visit`) or begins with a scope of its own (`Open`), a call opens
its scope later, when its arguments are known (`Open` too), and a visit ends
(`Leave`) or ends and puts the saved scope back (`Close`). `InterpreterScopes`
maps the interpreter's `stack` to `saved`.

### How they correspond to the code

**Environment.** The heap is the sequence of environments made so far, and a
pointer is an index into it. In place of the parent pointer an environment
carries its whole chain of ids: parents never change, so the chain is the path
that `find`'s recursion walks, and lookup needs no recursion. `FindIsRecursion`
says that it finds what that recursion does, and is proved. `Unbound` is a name the
table does not have.

**Interpreter.** The C++ stack is the variable `stack`: one frame for each
visitor that waits for the result of one it called, named for the visitor and
the place it waits in (`BinaryRhs`, `ForIncr`). `mode` says what the innermost
visitor does: begin a statement or an expression, take a result, evaluate
arguments. An action is the code between two calls of other visitors, all of
it: the assignment to `last_expr_res` that `evaluate` makes before it returns is
part of the action that takes the result.

The program is not a constant. When a statement or expression is to be visited, any
that the grammar allows in that position may come, with any name and operator. So a
callee is not kept as a tree, and whether the message of a call with the wrong
number of arguments can show it is a choice (`RejectArguments`): `mode` may become
"crashed" there. So a run has the executions of every program whose nesting stays in
the bounds. A loop's body may differ from one turn to the next, which only adds
executions.

**Parser.** In the same way the tokens are not fixed: the one under the cursor is
chosen when the cursor gets to it, `read` being those before it. Nothing in the
code looks further ahead. `todo` is the C++ stack: what the functions entered
still have to do, the innermost first, an item for each statement of theirs (a
call, a loop, a token that must come next, a node to make). `built` holds the
nodes made and not yet part of another. A parser is "new" until `SetViews` gives
it its tokens, by families that say which kinds may come at each position. The
tables `Body`, `Chooses`, `Ops` are
the bodies of the functions; the actions are what a kind of statement does.
`GrammarRules` compares the result with the README's grammar, which is recursive:
`DerivesBy` and `YieldOf` are one step of the two recursions, and what they define,
`Derives` and `Yield`, are constant operators. `MCParser` gives them the recursive
`FormDerives` and `NodeYield`, the theorems take any that satisfy the equations.

**Lexer.** A character stands for all that the lexer treats alike, and a token
records where its lexeme is. One step is one `next_token`. A number with many
digits before or after its dot may or may not be in the range of `long double`.

**Printer.** A text is a sequence of words, `Text` what the `to_string_impl` of
each node makes of its parts. A name or number is one word. A string is written
without its quotes (Token.cpp:191-195), so it is whatever words it holds, brackets
among them, and `Text` takes these as a parameter: the text of `"(== a b)"` is that
of `"a" == "b"`. `TextTellsTree` therefore says what can be said: a text reads as
its tree, with each string read as the tree that it spells. Nothing is claimed of
strings that spell none, such as `"a b"`.

**Driver and Pipeline.** In `Driver` a stage's outcomes are choices, and `lexer`
says what tokens there are. In `Pipeline` each of `tokenize`'s and `parse`'s
calls is an action that takes a step of the lexer or parser; `Views` turns the
lexer's tokens into the kinds that the parser looks at, and `Policy` is `parse`'s
choice between an expression and a program. The interpreter remains `Driver`'s
`Run`: which of its outcomes a program has depends on values that no text here
is long enough to compute. That `parse` cannot write a tree is `Driver`'s choice
and is decided in `Pipeline` by the tree (`CanPrint`). That a running program throws
is too: `Pipeline` lets it throw only if a call in its tree has a callee that cannot
be written (`MayThrow`), and then it may, depending on whether that call is reached
and fails.

### Common abstractions

- Builds without `AC_CPP_DEBUG`, in which `contract_assert` is empty. The
  assertions are stated as properties where they can fail.
- Numbers and strings are values of one kind each: no property is about
  arithmetic or text. An operation of two numbers has one result of its kind, a
  comparison either Boolean.
- Which token an error names is a position, and its message is left out.
- What `synchronize` skips is told apart only as a semicolon or not.
- `\v` and `\f` are one character, "vt" in `Lexer`. They count as line breaks
  between tokens but not in strings or comments, and `LinesCounted` says so.
- The heap never frees: `shared_ptr` counts are not modelled.

## 3. The runs

All bounds are CONSTANTS named in the modules. Times are for two workers.

| Run | Shows | States |
|---|---|---|
| `environment` | lookup is the code's recursion; who sees a write is who should | 4.5 k |
| `scopes` | calls, blocks, variables: scopes stay rooted in the program's globals, a return is accepted in a function and delivers its value, no name is bound to `Monostate`, a later interpreter leaves the first one's globals alone | 1.6 M |
| `control` | loops, branches, operators: a failure or return runs nothing on its way out, the returning status never leaves statements, an error ends the program | 272 k |
| `discipline` | without fall-off calls, `Interpreter` implements `ScopeDiscipline` | 1.5 M |
| `parser` | accepted, rejected and shaped as the grammar says, lists at their limit, an else at the nearest if, declarations only where `Interpreter` expects them, the text of a tree has no other reading, and `parse` returns | 422 k |
| `lexer` | nothing lost, longest match, lines and errors counted, `load` and `lex` in any order | 790 k |
| `pipeline` | the stages together implement `Driver`; exit codes and reports; no rejected token is parsed, an interpreted program is the whole file, errors name a token of the file, which commands on which texts crash, reading them or running them, and every command ends | 648 k |

Each takes between a second and a minute and a half. Five further runs have a
violation to show (section 4).

**Why the bounds suffice.** *Environment*: three environments and two names have a
chain of three, a fork, and a shadowed and an unshadowed name. *Interpreter*: `Init`
chooses whether the interpreter is the first of its process. Each run takes only the
forms (`Forms`) that its properties are about. In `scopes` and `discipline` a stack
of four frames holds a call in an argument of a call, or a return in a block in a
call in an expression; the environments are the interpreter's own, the globals and
two or three scopes. In `control` three frames hold a loop or an operand in a call,
or a call in a loop in an operand; what its properties ask of a step depends on the
top frame, and the theorem `ReturnStays` has no bound. `MaxEnvs` is at least 2, as
the constructor's environment and the globals need. `stmts_res` is counted up to
`MaxPrints`, as only whether it grows is asked. *Parser*: the constant `Sources` is
a set of families, each saying which kinds of token may come at each position.
`Expressions` has six tokens, enough for an assignment in an operand or an
unfinished bracket, and `Chains` every row of three operators between names;
`Programs` has the seven tokens of a loop over a block or an if with its else;
`Arguments` and `Parameters` reach both sides of `MaxList` (255 in the code);
`ForLoops` every choice of a for's parts; `Branches` has ifs whose then branch is an
if, or has one at the end of a while, of a for or of another if's else, and six more
tokens for the branches and elses that follow. What follows a family's last position
is the end of file, and nothing follows that. *Lexer*: the constant `Sources` is a
set of texts, in `MCLexer` those of at most five characters over one of four
alphabets. Five characters hold a comment after a number, a string over two lines,
and every pair of neighbouring tokens; `MaxDigits` is within reach. *Pipeline*: no,
one and two files. Its texts are all rows of three pieces (a piece is a word, a
number, a number out of range, an open string, a wrong character, a space, a line
break, a comment, or one of five marks), rows of five over the pieces of a sum,
functions cut off after each part of their head, right and wrong, and calls of
names, of calls and of what is in brackets: 5800 texts with every outcome of each
stage under every command.

**Fairness.** The program has one thread, and nothing it calls waits: once begun,
`interpret`, `parse` and `lex` go on until they return. So weak fairness of what
they do next is all that is assumed (`FairSpec`). That `lex` returns is part of
`CommandEnds`: its loop is a step of the pipeline. `FairPipeline` assumes fairness of
`PipelineStep`, all that loxo_main does next; only `LoadFile` is left out, since
`FailLoad` is enabled wherever it is and stands for it: a load ends in one of the
two. A Lox program may loop forever: `ErrorEndsProgram` is about errors, not
about every program, and `CommandEnds` is about the stages, an interpreted
program being one step.

**Deadlock** is checked but for `Lexer`, whose client stops after `MaxCalls`
calls. `Interpreter`, `Parser` and `Pipeline` have a step for having ended; the
bounds of `Interpreter` only guard the beginning of something more: a call can
still be rejected for its arguments (`MaxArgs` is at least 1), and a statement
list can always end.

**Mutants.** `MutantX`, defined before `X`, is a plausible bug of `X`. With
it in place of `X`, the property it is listed with in `PROJECT.json` fails.

## 4. Where the code and its own words disagree

| Run | The code | What is said |
|---|---|---|
| `toplevel` | `{ return 1; }` outside any function is not rejected: the environment compared is not the global one (interpreter.cpp:272) | "Cannot return from top-level code." |
| `operandok` | `-x` and `!x` take the value of an operand that failed (interpreter.cpp:320) | `value()`: `contract_assert(self.ok() or ...)` |
| `natives` | a second interpreter of a process has no natives (interpreter.cpp:33) | a test that calls `clock` after another test did |
| `gets` | `fun` at the end of a file takes a token past the last (parser.cpp:429) | `contract_assert(cursor < tokens.end())` |
| `notokens` | a file that does not exist: `run` exits with 0 (loxo_driver.cpp:156) | `set_views`: "tokens must have at least 1 token" |

Eight more of this kind have no run: the models follow the code, and the
properties allow for it by name where they have to.

- `fun 1() {}` is a program (parser.cpp:283), while the grammar says
  `function -> IDENTIFIER ...`; `Grammar` in `GrammarRules` takes any token there.
- Of a wrong parameter or assignment target (parser.cpp:226, 78) it is a later token
  that the error names, though the comment in `synchronize` (parser.cpp:427) has the
  cursor at the error token; `Parameter`, `ThrowParameter` and `Target` do the same.
- A backtick may be in an identifier (lexer.cpp:290), while the grammar says
  `[a-zA-Z_] + [a-zA-Z0-9_]*`; `IsWord` in `LexicalRules` allows it.
- With two files no lexer is made and a null one is used (loxo_driver.cpp:67);
  `inspectArgs` only logs "currently only one file is supported.". `Driver` has it
  as a crash.
- `fun ?() {}` is a program too, although the lexer has rejected the `?` and the
  parser is written as if it never saw such a token: `ErrorsNotParsed` excepts the
  name of a function, which nobody looks at, and a parameter.
- `parse` of `a = 1`, of `f()` and of any expression with one of these in it ends in
  an uncaught `std::logic_error` (expression.cpp:61 and 83, `TODO`), while the
  README's `interpreter.exe parse <source>` makes no such exception;
  `ReadingCrashesKnown` names them. (A logical expression is written with its token
  in full, as `(a OR or null b)`.)
- `run` of a call with the wrong number of arguments ends in the same uncaught
  exception if there is a call or an assignment in the callee, as in
  `fun o(){} (o=o)(o);`: the message writes the callee (interpreter.cpp:476-487),
  though it is returned as an `InvalidArgument` for `loxo_main` to report.
  `RunningCrashesKnown` says which programs can come to that.
- Of an empty file `get_statements` is called on no statements
  (loxo_driver.cpp:114), against its assertion, which is empty in these builds.

Three more that no text contradicts, and which the models follow: a function body
that ends without `return` leaves the callee's scope current (Evaluatable.cpp:325,
`FallOffCall`), which is why `ScopeDiscipline` is implemented only without it;
a function with the name of anything visible is silently not declared
(interpreter.cpp:200, `DeclareFunction`; the code has a FIXME there); and `parse`
writes a string without its quotes (Token.cpp:191-195, `Text`), so that its text
does not always tell the tree.

## 5. What is proved

For every `Names`, `Natives`, `Literals`, `ParamLists`, `Forms`, `Sources` and every
bound, from the assumptions the modules name. (`MaxEnvs`, `MaxDepth` and `MaxArgs`
are arbitrary, so the theorems hold of programs of any size, and those about
`Lexer` and `Pipeline` of texts of any length.)

**Environments** (`EnvironmentProofs`, from lemmas about `NewEnv`, `AddTo`,
`ReassignIn`, `Find` and `Get` in `EnvironmentLemmas`). The inductive invariant
is `EnvTypeOK /\ ScopesWellFormed`: an environment's chain begins with itself,
goes to ever older ones and its tail is its parent's chain. Types alone are not
inductive: that a lookup stays in the heap needs the chains to. From it follow
`EnvTypeCorrect`, `ScopesStayWellFormed`, and, step by step, `AssignmentsAreShared`
and `DeclarationsAreLocal`: those need that the innermost binding exists, is
unique, and does not move when another name is written.
`LookupIsRecursion` says that looking along the chain is `find`'s recursion through
the parents. It is an induction on the length of a chain, done without the
library's induction theorems: if the two differ anywhere there is a shortest chain
where they do, and its parent's is shorter.

**Interpreter** (`InterpreterProofs`). The inductive invariant `Inv` adds to the
heap's a grammar of the stack: above which frames a statement may be visited and
above which an expression. It gives `TypeCorrect`, and `ReturnStays`, since
a returning status is made only by a statement and the grammar says that what
waits for a statement is one, up to the call that turns it into a value.
`ReturnValueArrives` needs that nothing is evaluated while a return unwinds: the
invariant ties the history variable `returned` to `last_expr_res` in that mode.

**Calls** (`ScopeProofs`). `ReturnsAreAccepted`: with a `Call` frame on the stack,
`env` is an environment made after the globals, whatever earlier calls left.
The invariant says so of `env`, of each environment a frame will restore above
the outermost call, and of every function's environment.

**Discipline** (`ScopeProofs`). `DisciplineIsObeyed`: `SpecNoFallOff` implements
`ScopeDiscipline`. Each action is shown to be one of six moves of stack and scope
(`Moves`): nothing, a frame that saves nothing pushed or replaced, a frame popped
with what it saved, a block opened, or a call's frame exchanged for one that saves.
That a scope opened is in nobody's use, as `Open` wants, comes from the
invariant: a new environment's number is above all in the heap, and every frame's
is in it (`NewScopeIsFresh`).

**Scopes and values** (`ScopeProofs`). `UnwindingIsSilent` follows from the steps
alone: of what may take a result that is not ok only a few actions are left. Also of
`Unary` and `BinaryLhs`, which look at an operand too late, it says what they do, to
visit the right operand or to make a value of the failure, and that they do no more.
`ScopesShareRoot`, `DefinedIsFound` and `LaterInterpretersLeaveGlobal` need
`KeptInv`: once `interpret` has begun, every environment but number 1 leads out to
number 2, and nothing held - the current scope, a frame, an argument, a binding, a
result - is number 1 or closes over it; and whatever is bound, or on its way to
being bound, is not `Monostate`. The last needs the values in flight: an argument is
bound many steps after it was evaluated, and the value of a return passes through
`last_expr_res`. Each action is shown to do one of four things to the stack and one
of four to the scopes (`Keeps`), and these to keep the invariant. Number 1 is the
constructor's environment, or the global one of an earlier interpreter: a lookup
goes down a strictly decreasing chain that ends in 2, so it never gets to 1.

**Lexer: places** (`LexerProofs`). `LexerTypeCorrect`, `TokensStayInOrder` and
`ErrorsHaveTokens`, for texts of any length and any number of calls. The argument
is that `NextToken` takes at least one character whatever it begins with, and
counts no more lines than it takes characters (`NextTokenTakes`). It rests on
`RunEnd` being defined wherever it is used (`RunEndInside`), which needs that a set
of positions has a least element. Types are not inductive: that a line number
stays in the text needs `CountsInReach`, that there are no more lines and errors
than characters taken, and that a token's place does needs the cursor's order.

**Lexer: texts** (`LexerProofs`). `NothingIsLost`, `TokensAreLongest` and
`LinesAreCounted`: the tokens against the lexical rules, which know nothing of how
the lexer goes about it. `NextTokenPasses` says what one `next_token` passes: one
token that is what its type says and as long as it can be (`Proper`), one space
or break, a whole comment, or a number out of range. The longest match is shown of
each kind of token from what `RunEnd` stops at. The inductive invariant
`TextInv` joins the three properties to those of the places, and needs two more:
`CommentsPassed`, that a comment begun has been passed up to the end of its line,
as otherwise a later break could turn out to be inside one, and count for
nothing; and `LineCounted`, that `current_line` itself is one more than the breaks
before the cursor. An end of file is a token of no characters (`ProperTokens`): a
second `load` of an empty source keeps the tokens.

**Parser** (`ParserProofs`). `ParserTypeCorrect`, `OperatorsAreBound`,
`DeclarationsAreInLists` and `ElseIsNearest`, for sources of any length, nested to any
depth, rejected ones too, and any `MaxList`. The last three say of every node in
`built` what the README's grammar asks of it (`TreeRules`). `ElseIsNearest` assumes of
`Open` the equation `OpenLaw`, which `StatementOpen` satisfies by its definition
(`OpenBy` is monotone in it, so there is a solution). No action looks at what it is
given: a node is right because of what the functions before it left.

- A *layout* is a height of `built` and for each place a sort: expressions that bind
  at least so tightly, statements, statements that are not open, and so on. Each
  kind of item takes `built` from one layout to another (`Takes`), and the items of
  `todo` lead from the layout `built` has to one node (`Leads`, `Held`). Each
  function's body is shown to do what a call of it promises (`BodyRuns`), and an
  item to be replaced by items that lead where it led (`Replaced`). Hence no child
  is taken from a function that is not done, `Target` looks at a node that is
  there, a successful `parse` leaves one tree, and `MakeNode` finds children of the
  sorts its node may have.
- Layouts cannot say which way an `or` leans or which if an `else` belongs to: both
  depend on the token ahead. `Ordered` adds to them an order of the items
  (`Chained`): just before a loop of `or` comes what leaves its operand, and just
  before an if's making its `else` or a branch; and a look ahead (`Looks`): when an
  `or` node is made no `or` follows, and no `else` follows a node that is made open.
  A new node needs `OpenLaw` once, to look at its last branch (`IsOpen`), so there
  is no induction over trees. TLC checked both on the run's families before they
  were proved.

**Grammar** (`GrammarProofs`). `AcceptedAreDerived` and `TreesKeepTokens`, for sources
of any length, nested to any depth, and any `MaxList`: what `parse` accepts the
README's grammar derives, and the tree reads as the tokens.

- Assumed: `DerivesLaw` and `YieldLaw`, the equations of the two recursions. The
  grammar is not left-recursive and a tree's parts are smaller than the tree, so
  there are operators that satisfy them, and `FormDerives` and `NodeYield`, with which
  TLC checks the two properties, do by their
  definitions. `EndAssumption` says what the lexer leaves: tokens that end with
  the end of file, or none; TLC evaluates it for the sources of `parser`.
- An item of `todo` is a relation (`Does`) between two states of `built` and `read`:
  what it may leave of what it finds. Of an expression's function it says that one
  node is added which derives from its nonterminal and reads as the tokens taken
  since (`Is`, `Adds1`, `Grown`); of a loop, that what was there gets longer by whole
  operands; of `MakeNode`, which children give way to which node. Each function's
  body, its items done one after the other (`Run`), is shown to do no more than the
  call of it promises (`BodyDoes`), and this is where the grammar's rules are used,
  one lemma for each kind of node.
- The inductive invariant is `Promised`: whatever the items left may do from here
  ends with one tree that is the goal's, of all the tokens. A step replaces an item by
  items of which no more can come (`Replaces`), or does it.
- `AcceptedAreDerived` needs `Finishes` beside it. The loop of a program is the
  outermost item, so a program ends at the end of file (`Bottom`, `AllTaken`).
  None of its tokens is the end of file: the name of a function or a parameter
  may take that one too, but then parsing fails (`LastEnds`, `Stacked`, `Spent`).
- There is no induction over trees or derivations: a tree is built from the leaves
  and each new node needs one unfolding of an equation.

**Driver** (`PipelineProofs`). `DriverTypeCorrect`, `ExitCodesTell` and
`FailuresAreReported`, for any number of files. The invariant says which results
and streams each stage can find (a run's result is ok before there is a run, the
error stream is empty until something failed). As `Pipeline` implements `Driver`,
they hold of it too (`PipelineExitCodesTell`).

**Pipeline** (`PipelineProofs`). `PipelineImplementsDriver`, `WholeSourceIsRead`,
`ErrorsAreNotParsed`, `ErrorsNameTokens` and `ReadingCrashesAreKnown`: what one
stage leaves and the next relies on, on texts of any length. The first five hold
with a tree of any kind printable or not. The inductive invariant `PipelineInv` has
three parts:

- `LexerInv`: once lexed, the last token is the only end of file, and a counted
  error has left a token. So an "eof" lexer is one without errors, and the
  parser's scan for the end cannot stop early.
- `ParserInv`: the parser is working, has failed or has succeeded. While it works,
  `read` and `ahead` are the kinds of the first tokens (`Exact`); `parse`'s own loop
  is the outermost item, so a program succeeds only at the end of file
  (`LoopsLast`); and the items that take a token before they look at it come
  only innermost and after a `fun`, a bracket or a comma (`Guarded`). So an error is
  at a token and no token of a lexer error is before it (`Rejected`) but for those,
  and only there the end of file is passed (`PastHead`). Where there is no other
  token, none is taken (`NothingTaken`).
- `HandOver`: which of these may be found at which stage of `loxo_main`.

Each step of the parser is shown to keep `ParserInv` one kind of item at a time;
the refinement then takes from the invariant what `Driver`'s `ParseResults`
demands of a result. It found two definitions that were not what they
looked like: `KindOf` and `ParseResults` were CASEs whose arms overlapped, so
that which of them is taken was TLC's choice; both now have one arm for each case.

`ReadingCrashesAreKnown` says that before a program runs there is no other crash
than the ones `ReadingCrashesKnown` lists. It needs a second invariant, `CrashInv`,
which goes from the crash back to a token that must have been read:

- `Headed`: an item of a function's head is in `todo`, or the cursor is past the end,
  only after a `fun`. `Printed`: an item that makes an assignment or a call is in
  `todo`, or a tree that cannot be printed in `built`, only after a `=` or a `(`.
- Both compare a step's items and nodes with the ones before it: `ItemsMade` and
  `NodesMade` in `ParserProofs` say that an item comes from the body of the one it
  replaces or was there, and a node from its children. `ParserProofs`' invariant is
  used here too, through an instance of it on the lexer's tokens (`Holds`), because
  a node takes its children from `built` and they must be there.
- Of `CanPrint` the theorem assumes `PrintsUpward`: a node that is neither an
  assignment nor a call can be printed if its children can. `Printable` of
  `Printer`, which `MCPipeline` gives for it, is that by its definition; it is
  recursive, so no module with a theorem can reach it.

**Only model-checked.** `ErrorEndsProgram`, `ParseEnds` and `CommandEnds`, as
liveness is out of the prover's reach. `RejectedIsNoProgram`: that no derivation begins
with the tokens up to an error is a claim about all derivations, by induction on
their length and with the first tokens of every nonterminal. `TextTellsTree`: that a
text has one reading is an induction over trees, and `Readings` is a recursive
operator. `RunningCrashesKnown`: that a callee which cannot be written ends with a
bracket needs the last token of each subtree, on all ways through the parser's
operators.

**What the parts assume of each other.** `Interpreter` begins a declaration only
in a list or, a variable, as the initializer of a for: `DeclarationsAreInLists`
proves that of `Parser`. `Parser` begins with tokens that end with the end of
file, or none, and `Driver` has a parser overrun or fail only on some tokens: both
are proved of `Lexer` and `Parser` together (`PipelineInv` and
`PipelineImplementsDriver`). That a run may end with the returning status `Driver`
takes from `Interpreter`'s `toplevel` run, and that it may end in an exception from
`RejectArguments`, the one place where the models of the interpreter throw.

## 6. What is not modelled, and why

- The formatting of values and of `tokenize`'s lines, messages: layout.
- `Resolver`: five lines, no behaviour yet.
- Arithmetic and the texts of numbers and strings: no property of the system
  depends on them; floating point is out of TLC's reach.
- `Variant` and `StatusOr` as objects with moved-from states; reference counts;
  the C++ stack's size.
- Moves of a lexer, a second `parse` by one parser: no caller.
- `alterToolContext`: debug builds only.

## 7. Plan

Written, the most important first: `Values`, `Environment`, `Interpreter` with its
proofs and its refinement; `Parser`, `Lexer` and `Driver` with theirs; `Printer`;
`Pipeline`, which puts the stages together, and its refinement of `Driver`.

To extend the model:

1. *Processes*: interpreters one after another with one `global_env`, so that
   what the first leaves is what the later one finds.
2. *Ownership*: which environments are reachable from `env`, frames and
   functions, and which only from each other.
3. *Interpreter in the pipeline*: a small program's trees visited by `Interpreter`,
   with its choices replaced by the tree.

To prove more:

4. `RejectedIsNoProgram`, which needs what the laws of the grammar exclude: that
   `DerivesLaw` has one solution, and the first and following tokens of each nonterminal.
5. That `Printable` and the solutions of `DerivesLaw` and `YieldLaw` are what the
   theorems assume, with provers that can do induction over data.
