------------------------------ MODULE Environment ------------------------------
(***************************************************************************)
(* The heap of environments: driver/src/Environment.cpp and ScopeAssoc.cpp. *)
(*                                                                         *)
(* An Environment object is a table of names and a parent pointer, set once *)
(* by the constructor.  The heap is the sequence of the environments made   *)
(* so far, and a pointer to one is its index in the heap.  In place of the  *)
(* parent pointer an environment here carries its whole chain, from itself  *)
(* outwards: since parents never change, it is the path that the recursion  *)
(* of Environment::find walks (FindIsRecursion says so).                    *)
(*                                                                         *)
(* EnvironmentClient lets a client do anything with the environments;       *)
(* Interpreter uses the same operators under the control of a program.      *)
(***************************************************************************)
EXTENDS Values

VARIABLE envs        \* the heap of environments

\* what a table holds under a name that it does not contain
Unbound == Plain("unbound")
Slot == Value \cup {Unbound}

EnvRecord == [chain : Seq(EnvIds), vars : [Names -> Slot]]

Allocated(es) == 1 .. Len(es)
NoVars == [x \in Names |-> Unbound]
\* Mutant: an environment knows its parent but not the parents beyond.
MutantChainOf(es, e) == IF e = NoEnv THEN <<>> ELSE <<e>>

ChainOf(es, e) == IF e = NoEnv THEN <<>> ELSE es[e].chain

\* Mutant: the new environment takes the id of the one made before it.
MutantNewEnv(es, parent, vars) ==
  Append(es, [chain |-> <<Len(es)>> \o ChainOf(es, parent), vars |-> vars])

\* Environment::Environment(enclosing), with what is bound in it at once; the
\* new environment's id is Len(es) + 1
NewEnv(es, parent, vars) ==
  Append(es, [chain |-> <<Len(es) + 1>> \o ChainOf(es, parent), vars |-> vars])

\* Environment::find: the innermost environment on the chain that binds x
BindingDepths(es, e, x) ==
  {i \in 1 .. Len(es[e].chain) : es[es[e].chain[i]].vars[x] # Unbound}

\* Mutant: the lookup starts at the outermost environment.
MutantIsInnermost(es, e, x, i) ==
  /\ i \in BindingDepths(es, e, x)
  /\ \A j \in BindingDepths(es, e, x) : j <= i

IsInnermost(es, e, x, i) ==
  /\ i \in BindingDepths(es, e, x)
  /\ \A j \in BindingDepths(es, e, x) : i <= j
Find(es, e, x) ==
  IF BindingDepths(es, e, x) = {}
  THEN NoEnv
  ELSE es[e].chain[CHOOSE i \in BindingDepths(es, e, x) : IsInnermost(es, e, x, i)]

\* Environment::get: Monostate when the name is bound nowhere on the chain
Get(es, e, x) ==
  IF Find(es, e, x) = NoEnv THEN Monostate ELSE es[Find(es, e, x)].vars[x]

\* Mutant: assigning declares the name in the current environment.
MutantReassignIn(es, e, x, v) == [es EXCEPT ![e].vars[x] = v]

\* Environment::reassign, of a name that find() finds
ReassignIn(es, e, x, v) == [es EXCEPT ![Find(es, e, x)].vars[x] = v]

\* Mutant: declaring a name that is visible assigns to it.
MutantAddTo(es, e, x, v) ==
  IF Find(es, e, x) = NoEnv THEN [es EXCEPT ![e].vars[x] = v] ELSE ReassignIn(es, e, x, v)

\* Environment::add: insert_or_assign in the environment itself, never in a
\* parent; redefining a name is allowed
AddTo(es, e, x, v) == [es EXCEPT ![e].vars[x] = v]

-----------------------------------------------------------------------------
\* Type invariant: every environment is a table of names with a chain of ids.
EnvTypeOK ==
  /\ envs \in Seq(EnvRecord)
  /\ Len(envs) <= MaxEnvs

\* Following parent pointers from an environment starts at it, visits ever
\* older environments, and never leaves the heap: Environment::find ends.
WellFoundedChain(es, e) ==
  LET c == es[e].chain IN
  /\ Len(c) > 0 /\ c[1] = e
  /\ \A i \in 1 .. Len(c) : c[i] \in 1 .. e
  /\ \A i, j \in 1 .. Len(c) : i < j => c[j] < c[i]

\* Scopes form a forest: the chain of an enclosing environment is the rest of
\* the chain of the enclosed one, so two environments that share a scope agree
\* on everything outside it.
SharedScopes(es, e) ==
  LET c == es[e].chain IN
  \A i \in 1 .. Len(c) : es[c[i]].chain = SubSeq(c, i, Len(c))

ScopesWellFormed ==
  \A e \in Allocated(envs) : WellFoundedChain(envs, e) /\ SharedScopes(envs, e)
=============================================================================
