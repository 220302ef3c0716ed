--------------------------- MODULE EnvironmentClient ---------------------------
(***************************************************************************)
(* The environments of Environment on their own, under a client that calls  *)
(* any operation on any environment, in any order.                          *)
(***************************************************************************)
EXTENDS Environment

CONSTANT ClientValues   \* the values the client stores

ASSUME ClientValuesAssumption == ClientValues \subseteq Value

EnvInit == envs = <<>>

\* the constructors: no parent, or an enclosing environment
Create(parent) ==
  /\ Len(envs) < MaxEnvs
  /\ envs' = NewEnv(envs, parent, NoVars)

Add(e, x, v) == envs' = AddTo(envs, e, x, v)

Reassign(e, x, v) ==
  IF Find(envs, e, x) = NoEnv
  THEN UNCHANGED envs                        \* InvalidArgument
  ELSE envs' = ReassignIn(envs, e, x, v)

EnvNext ==
  \/ \E parent \in Allocated(envs) \cup {NoEnv} : Create(parent)
  \/ \E e \in Allocated(envs), x \in Names, v \in ClientValues :
       Add(e, x, v) \/ Reassign(e, x, v)

EnvSpec == EnvInit /\ [][EnvNext]_envs

-----------------------------------------------------------------------------
Parent(es, e) == IF Len(es[e].chain) = 1 THEN NoEnv ELSE es[e].chain[2]

\* Environment::find as the code has it: here, else in the parent
FindFrom(es, e, x) ==
  LET find[d \in Allocated(es) \cup {NoEnv}] ==
        IF d = NoEnv THEN NoEnv
        ELSE IF es[d].vars[x] # Unbound THEN d
        ELSE find[Parent(es, d)]
  IN find[e]

\* The innermost environment on the chain that binds a name is the one that
\* the recursion through parent pointers stops at.
FindIsRecursion ==
  \A e \in Allocated(envs), x \in Names : Find(envs, e, x) = FindFrom(envs, e, x)

-----------------------------------------------------------------------------
\* Who sees an assignment, and who sees a declaration.
SeenWhereShared ==
  \A e \in Allocated(envs), x \in Names, v \in ClientValues :
    Reassign(e, x, v) /\ Find(envs, e, x) # NoEnv =>
      \A d \in Allocated(envs), y \in Names :
        Get(envs', d, y) = IF y = x /\ Find(envs, d, y) = Find(envs, e, x)
                           THEN v
                           ELSE Get(envs, d, y)

\* from d, x is looked up in e before it is found elsewhere
Reaches(d, e, x) ==
  \E i \in 1 .. Len(envs[d].chain) :
    /\ envs[d].chain[i] = e
    /\ \A j \in 1 .. i - 1 : envs[envs[d].chain[j]].vars[x] = Unbound

SeenInside ==
  \A e \in Allocated(envs), x \in Names, v \in ClientValues :
    Add(e, x, v) =>
      \A d \in Allocated(envs), y \in Names :
        Get(envs', d, y) = IF y = x /\ Reaches(d, e, x) THEN v ELSE Get(envs, d, y)

\* Assigning to a name (Environment::reassign) is seen through every environment
\* whose lookup reaches the same binding and through no other: closures share
\* captured variables, and a shadowed variable of the same name is left alone.
ReassignShared == [][SeenWhereShared]_envs

\* Declaring a name (Environment::add) is seen exactly from the scope it is
\* declared in and the scopes inside it that do not have the name themselves: a
\* declaration never reaches an enclosing scope or a sibling.
AddIsLocal == [][SeenInside]_envs
=============================================================================
