--------------------------- MODULE EnvironmentProofs ---------------------------
(***************************************************************************)
(* Proofs of the invariants and the action properties of EnvironmentClient, *)
(* for any number of names, values and environments.                        *)
(***************************************************************************)
EXTENDS EnvironmentClient, EnvironmentLemmas

-----------------------------------------------------------------------------
(* The invariants.                                                          *)

\* The heap is well typed and a forest: neither is inductive alone, as an
\* assignment reaches the heap through a chain.
EnvInv == EnvTypeOK /\ ScopesWellFormed

LEMMA EnvInvIsHeapOK == EnvInv <=> HeapOK(envs) /\ Len(envs) <= MaxEnvs
  BY DEF EnvInv, EnvTypeOK, ScopesWellFormed, HeapOK

LEMMA EnvInvInductive == EnvInv /\ [EnvNext]_envs => EnvInv'
<1> SUFFICES ASSUME HeapOK(envs), Len(envs) <= MaxEnvs, [EnvNext]_envs
             PROVE  HeapOK(envs') /\ Len(envs') <= MaxEnvs
  BY EnvInvIsHeapOK DEF EnvInv, EnvTypeOK, ScopesWellFormed, HeapOK
<1>1. Len(envs) \in Nat
  BY LenProperties DEF HeapOK
<1>2. ASSUME NEW parent \in Allocated(envs) \cup {NoEnv}, Create(parent)
      PROVE  HeapOK(envs') /\ Len(envs') <= MaxEnvs
  <2>1. NoVars \in [Names -> Slot]
    BY UnboundIsNoValue DEF NoVars
  <2>2. /\ HeapOK(NewEnv(envs, parent, NoVars))
        /\ Len(NewEnv(envs, parent, NoVars)) = Len(envs) + 1
    BY <1>2, <2>1, NewEnvProperties DEF Create
  <2> QED BY <1>1, <1>2, <2>2, MaxEnvsAssumption DEF Create
<1>3. ASSUME NEW e \in Allocated(envs), NEW x \in Names, NEW v \in ClientValues, Add(e, x, v)
      PROVE  HeapOK(envs') /\ Len(envs') <= MaxEnvs
  <2>1. v \in Slot
    BY ClientValuesAssumption, UnboundIsNoValue
  <2> QED BY <1>3, <2>1, AddToProperties DEF Add
<1>4. ASSUME NEW e \in Allocated(envs), NEW x \in Names, NEW v \in ClientValues,
             Reassign(e, x, v)
      PROVE  HeapOK(envs') /\ Len(envs') <= MaxEnvs
  <2>1. CASE Find(envs, e, x) = NoEnv
    BY <1>4, <2>1 DEF Reassign
  <2>2. CASE Find(envs, e, x) # NoEnv
    <3>1. Find(envs, e, x) \in Allocated(envs)
      BY <2>2, FindProperties
    <3>2. v \in Slot
      BY ClientValuesAssumption, UnboundIsNoValue
    <3>3. envs' = AddTo(envs, Find(envs, e, x), x, v)
      BY <1>4, <2>2 DEF Reassign, ReassignIn, AddTo
    <3> QED BY <3>1, <3>2, <3>3, AddToProperties
  <2> QED BY <2>1, <2>2
<1>5. CASE UNCHANGED envs
  BY <1>5
<1> QED BY <1>2, <1>3, <1>4, <1>5 DEF EnvNext

LEMMA EnvInvInit == EnvInit => EnvInv
<1> SUFFICES ASSUME EnvInit PROVE EnvInv
  OBVIOUS
<1>1. envs \in Seq(EnvRecord) /\ Len(envs) = 0
  BY EmptySeq DEF EnvInit
<1>2. Allocated(envs) = {}
  BY <1>1 DEF Allocated
<1> QED BY <1>1, <1>2, MaxEnvsAssumption DEF EnvInv, EnvTypeOK, ScopesWellFormed

LEMMA EnvInvHolds == EnvSpec => []EnvInv
  BY EnvInvInit, EnvInvInductive, PTL DEF EnvSpec

\* Environments stay well typed, whatever a client does with them.
THEOREM EnvTypeCorrect == EnvSpec => []EnvTypeOK
<1>1. EnvInv => EnvTypeOK
  BY DEF EnvInv
<1> QED BY <1>1, EnvInvHolds, PTL

\* Parent pointers never form a cycle nor leave the heap, and scopes that share
\* an enclosing scope share everything outside it: the recursion of
\* Environment::find ends and is the walk along the chain.
THEOREM ScopesStayWellFormed == EnvSpec => []ScopesWellFormed
<1>1. EnvInv => ScopesWellFormed
  BY DEF EnvInv
<1> QED BY <1>1, EnvInvHolds, PTL

\* The recursion walks the chain: what it finds in an environment's parent is what
\* the rest of the environment's own chain has.
LEMMA ParentHasRest ==
  ASSUME NEW es, HeapOK(es), NEW e \in Allocated(es), NEW x \in Names
  PROVE  /\ Parent(es, e) \in Allocated(es) \cup {NoEnv} /\ Parent(es, e) < e
         /\ es[e].vars[x] # Unbound => Find(es, e, x) = e
         /\ es[e].vars[x] = Unbound =>
              Find(es, e, x) = IF Parent(es, e) = NoEnv THEN NoEnv ELSE Find(es, Parent(es, e), x)
<1> DEFINE c == es[e].chain
           p == Parent(es, e)
<1>1. /\ Len(c) \in Nat /\ Len(c) > 0 /\ c[1] = e
      /\ \A i \in 1 .. Len(c) : c[i] \in Allocated(es)
      /\ \A i, j \in 1 .. Len(c) : i < j => c[j] < c[i]
      /\ \A i \in 1 .. Len(c) : es[c[i]].chain = SubSeq(c, i, Len(c))
  BY ChainProperties DEF HeapOK, WellFoundedChain, SharedScopes
<1>2. Len(c) \in Nat /\ Len(c) > 0
  BY <1>1
<1>3. Len(c) # 1 => 2 \in 1 .. Len(c) /\ 1 \in 1 .. Len(c) /\ c[2] \in Allocated(es) /\ c[2] < c[1]
  <2> DEFINE n == Len(c)
  <2>1. n \in Nat /\ n > 0
    BY <1>2
  <2> HIDE DEF n
  <2>2. n # 1 => 2 \in 1 .. n /\ 1 \in 1 .. n
    BY <2>1
  <2> USE DEF n
  <2> QED BY <1>1, <2>2
<1>4. NoEnv \notin Allocated(es) /\ NoEnv < e /\ e \in Nat
  BY LenProperties DEF HeapOK, NoEnv, Allocated
<1>5. /\ p \in Allocated(es) \cup {NoEnv} /\ p < e
      /\ Len(c) # 1 => p = c[2] /\ p \in Allocated(es) /\ p # NoEnv
  BY <1>1, <1>3, <1>4 DEF Parent
<1>6. ASSUME es[e].vars[x] # Unbound PROVE Find(es, e, x) = e
  <2>1. IsInnermost(es, e, x, 1)
    BY <1>1, <1>6 DEF IsInnermost, BindingDepths
  <2> QED BY <1>1, <2>1, FindIsInnermost
<1>7. ASSUME es[e].vars[x] = Unbound
      PROVE  Find(es, e, x) = IF p = NoEnv THEN NoEnv ELSE Find(es, p, x)
  <2>1. CASE Len(c) = 1
    <3>1. p = NoEnv /\ BindingDepths(es, e, x) = {}
      BY <1>1, <1>7, <2>1 DEF Parent, BindingDepths
    <3> QED BY <3>1 DEF Find
  <2>2. CASE Len(c) # 1
    <3> DEFINE d == es[p].chain
    <3>1. p = c[2] /\ p \in Allocated(es) /\ p # NoEnv
      BY <1>5, <2>2
    <3>2. d = SubSeq(c, 2, Len(c))
      BY <1>3, <1>1, <2>2, <3>1
    <3>3. Len(d) = Len(c) - 1 /\ \A i \in 1 .. Len(d) : d[i] = c[i + 1]
      <4>1. c \in Seq(EnvIds)
        <5>1. es[e] \in EnvRecord
          BY ElementOfSeq, LenProperties DEF HeapOK, Allocated
        <5> QED BY <5>1 DEF EnvRecord
      <4> QED BY <1>1, <2>2, <3>2, <4>1, SubSeqProperties
    <3> HIDE DEF c, d, p
    <3>4. \A i \in 1 .. Len(d) : i \in BindingDepths(es, p, x) <=> i + 1 \in BindingDepths(es, e, x)
      <4> SUFFICES ASSUME NEW i \in 1 .. Len(d)
                   PROVE  i \in BindingDepths(es, p, x) <=> i + 1 \in BindingDepths(es, e, x)
        OBVIOUS
      <4>1. i + 1 \in 1 .. Len(c) /\ d[i] = c[i + 1]
        BY <1>2, <3>3 DEF c
      <4>2. i \in BindingDepths(es, p, x) <=> es[d[i]].vars[x] # Unbound
        BY DEF BindingDepths, d
      <4>3. i + 1 \in BindingDepths(es, e, x) <=> es[c[i + 1]].vars[x] # Unbound
        BY <4>1 DEF BindingDepths, c
      <4> QED BY <4>1, <4>2, <4>3
    <3>5. 1 \notin BindingDepths(es, e, x)
      BY <1>1, <1>7 DEF BindingDepths, c
    <3>6. CASE BindingDepths(es, e, x) = {}
      <4>1. BindingDepths(es, p, x) = {}
        BY <3>4, <3>6 DEF BindingDepths, d
      <4> QED BY <3>1, <3>6, <4>1 DEF Find
    <3>7. CASE BindingDepths(es, e, x) # {}
      <4>1. PICK k \in 1 .. Len(c) : IsInnermost(es, e, x, k) /\ Find(es, e, x) = c[k]
        BY <3>7, FindProperties DEF c
      <4>2. k # 1 /\ k - 1 \in 1 .. Len(d)
        BY <1>1, <3>3, <3>5, <4>1 DEF IsInnermost
      <4>3. k - 1 \in BindingDepths(es, p, x)
        BY <3>4, <4>1, <4>2 DEF IsInnermost
      <4>4. ASSUME NEW j \in BindingDepths(es, p, x) PROVE k - 1 <= j
        <5>1. j \in 1 .. Len(d)
          BY DEF BindingDepths, d
        <5>2. j + 1 \in BindingDepths(es, e, x)
          BY <3>4, <5>1
        <5>3. k <= j + 1
          BY <4>1, <5>2 DEF IsInnermost
        <5> QED BY <5>1, <5>3
      <4>5. IsInnermost(es, p, x, k - 1)
        BY <4>3, <4>4 DEF IsInnermost
      <4>6. Find(es, p, x) = d[k - 1]
        <5>1. Len(d) \in Nat
          BY <1>1, <2>2, <3>3 DEF c
        <5> QED BY <4>5, <5>1, FindIsInnermost DEF d
      <4> QED BY <3>1, <3>3, <4>1, <4>2, <4>6
    <3> QED BY <3>6, <3>7
  <2> QED BY <2>1, <2>2
<1> QED BY <1>5, <1>6, <1>7

LEMMA RecursionFinds ==
  ASSUME NEW es, HeapOK(es), NEW e \in Allocated(es), NEW x \in Names
  PROVE  Find(es, e, x) = FindFrom(es, e, x)
<1> DEFINE D == Allocated(es) \cup {NoEnv}
           Step(f, d) == IF d = NoEnv THEN NoEnv
                         ELSE IF es[d].vars[x] # Unbound THEN d ELSE f[Parent(es, d)]
           g == [d \in D |-> IF d = NoEnv THEN NoEnv ELSE Find(es, d, x)]
           h == CHOOSE f : f = [d \in D |-> Step(f, d)]
<1>1. g = [d \in D |-> Step(g, d)]
  <2>1. ASSUME NEW d \in D PROVE g[d] = Step(g, d)
    BY ParentHasRest
  <2> QED BY <2>1
<1>2. h = [d \in D |-> Step(h, d)]
  BY <1>1
<1>3. FindFrom(es, e, x) = h[e]
  BY DEF FindFrom
<1> DEFINE B == {d \in D : h[d] # g[d]}
<1>4. B = {}
  <2> SUFFICES ASSUME B # {} PROVE FALSE
    OBVIOUS
  <2>1. D \subseteq Nat
    BY LenProperties DEF HeapOK, Allocated, NoEnv
  <2>2. PICK d \in B : \A j \in B : d <= j
    BY <2>1, LeastExists
  <2> HIDE DEF g, h
  <2>3. h[d] = Step(h, d) /\ g[d] = Step(g, d)
    BY <1>1, <1>2
  <2>4. d # NoEnv /\ es[d].vars[x] = Unbound /\ h[Parent(es, d)] # g[Parent(es, d)]
    BY <2>3
  <2>5. Parent(es, d) \in D /\ Parent(es, d) < d
    BY <2>4, ParentHasRest
  <2>6. Parent(es, d) \in B
    BY <2>4, <2>5
  <2> QED BY <2>1, <2>2, <2>5, <2>6
<1>5. h[e] = g[e]
  BY <1>4
<1>6. g[e] = Find(es, e, x)
  BY LenProperties DEF HeapOK, Allocated, NoEnv
<1> QED BY <1>3, <1>5, <1>6

\* Environment::find, the recursion through parent pointers, finds what the lookup
\* along the chain finds, in a heap of any size.
THEOREM LookupIsRecursion == EnvSpec => []FindIsRecursion
<1>1. EnvInv => FindIsRecursion
  BY EnvInvIsHeapOK, RecursionFinds DEF FindIsRecursion
<1> QED BY <1>1, EnvInvHolds, PTL

\* Environment::reassign: exactly the environments whose lookup of the name
\* reaches the binding that was assigned to see the new value.
THEOREM AssignmentsAreShared == EnvSpec => ReassignShared
<1>1. ASSUME EnvInv PROVE SeenWhereShared
  <2> SUFFICES ASSUME NEW e \in Allocated(envs), NEW x \in Names, NEW v \in ClientValues,
                      Reassign(e, x, v), Find(envs, e, x) # NoEnv,
                      NEW d \in Allocated(envs), NEW y \in Names
               PROVE  Get(envs', d, y) = IF y = x /\ Find(envs, d, y) = Find(envs, e, x)
                                         THEN v ELSE Get(envs, d, y)
    BY DEF SeenWhereShared
  <2> DEFINE f == Find(envs, e, x)
             c == envs[d].chain
  <2>1. HeapOK(envs) /\ v \in Value /\ v # Unbound
    BY <1>1, EnvInvIsHeapOK, ClientValuesAssumption, UnboundIsNoValue
  <2>2. f \in Allocated(envs) /\ envs[f].vars[x] # Unbound
    BY <2>1, FindProperties, UnboundIsNoValue
  <2>3. envs' = AddTo(envs, f, x, v)
    BY DEF Reassign, ReassignIn, AddTo
  <2> HIDE DEF f
  <2>4. /\ \A g \in Allocated(envs) :
           /\ envs'[g].chain = envs[g].chain
           /\ \A z \in Names : envs'[g].vars[z] = IF g = f /\ z = x THEN v ELSE envs[g].vars[z]
    BY <2>1, <2>2, <2>3, AddToProperties, UnboundIsNoValue
  <2>5. Len(c) \in Nat /\ \A i \in 1 .. Len(c) : c[i] \in Allocated(envs)
    BY <2>1, ChainProperties
  <2>6. BindingDepths(envs', d, y) = BindingDepths(envs, d, y)
    BY <2>1, <2>2, <2>4, <2>5 DEF BindingDepths
  <2>7. f # NoEnv
    BY DEF f
  <2>8. CASE BindingDepths(envs, d, y) = {}
    BY <2>6, <2>7, <2>8 DEF Get, Find, f
  <2>9. CASE BindingDepths(envs, d, y) # {}
    <3>1. PICK k \in 1 .. Len(c) : IsInnermost(envs, d, y, k)
      BY <2>1, <2>9, FindProperties
    <3>2. IsInnermost(envs', d, y, k)
      BY <2>6, <3>1 DEF IsInnermost
    <3>3. Find(envs, d, y) = c[k]
      BY <2>5, <3>1, FindIsInnermost
    <3>4. Find(envs', d, y) = c[k]
      <4>1. envs'[d].chain = c
        BY <2>4
      <4> QED BY <2>5, <3>2, <4>1, FindIsInnermost
    <3>5. envs'[c[k]].vars[y] = IF c[k] = f /\ y = x THEN v ELSE envs[c[k]].vars[y]
      BY <2>4, <2>5
    <3>6. c[k] # NoEnv
      BY <2>5 DEF Allocated, NoEnv
    <3> HIDE DEF c
    <3> QED BY <3>3, <3>4, <3>5, <3>6 DEF Get, f
  <2> QED BY <2>8, <2>9
<1> QED BY <1>1, EnvInvHolds, PTL DEF ReassignShared

\* Environment::add: exactly the scopes that look the name up in the environment
\* of the declaration before they find it elsewhere see the new value.
THEOREM DeclarationsAreLocal == EnvSpec => AddIsLocal
<1>1. ASSUME EnvInv PROVE SeenInside
  <2> SUFFICES ASSUME NEW e \in Allocated(envs), NEW x \in Names, NEW v \in ClientValues,
                      Add(e, x, v),
                      NEW d \in Allocated(envs), NEW y \in Names
               PROVE  Get(envs', d, y) = IF y = x /\ Reaches(d, e, x)
                                         THEN v ELSE Get(envs, d, y)
    BY DEF SeenInside
  <2> DEFINE c == envs[d].chain
  <2>1. HeapOK(envs) /\ v \in Value /\ v # Unbound
    BY <1>1, EnvInvIsHeapOK, ClientValuesAssumption, UnboundIsNoValue
  <2>2. envs' = AddTo(envs, e, x, v)
    BY DEF Add
  <2>3. Len(c) \in Nat /\ \A i \in 1 .. Len(c) : c[i] \in Allocated(envs)
    BY <2>1, ChainProperties
  <2>4. CASE y = x /\ Reaches(d, e, x)
    <3>1. PICK i \in 1 .. Len(c) :
            c[i] = e /\ \A j \in 1 .. i - 1 : envs[c[j]].vars[x] = Unbound
      BY <2>4 DEF Reaches
    <3>2. /\ \A g \in Allocated(envs) :
             /\ envs'[g].chain = envs[g].chain
             /\ \A z \in Names : envs'[g].vars[z] = IF g = e /\ z = x THEN v ELSE envs[g].vars[z]
      BY <2>1, <2>2, AddToProperties, UnboundIsNoValue
    <3>3. i \in BindingDepths(envs', d, x)
      BY <2>1, <3>1, <3>2 DEF BindingDepths
    <3>4. ASSUME NEW j \in BindingDepths(envs', d, x) PROVE i <= j
      <4> SUFFICES ASSUME j < i PROVE FALSE
        BY <2>3, <3>2 DEF BindingDepths
      <4>1. j \in 1 .. Len(c) /\ envs'[c[j]].vars[x] # Unbound
        BY <3>2 DEF BindingDepths
      <4>2. j \in 1 .. i - 1
        BY <2>3, <4>1
      <4>3. envs[c[j]].vars[x] = Unbound /\ c[j] = e
        BY <2>3, <3>1, <3>2, <4>1, <4>2
      <4>4. c[i] < c[j]
        BY <2>1, <2>3, <4>1 DEF HeapOK, WellFoundedChain
      <4> QED BY <2>3, <3>1, <4>3, <4>4 DEF Allocated
    <3>5. IsInnermost(envs', d, x, i)
      BY <3>3, <3>4 DEF IsInnermost
    <3>6. Find(envs', d, x) = e
      <4>1. envs'[d].chain = c
        BY <3>2
      <4> QED BY <2>3, <3>1, <3>5, <4>1, FindIsInnermost
    <3>7. e # NoEnv
      BY DEF Allocated, NoEnv
    <3> QED BY <2>4, <3>2, <3>6, <3>7 DEF Get
  <2>5. CASE ~ (y = x /\ Reaches(d, e, x))
    <3>1. y = x => \A i \in 1 .. Len(c) : c[i] = e =>
                     \E j \in 1 .. i - 1 : envs[c[j]].vars[x] # Unbound
      BY <2>5 DEF Reaches
    <3> QED BY <2>1, <2>2, <2>5, <3>1, GetElsewhere
  <2> QED BY <2>4, <2>5
<1> QED BY <1>1, EnvInvHolds, PTL DEF AddIsLocal
=============================================================================
