--------------------------- MODULE EnvironmentLemmas ---------------------------
(***************************************************************************)
(* What the operators of Environment compute, for any heap: lemmas for      *)
(* EnvironmentProofs and InterpreterProofs.                                 *)
(***************************************************************************)
EXTENDS Environment, FiniteSetTheorems, SequenceTheorems, TLAPS

-----------------------------------------------------------------------------
(* The least and the greatest element of a set, for the CHOOSEs of Find and *)
(* Parameters.  Induction being out of reach, both come from the library's  *)
(* theorem that strict inclusion of finite sets is well-founded.            *)

\* Every nonempty set of naturals has a least element (Environment::find stops
\* at the first environment that binds the name).
LEMMA LeastExists ==
  ASSUME NEW S, S \subseteq Nat, S # {}
  PROVE  \E i \in S : \A j \in S : i <= j
<1> DEFINE R == StrictSubsetOrdering(Nat)
           T == {0 .. i : i \in S}
<1>1. IsWellFoundedOn(R, FiniteSubsetsOf(Nat))
  BY FS_StrictSubsetOrderingWellFounded
<1>2. T # {} /\ T \subseteq FiniteSubsetsOf(Nat)
  <2>1. ASSUME NEW i \in S PROVE 0 .. i \in FiniteSubsetsOf(Nat)
    <3>1. i \in Nat /\ 0 .. i \subseteq Nat
      OBVIOUS
    <3>2. IsFiniteSet(0 .. i)
      BY <3>1, FS_Interval
    <3> QED BY <3>1, <3>2 DEF FiniteSubsetsOf
  <2> QED BY <2>1
<1> HIDE DEF R, T
<1>3. PICK I \in T : \A J \in T : ~ (<<J, I>> \in R)
  BY <1>1, <1>2, WFMin
<1>4. PICK i \in S : I = 0 .. i
  BY DEF T
<1>5. ASSUME NEW j \in S PROVE i <= j
  <2> SUFFICES ASSUME j < i PROVE FALSE
    OBVIOUS
  <2>1. 0 .. j \subseteq 0 .. i /\ 0 .. j # 0 .. i /\ 0 .. i \subseteq Nat
    OBVIOUS
  <2>2. <<0 .. j, 0 .. i>> \in R
    BY <2>1 DEF R, StrictSubsetOrdering
  <2>3. 0 .. j \in T
    BY DEF T
  <2> QED BY <1>3, <1>4, <2>2, <2>3
<1> QED BY <1>5

\* Every nonempty set of positions of a list has a greatest element (the last
\* of several parameters of one name is the one that stays).
LEMMA GreatestExists ==
  ASSUME NEW n \in Nat, NEW S, S \subseteq 1 .. n, S # {}
  PROVE  \E i \in S : \A j \in S : j <= i
<1> DEFINE D == {n - i : i \in S}
<1>1. D \subseteq Nat /\ D # {}
  <2>1. PICK i \in S : TRUE
    OBVIOUS
  <2>2. n - i \in D
    OBVIOUS
  <2>3. D \subseteq Nat
    OBVIOUS
  <2> QED BY <2>2, <2>3
<1> HIDE DEF D
<1>2. PICK d \in D : \A j \in D : d <= j
  BY <1>1, LeastExists
<1>3. PICK i \in S : d = n - i
  BY DEF D
<1>4. ASSUME NEW j \in S PROVE j <= i
  <2>1. n - j \in D
    BY DEF D
  <2>2. n - i <= n - j
    BY <1>2, <1>3, <2>1
  <2> QED BY <2>2
<1> QED BY <1>4

-----------------------------------------------------------------------------
(* The operators of Environment.                                            *)

\* A heap as the code keeps it: well typed, its scopes a forest.
HeapOK(es) ==
  /\ es \in Seq(EnvRecord)
  /\ \A e \in Allocated(es) : WellFoundedChain(es, e) /\ SharedScopes(es, e)

\* What a table holds when it does not contain a name is not a value.
LEMMA UnboundIsNoValue == Unbound \notin Value /\ Unbound \in Slot /\ Value \subseteq Slot
  BY DEF Unbound, Plain, Value, Kinds, Slot

\* Environment::find: the lookup finds the innermost binding on the chain, an
\* environment of the heap, and fails only when there is none.
LEMMA FindProperties ==
  ASSUME NEW es, HeapOK(es), NEW e \in Allocated(es), NEW x \in Names
  PROVE  /\ BindingDepths(es, e, x) = {} => Find(es, e, x) = NoEnv
         /\ BindingDepths(es, e, x) # {} =>
              \E i \in 1 .. Len(es[e].chain) :
                /\ IsInnermost(es, e, x, i)
                /\ Find(es, e, x) = es[e].chain[i]
                /\ Find(es, e, x) \in Allocated(es)
                /\ es[Find(es, e, x)].vars[x] \in Value
<1>1. CASE BindingDepths(es, e, x) = {}
  BY <1>1 DEF Find
<1>2. CASE BindingDepths(es, e, x) # {}
  <2> DEFINE B == BindingDepths(es, e, x)
             c == es[e].chain
             k == CHOOSE i \in B : IsInnermost(es, e, x, i)
  <2>1. es \in Seq(EnvRecord) /\ Len(es) \in Nat /\ e \in 1 .. Len(es) /\ es[e] \in EnvRecord
    BY ElementOfSeq, LenProperties DEF HeapOK, Allocated
  <2>2. c \in Seq(EnvIds) /\ Len(c) \in Nat /\ \A i \in 1 .. Len(c) : c[i] \in 1 .. e
    <3>1. WellFoundedChain(es, e)
      BY DEF HeapOK
    <3>2. c \in Seq(EnvIds)
      BY <2>1 DEF EnvRecord
    <3> QED BY <3>1, <3>2, LenProperties DEF WellFoundedChain
  <2>3. B \subseteq Nat /\ B \subseteq 1 .. Len(c)
    BY <2>2 DEF BindingDepths
  <2>4. \E i \in B : IsInnermost(es, e, x, i)
    BY <1>2, <2>3, LeastExists DEF IsInnermost
  <2>5. k \in B /\ IsInnermost(es, e, x, k)
    BY <2>4
  <2>6. Find(es, e, x) = c[k]
    BY <1>2 DEF Find
  <2>7. c[k] \in Allocated(es)
    BY <2>1, <2>2, <2>3, <2>5 DEF Allocated
  <2>8. es[c[k]].vars[x] # Unbound
    BY <2>5 DEF BindingDepths
  <2>9. es[c[k]] \in EnvRecord
    BY <2>1, <2>7, ElementOfSeq DEF Allocated
  <2>10. es[c[k]].vars[x] \in Slot
    BY <2>9 DEF EnvRecord
  <2>11. es[c[k]].vars[x] \in Value
    BY <2>8, <2>10 DEF Slot
  <2> HIDE DEF k
  <2> QED BY <1>2, <2>3, <2>5, <2>6, <2>7, <2>11
<1> QED BY <1>1, <1>2

\* What Environment::get answers is a value: the one bound innermost, or
\* Monostate.
LEMMA GetType ==
  ASSUME NEW es, HeapOK(es), NEW e \in Allocated(es), NEW x \in Names
  PROVE  Get(es, e, x) \in Value
<1>1. NoEnv \notin Allocated(es)
  BY LenProperties DEF HeapOK, NoEnv, Allocated
<1>2. Monostate \in Value
  BY EmptySeq DEF Monostate, Plain, Value, Kinds, NoEnv
<1>3. CASE BindingDepths(es, e, x) = {}
  BY <1>2, <1>3, FindProperties DEF Get
<1>4. CASE BindingDepths(es, e, x) # {}
  BY <1>1, <1>4, FindProperties DEF Get
<1> QED BY <1>3, <1>4

\* Declaring a name leaves the shape of the heap alone and sets one entry of
\* one table.
LEMMA AddToProperties ==
  ASSUME NEW es, HeapOK(es), NEW e \in Allocated(es), NEW x \in Names, NEW v \in Slot
  PROVE  /\ HeapOK(AddTo(es, e, x, v))
         /\ Len(AddTo(es, e, x, v)) = Len(es)
         /\ \A d \in Allocated(es) :
              /\ AddTo(es, e, x, v)[d].chain = es[d].chain
              /\ \A y \in Names : AddTo(es, e, x, v)[d].vars[y] =
                   IF d = e /\ y = x THEN v ELSE es[d].vars[y]
<1> DEFINE fs == AddTo(es, e, x, v)
           r == [es[e] EXCEPT !.vars = [@ EXCEPT ![x] = v]]
<1>1. es \in Seq(EnvRecord) /\ e \in 1 .. Len(es) /\ Len(es) \in Nat
  BY LenProperties DEF HeapOK, Allocated
<1>2. es[e] \in EnvRecord
  BY <1>1, ElementOfSeq
<1>3. r \in EnvRecord
  BY <1>2 DEF EnvRecord
<1>4. fs = [es EXCEPT ![e] = r]
  BY DEF AddTo
<1>5. /\ fs \in Seq(EnvRecord) /\ Len(fs) = Len(es)
      /\ \A d \in 1 .. Len(es) : fs[d] = IF d = e THEN r ELSE es[d]
  BY <1>1, <1>3, <1>4, ExceptSeq
<1>6. \A d \in Allocated(es) : fs[d].chain = es[d].chain
  BY <1>5, <1>2 DEF Allocated, EnvRecord
<1>7. \A d \in Allocated(es), y \in Names :
        fs[d].vars[y] = IF d = e /\ y = x THEN v ELSE es[d].vars[y]
  BY <1>5, <1>2 DEF Allocated, EnvRecord
<1>8. ASSUME NEW d \in Allocated(fs)
      PROVE  WellFoundedChain(fs, d) /\ SharedScopes(fs, d)
  <2>1. d \in Allocated(es) /\ fs[d].chain = es[d].chain
    BY <1>5, <1>6 DEF Allocated
  <2>2. WellFoundedChain(es, d) /\ SharedScopes(es, d)
    BY <2>1 DEF HeapOK
  <2>3. \A i \in 1 .. Len(es[d].chain) : es[d].chain[i] \in Allocated(es)
    BY <1>1, <2>1, <2>2 DEF WellFoundedChain, Allocated
  <2>4. WellFoundedChain(fs, d)
    BY <2>1, <2>2 DEF WellFoundedChain
  <2>5. SharedScopes(fs, d)
    BY <2>1, <2>2, <2>3, <1>6 DEF SharedScopes
  <2> QED BY <2>4, <2>5
<1> HIDE DEF fs
<1>9. HeapOK(fs)
  BY <1>5, <1>8 DEF HeapOK
<1> QED BY <1>5, <1>6, <1>7, <1>9 DEF fs

\* Environment::Environment: the new environment is added to the heap with the
\* chain of its parent behind it, and nothing else changes.
LEMMA NewEnvProperties ==
  ASSUME NEW es, HeapOK(es), Len(es) < MaxEnvs,
         NEW parent \in Allocated(es) \cup {NoEnv}, NEW table \in [Names -> Slot]
  PROVE  LET fs == NewEnv(es, parent, table)
             n == Len(es) + 1
         IN  /\ HeapOK(fs)
             /\ Len(fs) = n
             /\ Allocated(fs) = Allocated(es) \cup {n}
             /\ \A d \in Allocated(es) : fs[d] = es[d]
             /\ fs[n].vars = table
             /\ fs[n].chain = <<n>> \o ChainOf(es, parent)
<1> DEFINE n == Len(es) + 1
           p == ChainOf(es, parent)
           c == <<n>> \o p
           fs == NewEnv(es, parent, table)
<1>1. es \in Seq(EnvRecord) /\ Len(es) \in Nat /\ n \in EnvIds
  BY LenProperties, MaxEnvsAssumption DEF HeapOK, EnvIds
<1>2. /\ p \in Seq(EnvIds)
      /\ \A i \in 1 .. Len(p) : p[i] \in Allocated(es)
      /\ \A i, j \in 1 .. Len(p) : i < j => p[j] < p[i]
      /\ \A i \in 1 .. Len(p) : es[p[i]].chain = SubSeq(p, i, Len(p))
  <2>1. CASE parent = NoEnv
    <3>1. p = <<>>
      BY <2>1 DEF ChainOf
    <3> QED BY <3>1, EmptySeq
  <2>2. CASE parent # NoEnv
    <3>1. parent \in Allocated(es) /\ p = es[parent].chain
      BY <2>2 DEF ChainOf
    <3>2. WellFoundedChain(es, parent) /\ SharedScopes(es, parent) /\ es[parent] \in EnvRecord
      BY <1>1, <3>1, ElementOfSeq DEF HeapOK, Allocated
    <3>3. p \in Seq(EnvIds)
      BY <3>1, <3>2 DEF EnvRecord
    <3>4. \A i \in 1 .. Len(p) : p[i] \in Allocated(es)
      BY <1>1, <3>1, <3>2 DEF WellFoundedChain, Allocated
    <3> HIDE DEF p
    <3> QED BY <3>1, <3>2, <3>3, <3>4 DEF WellFoundedChain, SharedScopes
  <2> QED BY <2>1, <2>2
<1>3. Len(p) \in Nat
  BY <1>2, LenProperties
<1> HIDE DEF p
<1>4. /\ c \in Seq(EnvIds)
      /\ Len(c) = Len(p) + 1
      /\ c[1] = n
      /\ \A i \in 2 .. Len(c) : i - 1 \in 1 .. Len(p) /\ c[i] = p[i - 1]
  <2>1. <<n>> \in Seq(EnvIds) /\ Len(<<n>>) = 1 /\ <<n>>[1] = n
    BY <1>1
  <2>2. /\ c \in Seq(EnvIds)
        /\ Len(c) = 1 + Len(p)
        /\ \A i \in 1 .. 1 + Len(p) : c[i] = IF i <= 1 THEN <<n>>[i] ELSE p[i - 1]
    BY <1>2, <2>1, ConcatProperties
  <2> HIDE DEF c
  <2> QED BY <1>3, <2>1, <2>2
<1> DEFINE r == [chain |-> c, vars |-> table]
<1>5. r \in EnvRecord
  BY <1>4 DEF EnvRecord
<1>6. /\ fs \in Seq(EnvRecord) /\ Len(fs) = n
      /\ \A d \in 1 .. Len(es) : fs[d] = es[d]
      /\ fs[n] = r
  <2>1. fs = Append(es, r)
    BY DEF NewEnv, p
  <2> HIDE DEF fs, r
  <2> QED BY <1>1, <1>5, <2>1, AppendProperties
<1>7. Allocated(fs) = Allocated(es) \cup {n}
  BY <1>1, <1>6 DEF Allocated
<1> HIDE DEF fs
<1>8. fs[n].chain = c /\ fs[n].vars = table
  BY <1>6
<1> HIDE DEF c, r
<1>9. ASSUME NEW d \in Allocated(es)
      PROVE  WellFoundedChain(fs, d) /\ SharedScopes(fs, d)
  <2>1. WellFoundedChain(es, d) /\ SharedScopes(es, d) /\ fs[d] = es[d]
    BY <1>6 DEF HeapOK, Allocated
  <2>2. WellFoundedChain(fs, d)
    BY <2>1 DEF WellFoundedChain
  <2>3. \A i \in 1 .. Len(es[d].chain) : es[d].chain[i] \in 1 .. Len(es)
    BY <1>1, <2>1 DEF WellFoundedChain, Allocated
  <2>4. SharedScopes(fs, d)
    BY <1>6, <2>1, <2>3 DEF SharedScopes
  <2> QED BY <2>2, <2>4
<1>10. WellFoundedChain(fs, n)
  <2>1. ASSUME NEW i \in 1 .. Len(c) PROVE c[i] \in 1 .. n
    <3>1. CASE i = 1
      BY <1>1, <1>4, <3>1
    <3>2. CASE i # 1
      <4>1. i - 1 \in 1 .. Len(p) /\ c[i] = p[i - 1]
        BY <1>3, <1>4, <3>2
      <4> QED BY <1>1, <1>2, <4>1 DEF Allocated
    <3> QED BY <3>1, <3>2
  <2>2. ASSUME NEW i \in 1 .. Len(c), NEW j \in 1 .. Len(c), i < j
        PROVE  c[j] < c[i]
    <3>1. j \in 2 .. Len(c) /\ c[j] = p[j - 1] /\ j - 1 \in 1 .. Len(p)
      BY <1>3, <1>4, <2>2
    <3>2. CASE i = 1
      BY <1>1, <1>2, <1>4, <3>1, <3>2 DEF Allocated
    <3>3. CASE i # 1
      <4>1. i - 1 \in 1 .. Len(p) /\ c[i] = p[i - 1] /\ i - 1 < j - 1
        BY <1>3, <1>4, <2>2, <3>3
      <4> QED BY <1>2, <3>1, <4>1
    <3> QED BY <3>2, <3>3
  <2> QED BY <1>3, <1>4, <1>8, <2>1, <2>2 DEF WellFoundedChain
<1>11. SharedScopes(fs, n)
  <2> SUFFICES ASSUME NEW i \in 1 .. Len(c)
               PROVE  fs[c[i]].chain = SubSeq(c, i, Len(c))
    BY <1>8 DEF SharedScopes
  <2>1. CASE i = 1
    BY <1>4, <1>8, <2>1, SubSeqFull
  <2>2. CASE i # 1
    <3>1. i - 1 \in 1 .. Len(p) /\ c[i] = p[i - 1]
      BY <1>3, <1>4, <2>2
    <3>2. fs[c[i]].chain = SubSeq(p, i - 1, Len(p))
      BY <1>2, <1>6, <3>1 DEF Allocated
    <3>3. SubSeq(p, i - 1, Len(p)) = SubSeq(c, i, Len(c))
      <4> DEFINE s == SubSeq(p, i - 1, Len(p))
                 t == SubSeq(c, i, Len(c))
      <4>1. /\ s \in Seq(EnvIds) /\ Len(s) = Len(p) - (i - 1) + 1
            /\ \A k \in 1 .. Len(p) - (i - 1) + 1 : s[k] = p[(i - 1) + k - 1]
        <5>1. \A k \in i - 1 .. Len(p) : p[k] \in EnvIds
          BY <1>2, <1>3, <3>1, ElementOfSeq
        <5> HIDE DEF s
        <5> QED BY <1>3, <3>1, <5>1, SubSeqProperties DEF s
      <4>2. /\ t \in Seq(EnvIds) /\ Len(t) = Len(c) - i + 1
            /\ \A k \in 1 .. Len(c) - i + 1 : t[k] = c[i + k - 1]
        <5>1. \A k \in i .. Len(c) : c[k] \in EnvIds
          BY <1>4, <1>3, ElementOfSeq
        <5> HIDE DEF t
        <5> QED BY <1>3, <1>4, <5>1, SubSeqProperties DEF t
      <4> HIDE DEF s, t
      <4>3. Len(s) = Len(t) /\ \A k \in 1 .. Len(s) : s[k] = t[k]
        <5>1. Len(s) = Len(t)
          BY <1>3, <1>4, <3>1, <4>1, <4>2
        <5>2. ASSUME NEW k \in 1 .. Len(s) PROVE s[k] = t[k]
          <6>1. i + k - 1 \in 2 .. Len(c) /\ (i + k - 1) - 1 = (i - 1) + k - 1
            BY <1>3, <1>4, <3>1, <4>1
          <6>2. c[i + k - 1] = p[(i + k - 1) - 1]
            BY <1>4, <6>1
          <6>3. k \in 1 .. Len(p) - (i - 1) + 1 /\ k \in 1 .. Len(c) - i + 1
            BY <1>3, <1>4, <3>1, <4>1
          <6> QED BY <4>1, <4>2, <6>1, <6>2, <6>3
        <5> QED BY <5>1, <5>2
      <4> QED BY <4>1, <4>2, <4>3, SeqEqual DEF s, t
    <3> QED BY <3>2, <3>3
  <2> QED BY <2>1, <2>2
<1>12. HeapOK(fs)
  BY <1>6, <1>7, <1>9, <1>10, <1>11 DEF HeapOK
<1> QED BY <1>6, <1>7, <1>8, <1>12 DEF fs, c, p, Allocated

\* The innermost binding is unique, so the lookup's result is known from any
\* depth that qualifies.
LEMMA FindIsInnermost ==
  ASSUME NEW es, NEW e, NEW x, NEW i, IsInnermost(es, e, x, i), Len(es[e].chain) \in Nat
  PROVE  Find(es, e, x) = es[e].chain[i]
<1> DEFINE B == BindingDepths(es, e, x)
           k == CHOOSE j \in B : IsInnermost(es, e, x, j)
<1>1. i \in B /\ B \subseteq Nat
  BY DEF IsInnermost, BindingDepths
<1>2. k \in B /\ IsInnermost(es, e, x, k)
  BY <1>1
<1>3. Find(es, e, x) = es[e].chain[k]
  BY <1>1 DEF Find
<1> HIDE DEF k
<1>4. k = i
  BY <1>1, <1>2 DEF IsInnermost
<1> QED BY <1>3, <1>4

\* An environment of a proper heap has a finite chain of environments.
LEMMA ChainProperties ==
  ASSUME NEW es, HeapOK(es), NEW e \in Allocated(es)
  PROVE  /\ Len(es[e].chain) \in Nat
         /\ \A i \in 1 .. Len(es[e].chain) : es[e].chain[i] \in Allocated(es)
<1>1. es \in Seq(EnvRecord) /\ Len(es) \in Nat /\ e \in 1 .. Len(es)
  BY LenProperties DEF HeapOK, Allocated
<1>2. es[e].chain \in Seq(EnvIds)
  <2>1. es[e] \in EnvRecord
    BY <1>1, ElementOfSeq
  <2> QED BY <2>1 DEF EnvRecord
<1>3. WellFoundedChain(es, e)
  BY DEF HeapOK
<1> QED BY <1>1, <1>2, <1>3, LenProperties DEF WellFoundedChain, Allocated

\* When a value is set under a name in one environment, a lookup of another
\* name is not affected, and neither is one that stops before it gets there.
LEMMA GetElsewhere ==
  ASSUME NEW es, HeapOK(es), NEW e \in Allocated(es), NEW x \in Names, NEW v \in Value,
         NEW d \in Allocated(es), NEW y \in Names,
         y = x => \A i \in 1 .. Len(es[d].chain) : es[d].chain[i] = e =>
                    \E j \in 1 .. i - 1 : es[es[d].chain[j]].vars[x] # Unbound
  PROVE  Get(AddTo(es, e, x, v), d, y) = Get(es, d, y)
<1> DEFINE fs == AddTo(es, e, x, v)
           c == es[d].chain
           B == BindingDepths(es, d, y)
           C == BindingDepths(fs, d, y)
<1>1. /\ HeapOK(fs)
      /\ Allocated(fs) = Allocated(es)
      /\ \A g \in Allocated(es) :
           /\ fs[g].chain = es[g].chain
           /\ \A z \in Names : fs[g].vars[z] = IF g = e /\ z = x THEN v ELSE es[g].vars[z]
  <2>1. v \in Slot
    BY UnboundIsNoValue
  <2>2. HeapOK(fs) /\ Len(fs) = Len(es)
    BY <2>1, AddToProperties
  <2>3. \A g \in Allocated(es) :
           /\ fs[g].chain = es[g].chain
           /\ \A z \in Names : fs[g].vars[z] = IF g = e /\ z = x THEN v ELSE es[g].vars[z]
    BY <2>1, AddToProperties
  <2> QED BY <2>2, <2>3 DEF Allocated
<1>2. Len(c) \in Nat /\ \A i \in 1 .. Len(c) : c[i] \in Allocated(es)
  BY ChainProperties
<1>3. fs[d].chain = c
  BY <1>1
<1> HIDE DEF fs, c
<1>4. B \subseteq C /\ C \subseteq 1 .. Len(c) /\ B \subseteq Nat
  BY <1>1, <1>2, <1>3, UnboundIsNoValue DEF BindingDepths, c
<1>5. ASSUME NEW i \in C, i \notin B
      PROVE  \E j \in B : j < i
  <2>1. i \in 1 .. Len(c) /\ c[i] = e /\ y = x
    BY <1>1, <1>2, <1>3, <1>5 DEF BindingDepths, c
  <2>2. PICK j \in 1 .. i - 1 : es[c[j]].vars[x] # Unbound
    BY <2>1 DEF c
  <2>3. j \in B /\ j < i
    BY <1>2, <2>1, <2>2 DEF BindingDepths, c
  <2> QED BY <2>3
<1>6. CASE B = {}
  <2>1. C = {}
    BY <1>4, <1>5, <1>6
  <2> QED BY <1>6, <2>1 DEF Get, Find, fs
<1>7. CASE B # {}
  <2>1. PICK k \in 1 .. Len(c) : IsInnermost(es, d, y, k)
    BY <1>7, FindProperties DEF c
  <2>2. k \in B /\ k \in C /\ \A j \in B : k <= j
    BY <1>4, <2>1 DEF IsInnermost
  <2>3. \A i \in C : k <= i
    BY <1>2, <1>4, <1>5, <2>2
  <2>4. IsInnermost(fs, d, y, k)
    BY <2>2, <2>3 DEF IsInnermost
  <2>5. Find(es, d, y) = c[k]
    BY <1>2, <2>1, FindIsInnermost DEF c
  <2>6. Find(fs, d, y) = c[k]
    BY <1>2, <1>3, <2>4, FindIsInnermost
  <2>7. ~ (c[k] = e /\ y = x)
    <3> SUFFICES ASSUME c[k] = e, y = x PROVE FALSE
      OBVIOUS
    <3>1. PICK j \in 1 .. k - 1 : es[c[j]].vars[x] # Unbound
      BY DEF c
    <3>2. j \in B /\ j < k
      BY <1>2, <3>1 DEF BindingDepths, c
    <3> QED BY <1>2, <2>2, <3>2
  <2>8. fs[c[k]].vars[y] = es[c[k]].vars[y]
    BY <1>1, <1>2, <2>7
  <2>9. c[k] # NoEnv
    BY <1>2 DEF Allocated, NoEnv
  <2> QED BY <2>5, <2>6, <2>8, <2>9 DEF Get, fs
<1> QED BY <1>6, <1>7
=============================================================================
