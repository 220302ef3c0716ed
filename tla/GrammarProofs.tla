---------------------------- MODULE GrammarProofs ----------------------------
(***************************************************************************)
(* Proofs about Parser and the grammar: for sources of any length, what is  *)
(* accepted is derived, and the tree reads as its tokens.                   *)
(*                                                                         *)
(* An item of `todo` is a relation: between the nodes and tokens there are  *)
(* when it is begun and those when it is done.  A function does what its    *)
(* statements do one after the other, so when an item gives way to others   *)
(* nothing more can come of them than was promised of it.  The invariant:   *)
(* whatever the items left do from here, what they end with is one tree     *)
(* of all the tokens.                                                       *)
(***************************************************************************)
EXTENDS GrammarRules, ParserProofs

-----------------------------------------------------------------------------
(* Sequences.                                                               *)

\* Named, as a prover that has this equation for all sequences applies it without end.
Join(s, t, u) == s \o (t \o u) = (s \o t) \o u

LEMMA Associates ==
  ASSUME NEW s, NEW t, NEW u, IsSeq(s), IsSeq(t), IsSeq(u)
  PROVE  Join(s, t, u)
<1>1. PICK S, T, U : s \in Seq(S) /\ t \in Seq(T) /\ u \in Seq(U)
  BY DEF IsSeq
<1> DEFINE V == S \cup T \cup U
<1>2. s \in Seq(V) /\ t \in Seq(V) /\ u \in Seq(V)
  BY <1>1, SeqMonotonic
<1> HIDE DEF V
<1> QED BY <1>2, ConcatAssociative DEF Join

LEMMA Appends ==
  ASSUME NEW s, NEW e, IsSeq(s)
  PROVE  Append(s, e) = s \o <<e>>
<1>1. PICK S : s \in Seq(S)
  BY DEF IsSeq
<1>2. s \in Seq(S \cup {e}) /\ e \in S \cup {e}
  BY <1>1, SeqMonotonic
<1> QED BY <1>2, AppendIsConcat

LEMMA Cat ==
  /\ \A s, t : IsSeq(s) /\ IsSeq(t) => IsSeq(s \o t)
  /\ \A s, t, u : IsSeq(s) /\ IsSeq(t) /\ IsSeq(u) => Join(s, t, u)
  /\ \A s : IsSeq(s) => s \o <<>> = s /\ <<>> \o s = s
  /\ \A s, e : IsSeq(s) => Append(s, e) = s \o <<e>>
  /\ \A e : IsSeq(<<e>>)
  /\ IsSeq(<<>>)
<1>1. ASSUME NEW s, NEW t, IsSeq(s), IsSeq(t)
      PROVE  IsSeq(s \o t) /\ s \o <<>> = s /\ <<>> \o s = s
  <2>1. PICK S, T : s \in Seq(S) /\ t \in Seq(T)
    BY <1>1 DEF IsSeq
  <2> DEFINE V == S \cup T
  <2>2. s \in Seq(V) /\ t \in Seq(V)
    BY <2>1, SeqMonotonic
  <2> HIDE DEF V
  <2>3. s \o t \in Seq(V) /\ s \o <<>> = s /\ <<>> \o s = s
    BY <2>2, ConcatProperties, ConcatEmptySeq
  <2> QED BY <2>3 DEF IsSeq
<1>2. \A s, t, u : IsSeq(s) /\ IsSeq(t) /\ IsSeq(u) => Join(s, t, u)
  BY Associates
<1>3. \A s, e : IsSeq(s) => Append(s, e) = s \o <<e>>
  BY Appends
<1>4. IsSeq(<<>>) /\ \A e : IsSeq(<<e>>)
  <2>1. <<>> \in Seq({}) /\ \A e : <<e>> \in Seq({e})
    OBVIOUS
  <2> QED BY <2>1 DEF IsSeq
<1>5. \A s, t : IsSeq(s) /\ IsSeq(t) => IsSeq(s \o t)
  BY <1>1
<1>6. \A s : IsSeq(s) => s \o <<>> = s /\ <<>> \o s = s
  BY <1>1, <1>4
<1> QED BY <1>2, <1>3, <1>4, <1>5, <1>6

LEMMA LastOf ==
  ASSUME NEW S, NEW s \in Seq(S), NEW e \in S, NEW u \in Seq(S), Len(u) = Len(s) + 1,
         \A i \in 1 .. Len(s) : u[i] = s[i], u[Len(s) + 1] = e
  PROVE  s \o <<e>> = u
<1>1. Append(s, e) = s \o <<e>>
  BY AppendIsConcat
<1>2. /\ Append(s, e) \in Seq(S) /\ Len(Append(s, e)) = Len(s) + 1
      /\ \A i \in 1 .. Len(s) : Append(s, e)[i] = s[i]
      /\ Append(s, e)[Len(s) + 1] = e
  BY AppendProperties
<1>3. Len(s) \in Nat
  BY LenProperties
<1>4. ASSUME NEW i \in 1 .. Len(u) PROVE Append(s, e)[i] = u[i]
  <2>1. i \in 1 .. Len(s) \/ i = Len(s) + 1
    BY <1>3
  <2> QED BY <1>2, <2>1
<1> QED BY <1>1, <1>2, <1>4, SeqEqual

LEMMA Tuple2 ==
  ASSUME NEW a, NEW b
  PROVE  <<a>> \o <<b>> = <<a, b>>
<1> DEFINE S == {a, b}
           s == <<a>>
           u == <<a, b>>
<1>1. s \in Seq(S) /\ u \in Seq(S) /\ b \in S
  OBVIOUS
<1>2. Len(s) = 1 /\ Len(u) = 2 /\ u[2] = b /\ \A i \in 1 .. 1 : u[i] = s[i]
  OBVIOUS
<1> HIDE DEF S, s, u
<1>3. Len(u) = Len(s) + 1 /\ u[Len(s) + 1] = b /\ \A i \in 1 .. Len(s) : u[i] = s[i]
  BY <1>2
<1>4. s \o <<b>> = u
  BY <1>1, <1>3, LastOf
<1> QED BY <1>4 DEF s, u

LEMMA Tuple3 ==
  ASSUME NEW a, NEW b, NEW c
  PROVE  <<a, b>> \o <<c>> = <<a, b, c>>
<1> DEFINE S == {a, b, c}
           s == <<a, b>>
           u == <<a, b, c>>
<1>1. s \in Seq(S) /\ u \in Seq(S) /\ c \in S
  OBVIOUS
<1>2. Len(s) = 2 /\ Len(u) = 3 /\ u[3] = c /\ \A i \in 1 .. 2 : u[i] = s[i]
  OBVIOUS
<1> HIDE DEF S, s, u
<1>3. Len(u) = Len(s) + 1 /\ u[Len(s) + 1] = c /\ \A i \in 1 .. Len(s) : u[i] = s[i]
  BY <1>2
<1>4. s \o <<c>> = u
  BY <1>1, <1>3, LastOf
<1> QED BY <1>4 DEF s, u

LEMMA Tuple4 ==
  ASSUME NEW a, NEW b, NEW c, NEW d
  PROVE  <<a, b, c>> \o <<d>> = <<a, b, c, d>>
<1> DEFINE S == {a, b, c, d}
           s == <<a, b, c>>
           u == <<a, b, c, d>>
<1>1. s \in Seq(S) /\ u \in Seq(S) /\ d \in S
  OBVIOUS
<1>2. Len(s) = 3 /\ Len(u) = 4 /\ u[4] = d /\ \A i \in 1 .. 3 : u[i] = s[i]
  OBVIOUS
<1> HIDE DEF S, s, u
<1>3. Len(u) = Len(s) + 1 /\ u[Len(s) + 1] = d /\ \A i \in 1 .. Len(s) : u[i] = s[i]
  BY <1>2
<1>4. s \o <<d>> = u
  BY <1>1, <1>3, LastOf
<1> QED BY <1>4 DEF s, u

LEMMA Tuple5 ==
  ASSUME NEW a, NEW b, NEW c, NEW d, NEW e
  PROVE  <<a, b, c, d>> \o <<e>> = <<a, b, c, d, e>>
<1> DEFINE S == {a, b, c, d, e}
           s == <<a, b, c, d>>
           u == <<a, b, c, d, e>>
<1>1. s \in Seq(S) /\ u \in Seq(S) /\ e \in S
  OBVIOUS
<1>2. Len(s) = 4 /\ Len(u) = 5 /\ u[5] = e /\ \A i \in 1 .. 4 : u[i] = s[i]
  OBVIOUS
<1> HIDE DEF S, s, u
<1>3. Len(u) = Len(s) + 1 /\ u[Len(s) + 1] = e /\ \A i \in 1 .. Len(s) : u[i] = s[i]
  BY <1>2
<1>4. s \o <<e>> = u
  BY <1>1, <1>3, LastOf
<1> QED BY <1>4 DEF s, u

LEMMA Tuple6 ==
  ASSUME NEW a, NEW b, NEW c, NEW d, NEW e, NEW f
  PROVE  <<a, b, c, d, e>> \o <<f>> = <<a, b, c, d, e, f>>
<1> DEFINE S == {a, b, c, d, e, f}
           s == <<a, b, c, d, e>>
           u == <<a, b, c, d, e, f>>
<1>1. s \in Seq(S) /\ u \in Seq(S) /\ f \in S
  OBVIOUS
<1>2. Len(s) = 5 /\ Len(u) = 6 /\ u[6] = f /\ \A i \in 1 .. 5 : u[i] = s[i]
  OBVIOUS
<1> HIDE DEF S, s, u
<1>3. Len(u) = Len(s) + 1 /\ u[Len(s) + 1] = f /\ \A i \in 1 .. Len(s) : u[i] = s[i]
  BY <1>2
<1>4. s \o <<f>> = u
  BY <1>1, <1>3, LastOf
<1> QED BY <1>4 DEF s, u

LEMMA Tuple7 ==
  ASSUME NEW a, NEW b, NEW c, NEW d, NEW e, NEW f, NEW g
  PROVE  <<a, b, c, d, e, f>> \o <<g>> = <<a, b, c, d, e, f, g>>
<1> DEFINE S == {a, b, c, d, e, f, g}
           s == <<a, b, c, d, e, f>>
           u == <<a, b, c, d, e, f, g>>
<1>1. s \in Seq(S) /\ u \in Seq(S) /\ g \in S
  OBVIOUS
<1>2. Len(s) = 6 /\ Len(u) = 7 /\ u[7] = g /\ \A i \in 1 .. 6 : u[i] = s[i]
  OBVIOUS
<1> HIDE DEF S, s, u
<1>3. Len(u) = Len(s) + 1 /\ u[Len(s) + 1] = g /\ \A i \in 1 .. Len(s) : u[i] = s[i]
  BY <1>2
<1>4. s \o <<g>> = u
  BY <1>1, <1>3, LastOf
<1> QED BY <1>4 DEF s, u

LEMMA Tuple8 ==
  ASSUME NEW a, NEW b, NEW c, NEW d, NEW e, NEW f, NEW g, NEW h
  PROVE  <<a, b, c, d, e, f, g>> \o <<h>> = <<a, b, c, d, e, f, g, h>>
<1> DEFINE S == {a, b, c, d, e, f, g, h}
           s == <<a, b, c, d, e, f, g>>
           u == <<a, b, c, d, e, f, g, h>>
<1>1. s \in Seq(S) /\ u \in Seq(S) /\ h \in S
  OBVIOUS
<1>2. Len(s) = 7 /\ Len(u) = 8 /\ u[8] = h /\ \A i \in 1 .. 7 : u[i] = s[i]
  OBVIOUS
<1> HIDE DEF S, s, u
<1>3. Len(u) = Len(s) + 1 /\ u[Len(s) + 1] = h /\ \A i \in 1 .. Len(s) : u[i] = s[i]
  BY <1>2
<1>4. s \o <<h>> = u
  BY <1>1, <1>3, LastOf
<1> QED BY <1>4 DEF s, u

LEMMA Tuples ==
  /\ \A a, b : <<a>> \o <<b>> = <<a, b>>
  /\ \A a, b, c : <<a, b>> \o <<c>> = <<a, b, c>>
  /\ \A a, b, c, d : <<a, b, c>> \o <<d>> = <<a, b, c, d>>
  /\ \A a, b, c, d, e : <<a, b, c, d>> \o <<e>> = <<a, b, c, d, e>>
  /\ \A a, b, c, d, e, f : <<a, b, c, d, e>> \o <<f>> = <<a, b, c, d, e, f>>
  /\ \A a, b, c, d, e, f, g : <<a, b, c, d, e, f>> \o <<g>> = <<a, b, c, d, e, f, g>>
  /\ \A a, b, c, d, e, f, g, h : <<a, b, c, d, e, f, g>> \o <<h>> = <<a, b, c, d, e, f, g, h>>
  BY Tuple2, Tuple3, Tuple4, Tuple5, Tuple6, Tuple7, Tuple8

LEMMA TupleSeqs ==
  /\ \A a, b : IsSeq(<<a, b>>) /\ Len(<<a, b>>) = 2
  /\ \A a, b, c : IsSeq(<<a, b, c>>) /\ Len(<<a, b, c>>) = 3
  /\ \A a, b, c, d : IsSeq(<<a, b, c, d>>) /\ Len(<<a, b, c, d>>) = 4
<1>1. ASSUME NEW a, NEW b PROVE IsSeq(<<a, b>>) /\ Len(<<a, b>>) = 2
  <2>1. <<a, b>> \in Seq({a, b}) /\ Len(<<a, b>>) = 2
    OBVIOUS
  <2> QED BY <2>1 DEF IsSeq
<1>2. ASSUME NEW a, NEW b, NEW c PROVE IsSeq(<<a, b, c>>) /\ Len(<<a, b, c>>) = 3
  <2>1. <<a, b, c>> \in Seq({a, b, c}) /\ Len(<<a, b, c>>) = 3
    OBVIOUS
  <2> QED BY <2>1 DEF IsSeq
<1>3. ASSUME NEW a, NEW b, NEW c, NEW d PROVE IsSeq(<<a, b, c, d>>) /\ Len(<<a, b, c, d>>) = 4
  <2>1. <<a, b, c, d>> \in Seq({a, b, c, d}) /\ Len(<<a, b, c, d>>) = 4
    OBVIOUS
  <2> QED BY <2>1 DEF IsSeq
<1> QED BY <1>1, <1>2, <1>3

-----------------------------------------------------------------------------
(* Words and what derives them.                                             *)

Words == Seq(Tokens)

LEMMA WordsCat ==
  /\ <<>> \in Words
  /\ \A k \in Tokens : <<k>> \in Words
  /\ \A u \in Words : IsSeq(u)
  /\ \A u, v \in Words : u \o v \in Words
<1>1. <<>> \in Words /\ \A k \in Tokens : <<k>> \in Words
  BY DEF Words
<1>2. \A u \in Words : IsSeq(u)
  BY DEF Words, IsSeq
<1>3. \A u, v \in Words : u \o v \in Words
  BY ConcatProperties DEF Words
<1> QED BY <1>1, <1>2, <1>3

LEMMA Joining == \A u, v, w \in Words : Join(u, v, w)
  BY WordsCat, Associates

SixJoin(a, b, c, d, e, f) ==
  /\ ((((a \o b) \o c) \o d) \o e) \o f = ((a \o b) \o (c \o d)) \o (e \o f)
  /\ a \o (((b \o c) \o d) \o (e \o f)) = ((((a \o b) \o c) \o d) \o e) \o f
LEMMA SixJoining ==
  ASSUME NEW a \in Words, NEW b \in Words, NEW c \in Words, NEW d \in Words, NEW e \in Words,
         NEW f \in Words
  PROVE  SixJoin(a, b, c, d, e, f)
<1>1. a \o b \in Words /\ b \o c \in Words /\ e \o f \in Words
  BY WordsCat
<1>2. (a \o b) \o c \in Words /\ (b \o c) \o d \in Words
  BY <1>1, WordsCat
<1>3. ((a \o b) \o c) \o d \in Words
  BY <1>2, WordsCat
<1>4. Join(a \o b, c, d) /\ Join(((a \o b) \o c) \o d, e, f)
  BY <1>1, <1>3, Joining
<1>5. Join(a, b, c) /\ Join(a, b \o c, d) /\ Join(a, (b \o c) \o d, e \o f)
  BY <1>1, <1>2, Joining
<1>6. (a \o b) \o (c \o d) = ((a \o b) \o c) \o d
  BY <1>4 DEF Join
<1>7. (((a \o b) \o c) \o d) \o (e \o f) = ((((a \o b) \o c) \o d) \o e) \o f
  BY <1>4 DEF Join
<1>8. a \o (b \o c) = (a \o b) \o c
  BY <1>5 DEF Join
<1>9. a \o ((b \o c) \o d) = (a \o (b \o c)) \o d
  BY <1>5 DEF Join
<1>10. a \o (((b \o c) \o d) \o (e \o f)) = (a \o ((b \o c) \o d)) \o (e \o f)
  BY <1>5 DEF Join
<1> QED BY <1>6, <1>7, <1>8, <1>9, <1>10 DEF SixJoin

\* From form G comes the word u, and form H is left.
Rewrites(G, H, u) ==
  \A F, rest : IsSeq(F) /\ rest \in Words /\ Derives(H \o F, rest, TRUE)
                 => Derives(G \o F, u \o rest, TRUE)

LEMMA FromNothing == ASSUME NEW G PROVE Rewrites(G, G, <<>>)
  BY WordsCat, Cat DEF Rewrites

LEMMA OnAndOn ==
  ASSUME NEW G, NEW H, NEW K, NEW u \in Words, NEW v \in Words,
         Rewrites(G, H, u), Rewrites(H, K, v)
  PROVE  Rewrites(G, K, u \o v)
<1> SUFFICES ASSUME NEW F, NEW rest \in Words, IsSeq(F), Derives(K \o F, rest, TRUE)
             PROVE  Derives(G \o F, (u \o v) \o rest, TRUE)
  BY DEF Rewrites
<1>1. Derives(H \o F, v \o rest, TRUE) /\ v \o rest \in Words
  BY WordsCat DEF Rewrites
<1>2. Derives(G \o F, u \o (v \o rest), TRUE)
  BY <1>1 DEF Rewrites
<1>3. (u \o v) \o rest = u \o (v \o rest)
  <2>1. Join(u, v, rest)
    BY Joining
  <2> QED BY <2>1 DEF Join
<1> QED BY <1>2, <1>3

LEMMA BesideOthers ==
  ASSUME NEW G, NEW H, NEW K, IsSeq(G), IsSeq(H), IsSeq(K), NEW u \in Words, Rewrites(G, H, u)
  PROVE  Rewrites(G \o K, H \o K, u)
<1> SUFFICES ASSUME NEW F, NEW rest \in Words, IsSeq(F), Derives((H \o K) \o F, rest, TRUE)
             PROVE  Derives((G \o K) \o F, u \o rest, TRUE)
  BY DEF Rewrites
<1>1. /\ IsSeq(K \o F) /\ (H \o K) \o F = H \o (K \o F)
      /\ (G \o K) \o F = G \o (K \o F)
  <2>1. IsSeq(K \o F)
    BY Cat
  <2>2. (H \o K) \o F = H \o (K \o F)
    <3>1. Join(H, K, F)
      BY Associates
    <3> QED BY <3>1 DEF Join
  <2>3. (G \o K) \o F = G \o (K \o F)
    <3>1. Join(G, K, F)
      BY Associates
    <3> QED BY <3>1 DEF Join
  <2> QED BY <2>1, <2>2, <2>3
<1>2. Derives(H \o (K \o F), rest, TRUE)
  BY <1>1
<1>3. Derives(G \o (K \o F), u \o rest, TRUE)
  BY <1>1, <1>2 DEF Rewrites
<1> QED BY <1>1, <1>3

\* One form after another.
LEMMA OneByOne ==
  ASSUME NEW G, NEW K, NEW L, IsSeq(G), IsSeq(K), NEW u \in Words, NEW v \in Words,
         Rewrites(G, <<>>, u), Rewrites(K, L, v)
  PROVE  Rewrites(G \o K, L, u \o v)
<1>1. Rewrites(G \o K, <<>> \o K, u) /\ <<>> \o K = K
  BY BesideOthers, Cat
<1> QED BY <1>1, OnAndOn

LEMMA Unfolds ==
  ASSUME DerivesLaw, NEW form, IsSeq(form), NEW tokens, IsSeq(tokens), NEW whole \in BOOLEAN
  PROVE  Derives(form, tokens, whole) = DerivesBy(form, tokens, whole, Derives)
<1>1. PICK S, T : form \in Seq(S) /\ tokens \in Seq(T)
  BY DEF IsSeq
<1>2. form \in Seq(S \cup T) /\ tokens \in Seq(S \cup T)
  BY <1>1, SeqMonotonic
<1> QED BY <1>2 DEF DerivesLaw

LEMMA FirstAndRest ==
  ASSUME NEW e, NEW s, IsSeq(s)
  PROVE  LET t == <<e>> \o s IN IsSeq(t) /\ t # <<>> /\ Head(t) = e /\ Tail(t) = s
<1>1. PICK S : s \in Seq(S)
  BY DEF IsSeq
<1> DEFINE V == S \cup {e}
           d == <<e>>
           t == d \o s
<1>2. s \in Seq(V) /\ d \in Seq(V) /\ Len(d) = 1 /\ d[1] = e
  BY <1>1, SeqMonotonic
<1> HIDE DEF V, d
<1>3. /\ t \in Seq(V) /\ Len(t) = 1 + Len(s) /\ Len(s) \in Nat
      /\ \A i \in 1 .. 1 + Len(s) : t[i] = IF i <= 1 THEN d[i] ELSE s[i - 1]
  <2>1. /\ t \in Seq(V) /\ Len(t) = Len(d) + Len(s)
        /\ \A i \in 1 .. Len(d) + Len(s) : t[i] = IF i <= Len(d) THEN d[i] ELSE s[i - Len(d)]
    BY <1>2, ConcatProperties
  <2> QED BY <1>2, <2>1, LenProperties
<1> HIDE DEF t
<1>4. t # <<>> /\ t[1] = e
  BY <1>2, <1>3, EmptySeq
<1>5. /\ Tail(t) \in Seq(V) /\ Len(Tail(t)) = Len(s)
      /\ \A i \in 1 .. Len(s) : Tail(t)[i] = t[i + 1]
  BY <1>3, <1>4, HeadTailProperties
<1>6. \A i \in 1 .. Len(s) : t[i + 1] = s[i]
  BY <1>3
<1>7. Tail(t) = s
  BY <1>2, <1>5, <1>6, SeqEqual
<1>8. Head(t) = e
  BY <1>3, <1>4
<1> QED BY <1>3, <1>4, <1>7, <1>8 DEF IsSeq, t, d

\* A rule of the grammar.
LEMMA ByRule ==
  ASSUME DerivesLaw, NEW n \in DOMAIN Grammar, NEW alternative \in Grammar[n], IsSeq(alternative)
  PROVE  Rewrites(<<n>>, alternative, <<>>)
<1> SUFFICES ASSUME NEW F, NEW rest \in Words, IsSeq(F), Derives(alternative \o F, rest, TRUE)
             PROVE  Derives(<<n>> \o F, <<>> \o rest, TRUE)
  BY DEF Rewrites
<1> DEFINE form == <<n>> \o F
<1>1. <<>> \o rest = rest /\ IsSeq(rest)
  BY Cat, WordsCat
<1>2. IsSeq(form) /\ form # <<>> /\ Head(form) = n /\ Tail(form) = F
  BY FirstAndRest
<1> HIDE DEF form
<1>3. DerivesBy(form, rest, TRUE, Derives)
  BY <1>2 DEF DerivesBy
<1>4. Derives(form, rest, TRUE)
  BY <1>1, <1>2, <1>3, Unfolds
<1> QED BY <1>1, <1>4 DEF form

LEMMA Terminals == \A k \in Tokens : k \notin DOMAIN Grammar
  BY DEF Tokens, Inspected, Other, Eof, Grammar

LEMMA ByToken ==
  ASSUME DerivesLaw, NEW k \in Tokens
  PROVE  Rewrites(<<k>>, <<>>, <<k>>)
<1> SUFFICES ASSUME NEW F, NEW rest \in Words, IsSeq(F), Derives(<<>> \o F, rest, TRUE)
             PROVE  Derives(<<k>> \o F, <<k>> \o rest, TRUE)
  BY DEF Rewrites
<1> DEFINE form == <<k>> \o F
           tokens == <<k>> \o rest
<1>1. <<>> \o F = F /\ IsSeq(rest)
  BY Cat, WordsCat
<1>2. /\ IsSeq(form) /\ form # <<>> /\ Head(form) = k /\ Tail(form) = F
      /\ IsSeq(tokens) /\ tokens # <<>> /\ Head(tokens) = k /\ Tail(tokens) = rest
  BY <1>1, FirstAndRest
<1> HIDE DEF form, tokens
<1>3. DerivesBy(form, tokens, TRUE, Derives)
  BY <1>1, <1>2, Terminals DEF DerivesBy
<1>4. Derives(form, tokens, TRUE)
  BY <1>2, <1>3, Unfolds
<1> QED BY <1>4 DEF form, tokens

-----------------------------------------------------------------------------
(* What the functions leave.                                                *)

\* The names the grammar has for the functions of the operators, and for what may
\* follow an operand.
Name == [logical_or |-> "logic_or", logical_and |-> "logic_and", equality |-> "equality",
         comparison |-> "comparison", term |-> "term", factor |-> "factor", unary |-> "unary",
         call |-> "call", primary |-> "primary"]
Rest == [logical_or |-> "ors", logical_and |-> "ands", equality |-> "equals",
         comparison |-> "compares", term |-> "terms", factor |-> "factors", call |-> "calls"]

\* What a sort of tree comes from, and what is left then: an operator may follow
\* what an operator's function has made so far.
Starts(sort) ==
  IF sort \in Levels THEN <<Name[Operand[sort]], Rest[sort]>>
  ELSE IF sort = "call" THEN <<"primary", "calls">>
  ELSE IF sort = "condition" THEN <<"kLeftParen", "expression", "kRightParen">>
  ELSE IF sort = "arguments" THEN <<"maybeArguments", "kRightParen">>
  ELSE IF sort = "parameters" THEN <<"maybeParameters", "kRightParen">>
  ELSE IF sort = "statements" THEN <<"declarations", "kRightBrace">>
  ELSE <<sort>>
Leftover(sort) ==
  IF sort \in Levels \cup {"call"} THEN <<Rest[sort]>> ELSE <<>>

\* How a tree of a sort reads.
Reads(sort, node) ==
  IF sort \in {"maybeArguments", "maybeParameters"} THEN Yield(node, <<"kComma">>)
  ELSE IF sort \in {"arguments", "parameters"} THEN Yield(node, <<"kComma">>) \o <<"kRightParen">>
  ELSE IF sort = "statements" THEN Yield(node, <<>>) \o <<"kRightBrace">>
  ELSE IF sort = "condition" THEN (<<"kLeftParen">> \o Yield(node, <<>>)) \o <<"kRightParen">>
  ELSE IF sort = "initializer" /\ node = Null THEN <<"kSemicolon">>
  ELSE IF sort \in {"maybeValue", "maybeElse"} /\ node = Null THEN <<>>
  ELSE IF sort = "maybeValue" THEN <<"kEqual">> \o Yield(node, <<>>)
  ELSE IF sort = "maybeElse" THEN <<"kElse">> \o Yield(node, <<>>)
  ELSE Yield(node, <<>>)

Operandlike == Levels \cup {"unary", "call", "primary"}
Maybes == {"maybeValue", "maybeElse", "initializer", "maybeExpression"}

\* The node is of this sort and is made of these tokens.
Is(sort, node, u) ==
  /\ u \in Words
  /\ YieldLaw => u = Reads(sort, node)
  /\ DerivesLaw => Rewrites(Starts(sort), Leftover(sort), u)
  /\ node = Null => sort \in Maybes
  /\ node.what = "Variable" /\ sort \in Operandlike => u = <<"kIdentifier">>

LEMMA NodeReads ==
  ASSUME YieldLaw, NEW what, NEW op, NEW kids, IsSeq(kids), NEW separator
  PROVE  Yield(Node(what, op, kids), separator)
           = YieldOf(Node(what, op, kids), separator, Yield)
<1>1. PICK S : kids \in Seq(S)
  BY DEF IsSeq
<1> QED BY <1>1 DEF YieldLaw

LEMMA LevelNames == Levels = {"logical_or", "logical_and", "equality", "comparison", "term", "factor"}
  BY DEF Levels, Ops

\* The sorts that are a symbol of the grammar.
LEMMA OneSymbol ==
  ASSUME NEW sort, sort \notin Levels \cup {"call", "condition", "arguments", "parameters",
                                            "statements"}
  PROVE  Starts(sort) = <<sort>> /\ Leftover(sort) = <<>>
  BY DEF Starts, Leftover

\* The rules that the parser applies.
Rule(n, alternative) == n \in DOMAIN Grammar /\ alternative \in Grammar[n]
LEMMA Rules ==
  /\ Rule("declarations", <<>>) /\ Rule("declarations", <<"declaration", "declarations">>)
  /\ Rule("declaration", <<"varDecl">>) /\ Rule("declaration", <<"statement">>)
  /\ Rule("declaration", <<"funcDecl">>)
  /\ Rule("varDecl", <<"kVar", "kIdentifier", "maybeValue", "kSemicolon">>)
  /\ Rule("maybeValue", <<>>) /\ Rule("maybeValue", <<"kEqual", "expression">>)
  /\ Rule("funcDecl", <<"kFun", "function">>)
  /\ \A k \in Tokens :
       Rule("function", <<k, "kLeftParen", "maybeParameters", "kRightParen", "block">>)
  /\ \A k \in {"exprStmt", "printStmt", "block", "ifStmt", "whileStmt", "forStmt", "returnStmt"} :
       Rule("statement", <<k>>)
  /\ Rule("exprStmt", <<"expression", "kSemicolon">>)
  /\ Rule("printStmt", <<"kPrint", "expression", "kSemicolon">>)
  /\ Rule("block", <<"kLeftBrace", "declarations", "kRightBrace">>)
<1>1. \A k \in Tokens :
        Rule("function", <<k, "kLeftParen", "maybeParameters", "kRightParen", "block">>)
  BY DEF Rule, Grammar, Tokens
<1>2. \A k \in {"exprStmt", "printStmt", "block", "ifStmt", "whileStmt", "forStmt", "returnStmt"} :
        Rule("statement", <<k>>)
  BY DEF Rule, Grammar
<1>3. /\ Rule("declarations", <<>>) /\ Rule("declarations", <<"declaration", "declarations">>)
      /\ Rule("declaration", <<"varDecl">>) /\ Rule("declaration", <<"statement">>)
      /\ Rule("declaration", <<"funcDecl">>)
  BY DEF Rule, Grammar
<1>4. /\ Rule("varDecl", <<"kVar", "kIdentifier", "maybeValue", "kSemicolon">>)
      /\ Rule("maybeValue", <<>>) /\ Rule("maybeValue", <<"kEqual", "expression">>)
      /\ Rule("funcDecl", <<"kFun", "function">>)
  BY DEF Rule, Grammar
<1>5. /\ Rule("exprStmt", <<"expression", "kSemicolon">>)
      /\ Rule("printStmt", <<"kPrint", "expression", "kSemicolon">>)
      /\ Rule("block", <<"kLeftBrace", "declarations", "kRightBrace">>)
  BY DEF Rule, Grammar
<1> QED BY <1>1, <1>2, <1>3, <1>4, <1>5

LEMMA MoreRules ==
  /\ Rule("ifStmt",
          <<"kIf", "kLeftParen", "expression", "kRightParen", "statement", "maybeElse">>)
  /\ Rule("maybeElse", <<>>) /\ Rule("maybeElse", <<"kElse", "statement">>)
  /\ Rule("whileStmt", <<"kWhile", "kLeftParen", "expression", "kRightParen", "statement">>)
  /\ Rule("forStmt", <<"kFor", "kLeftParen", "initializer", "maybeExpression", "kSemicolon",
                       "maybeExpression", "kRightParen", "statement">>)
  /\ Rule("initializer", <<"varDecl">>) /\ Rule("initializer", <<"exprStmt">>)
  /\ Rule("initializer", <<"kSemicolon">>)
  /\ Rule("returnStmt", <<"kReturn", "maybeExpression", "kSemicolon">>)
  /\ Rule("maybeExpression", <<>>) /\ Rule("maybeExpression", <<"expression">>)
  /\ Rule("expression", <<"assignment">>)
  /\ Rule("assignment", <<"kIdentifier", "kEqual", "assignment">>)
  /\ Rule("assignment", <<"logic_or">>)
  BY DEF Rule, Grammar

LEMMA OperatorRules ==
  /\ \A l \in Levels : /\ Rule(Name[l], <<Name[Operand[l]], Rest[l]>>)
                       /\ Rule(Rest[l], <<>>)
                       /\ \A op \in Ops[l] : Rule(Rest[l], <<op, Name[Operand[l]], Rest[l]>>)
  /\ Rule("unary", <<"kBang", "unary">>) /\ Rule("unary", <<"kMinus", "unary">>)
  /\ Rule("unary", <<"call">>)
  /\ Rule("call", <<"primary", "calls">>)
  /\ Rule("calls", <<>>)
  /\ Rule("calls", <<"kLeftParen", "maybeArguments", "kRightParen", "calls">>)
  /\ \A k \in Constants \cup {"kIdentifier"} : Rule("primary", <<k>>)
  /\ Rule("primary", <<"kLeftParen", "expression", "kRightParen">>)
<1>1. /\ Rule("unary", <<"kBang", "unary">>) /\ Rule("unary", <<"kMinus", "unary">>)
      /\ Rule("unary", <<"call">>) /\ Rule("call", <<"primary", "calls">>)
      /\ Rule("calls", <<>>)
      /\ Rule("calls", <<"kLeftParen", "maybeArguments", "kRightParen", "calls">>)
  BY DEF Rule, Grammar
<1>2. /\ \A k \in Constants \cup {"kIdentifier"} : Rule("primary", <<k>>)
      /\ Rule("primary", <<"kLeftParen", "expression", "kRightParen">>)
  BY DEF Rule, Grammar
<1>3. ASSUME NEW l \in Levels
      PROVE  /\ Rule(Name[l], <<Name[Operand[l]], Rest[l]>>)
             /\ Rule(Rest[l], <<>>)
             /\ \A op \in Ops[l] : Rule(Rest[l], <<op, Name[Operand[l]], Rest[l]>>)
  <2>1. CASE l \in {"logical_or", "logical_and"}
    BY <2>1 DEF Rule, Grammar, Repeated, Name, Operand, Rest, Ops
  <2>2. CASE l \in {"equality", "comparison"}
    BY <2>2 DEF Rule, Grammar, Repeated, Name, Operand, Rest, Ops
  <2>3. CASE l \in {"term", "factor"}
    BY <2>3 DEF Rule, Grammar, Repeated, Name, Operand, Rest, Ops
  <2> QED BY <2>1, <2>2, <2>3, LevelNames
<1> QED BY <1>1, <1>2, <1>3

LEMMA ListRules ==
  /\ Rule("maybeArguments", <<>>) /\ Rule("maybeParameters", <<>>)
  /\ \A n \in 1 .. MaxList : /\ Rule("maybeArguments", Listed("expression", n))
                             /\ Rule("maybeParameters", Listed("kIdentifier", n))
  BY DEF Rule, Grammar, List

LEMMA Prefixed ==
  /\ \A a, b, c : <<a>> \o <<b, c>> = <<a, b, c>>
  /\ \A a, b, c, d : <<a>> \o <<b, c, d>> = <<a, b, c, d>>
<1>1. ASSUME NEW a, NEW b, NEW c PROVE <<a>> \o <<b, c>> = <<a, b, c>>
  <2>1. (<<a>> \o <<b>>) \o <<c>> = <<a>> \o (<<b>> \o <<c>>)
    BY Cat
  <2>2. <<a>> \o <<b>> = <<a, b>> /\ <<b>> \o <<c>> = <<b, c>> /\ <<a, b>> \o <<c>> = <<a, b, c>>
    BY Tuples
  <2> QED BY <2>1, <2>2
<1>2. ASSUME NEW a, NEW b, NEW c, NEW d PROVE <<a>> \o <<b, c, d>> = <<a, b, c, d>>
  <2>1. (<<a>> \o <<b, c>>) \o <<d>> = <<a>> \o (<<b, c>> \o <<d>>)
    BY Cat, TupleSeqs
  <2>2. <<a>> \o <<b, c>> = <<a, b, c>>
    BY <1>1
  <2>3. <<b, c>> \o <<d>> = <<b, c, d>> /\ <<a, b, c>> \o <<d>> = <<a, b, c, d>>
    BY Tuples
  <2> QED BY <2>1, <2>2, <2>3
<1> QED BY <1>1, <1>2

\* Where a rule begins.
LEMMA Applied ==
  ASSUME DerivesLaw, NEW n, NEW alternative, Rule(n, alternative), IsSeq(alternative),
         NEW L, NEW u \in Words, Rewrites(alternative, L, u)
  PROVE  Rewrites(<<n>>, L, u)
<1>1. Rewrites(<<n>>, alternative, <<>>)
  BY ByRule DEF Rule
<1>2. <<>> \in Words /\ <<>> \o u = u
  BY WordsCat, Cat
<1>3. Rewrites(<<n>>, L, <<>> \o u)
  BY <1>1, <1>2, OnAndOn
<1> QED BY <1>2, <1>3

LEMMA Applied1 ==
  ASSUME DerivesLaw, NEW n, NEW m, Rule(n, <<m>>), NEW u \in Words, Rewrites(<<m>>, <<>>, u)
  PROVE  Rewrites(<<n>>, <<>>, u)
<1>1. IsSeq(<<m>>)
  BY Cat
<1> QED BY <1>1, Applied

\* A starred part may end.
LEMMA Ends ==
  ASSUME DerivesLaw, NEW G, NEW n, Rule(n, <<>>), NEW u \in Words, Rewrites(G, <<n>>, u)
  PROVE  Rewrites(G, <<>>, u)
<1>1. Rewrites(<<n>>, <<>>, <<>>)
  BY Cat, ByRule DEF Rule
<1>2. <<>> \in Words /\ u \o <<>> = u
  BY WordsCat, Cat
<1>3. Rewrites(G, <<>>, u \o <<>>)
  BY <1>1, <1>2, OnAndOn
<1> QED BY <1>2, <1>3

LEMMA IsWord == ASSUME NEW sort, NEW a, NEW u, Is(sort, a, u) PROVE u \in Words /\ IsSeq(u)
  BY WordsCat DEF Is

\* An operand is derived from the symbol of the function that made it.
LEMMA Operands1 ==
  ASSUME DerivesLaw, NEW sort \in Operandlike, NEW a, NEW u, Is(sort, a, u)
  PROVE  Rewrites(<<Name[sort]>>, <<>>, u)
<1>1. u \in Words /\ Rewrites(Starts(sort), Leftover(sort), u)
  BY DEF Is
<1>2. CASE sort \in Levels
  <2>1. Starts(sort) = <<Name[Operand[sort]], Rest[sort]>> /\ Leftover(sort) = <<Rest[sort]>>
    BY <1>2 DEF Starts, Leftover
  <2>2. Rule(Rest[sort], <<>>) /\ Rule(Name[sort], Starts(sort)) /\ IsSeq(Starts(sort))
    BY <1>2, <2>1, OperatorRules, TupleSeqs
  <2>3. Rewrites(Starts(sort), <<>>, u)
    BY <1>1, <2>1, <2>2, Ends
  <2> QED BY <1>1, <2>2, <2>3, Applied
<1>3. CASE sort = "call"
  <2>1. "call" \notin Levels
    BY LevelNames
  <2>2. Starts(sort) = <<"primary", "calls">> /\ Leftover(sort) = <<"calls">> /\ Name[sort] = "call"
    BY <1>3, <2>1 DEF Starts, Leftover, Rest, Name
  <2>3. Rule("calls", <<>>) /\ Rule("call", Starts(sort)) /\ IsSeq(Starts(sort))
    BY <2>2, OperatorRules, TupleSeqs
  <2>4. Rewrites(Starts(sort), <<>>, u)
    BY <1>1, <2>2, <2>3, Ends
  <2> QED BY <1>1, <2>2, <2>3, <2>4, Applied
<1>4. CASE sort \in {"unary", "primary"}
  <2>1. sort \notin Levels \cup {"call", "condition", "arguments", "parameters", "statements"}
    BY <1>4, LevelNames
  <2>2. Starts(sort) = <<sort>> /\ Leftover(sort) = <<>> /\ Name[sort] = sort
    BY <1>4, <2>1, OneSymbol DEF Name
  <2> QED BY <1>1, <2>2
<1> QED BY <1>2, <1>3, <1>4 DEF Operandlike

LEMMA PlainReads ==
  ASSUME NEW sort, sort \notin {"maybeArguments", "maybeParameters", "arguments", "parameters",
                                "statements", "condition", "initializer", "maybeValue", "maybeElse"},
         NEW a
  PROVE  Reads(sort, a) = Yield(a, <<>>)
  BY DEF Reads

Expressive == Operandlike \cup {"assignment", "expression"}
LEMMA PlainSorts ==
  /\ \A sort \in Expressive \cup {"statement", "declaration", "varDecl", "exprStmt", "kIdentifier",
                                  "maybeExpression", "declarations"} :
       \A a : Reads(sort, a) = Yield(a, <<>>)
  /\ \A sort \in (Expressive \ (Levels \cup {"call"}))
                   \cup {"statement", "declaration", "varDecl", "exprStmt", "kIdentifier",
                         "maybeExpression", "declarations", "initializer", "maybeValue", "maybeElse",
                         "maybeArguments", "maybeParameters"} :
       Starts(sort) = <<sort>> /\ Leftover(sort) = <<>>
<1>1. \A sort \in Expressive \cup {"statement", "declaration", "varDecl", "exprStmt", "kIdentifier",
                                  "maybeExpression", "declarations"} :
        sort \notin {"maybeArguments", "maybeParameters", "arguments", "parameters",
                     "statements", "condition", "initializer", "maybeValue", "maybeElse"}
  BY LevelNames DEF Expressive, Operandlike
<1>2. \A sort \in (Expressive \ (Levels \cup {"call"}))
                   \cup {"statement", "declaration", "varDecl", "exprStmt", "kIdentifier",
                         "maybeExpression", "declarations", "initializer", "maybeValue", "maybeElse",
                         "maybeArguments", "maybeParameters"} :
        sort \notin Levels \cup {"call", "condition", "arguments", "parameters", "statements"}
  BY LevelNames DEF Expressive, Operandlike
<1> QED BY <1>1, <1>2, PlainReads, OneSymbol

\* A node of one sort is of another that has a rule for it.
LEMMA Widens ==
  ASSUME NEW n, NEW sort, Starts(n) = <<n>>, Leftover(n) = <<>>,
         NEW a, NEW u, Is(sort, a, u), Reads(n, a) = Reads(sort, a),
         a = Null => n \in Maybes, sort \in Operandlike \/ n \notin Operandlike,
         NEW m, DerivesLaw => Rewrites(<<m>>, <<>>, u) /\ Rule(n, <<m>>)
  PROVE  Is(n, a, u)
<1>1. ASSUME DerivesLaw PROVE Rewrites(<<n>>, <<>>, u)
  <2>1. u \in Words
    BY DEF Is
  <2> QED BY <1>1, <2>1, Applied1
<1> QED BY <1>1 DEF Is

LEMMA OperandWidens ==
  /\ \A l \in Levels : \A a, u : Is(Operand[l], a, u) => Is(l, a, u)
  /\ \A a, u : Is("call", a, u) => Is("unary", a, u)
  /\ \A a, u : Is("primary", a, u) => Is("call", a, u)
<1>0. "call" \notin Levels /\ {"call", "unary", "primary"} \cap Maybes = {} /\ Levels \cap Maybes = {}
  BY LevelNames DEF Maybes
<1>1. ASSUME NEW l \in Levels, NEW a, NEW u, Is(Operand[l], a, u) PROVE Is(l, a, u)
  <2>1. Operand[l] \in Operandlike /\ l \in Operandlike /\ Operand[l] \notin Maybes
    BY <1>0, LevelNames DEF Operandlike, Operand, Maybes
  <2>2. Reads(l, a) = Yield(a, <<>>) /\ Reads(Operand[l], a) = Yield(a, <<>>)
    BY <2>1, PlainSorts DEF Expressive
  <2>3. ASSUME DerivesLaw PROVE Rewrites(Starts(l), Leftover(l), u)
    <3>1. Rewrites(<<Name[Operand[l]]>>, <<>>, u) /\ u \in Words
      BY <1>1, <2>1, <2>3, Operands1, IsWord
    <3>2. /\ <<Name[Operand[l]]>> \o <<Rest[l]>> = <<Name[Operand[l]], Rest[l]>>
          /\ <<>> \o <<Rest[l]>> = <<Rest[l]>>
          /\ IsSeq(<<Name[Operand[l]]>>) /\ IsSeq(<<Rest[l]>>) /\ IsSeq(<<>>)
      BY Tuples, Cat
    <3>3. Rewrites(<<Name[Operand[l]], Rest[l]>>, <<Rest[l]>>, u)
      BY <3>1, <3>2, BesideOthers
    <3> QED BY <3>3 DEF Starts, Leftover
  <2> QED BY <1>1, <2>1, <2>2, <2>3 DEF Is
<1>2. ASSUME NEW a, NEW u, Is("call", a, u) PROVE Is("unary", a, u)
  <2>1. /\ Starts("unary") = <<"unary">> /\ Leftover("unary") = <<>>
        /\ Reads("unary", a) = Reads("call", a)
    BY PlainSorts, LevelNames DEF Expressive, Operandlike
  <2>2. a # Null /\ "call" \in Operandlike
    BY <1>0, <1>2 DEF Is, Operandlike
  <2>3. DerivesLaw => Rewrites(<<"call">>, <<>>, u) /\ Rule("unary", <<"call">>)
    BY <1>2, <2>2, Operands1, OperatorRules DEF Name
  <2> QED BY <1>2, <2>1, <2>2, <2>3, Widens
<1>3. ASSUME NEW a, NEW u, Is("primary", a, u) PROVE Is("call", a, u)
  <2>1. Reads("call", a) = Reads("primary", a)
    BY PlainSorts DEF Expressive, Operandlike
  <2>2. a # Null /\ "primary" \in Operandlike
    BY <1>0, <1>3 DEF Is, Operandlike
  <2>3. ASSUME DerivesLaw PROVE Rewrites(Starts("call"), Leftover("call"), u)
    <3>1. Rewrites(<<"primary">>, <<>>, u) /\ u \in Words
      BY <1>3, <2>2, <2>3, Operands1, IsWord DEF Name
    <3>2. /\ <<"primary">> \o <<"calls">> = <<"primary", "calls">>
          /\ <<>> \o <<"calls">> = <<"calls">>
          /\ IsSeq(<<"primary">>) /\ IsSeq(<<"calls">>) /\ IsSeq(<<>>)
      BY Tuples, Cat
    <3>3. Rewrites(<<"primary", "calls">>, <<"calls">>, u)
      BY <3>1, <3>2, BesideOthers
    <3> QED BY <1>0, <3>3 DEF Starts, Leftover, Rest
  <2> QED BY <1>3, <2>1, <2>2, <2>3 DEF Is, Operandlike
<1> QED BY <1>1, <1>2, <1>3

LEMMA ExpressionWidens ==
  ASSUME NEW a, NEW u
  PROVE  /\ Is("logical_or", a, u) => Is("assignment", a, u)
         /\ Is("assignment", a, u) => Is("expression", a, u)
         /\ Is("expression", a, u) => Is("maybeExpression", a, u)
<1>1. /\ \A n \in {"assignment", "expression", "maybeExpression"} :
           Starts(n) = <<n>> /\ Leftover(n) = <<>> /\ Reads(n, a) = Yield(a, <<>>)
      /\ Reads("logical_or", a) = Yield(a, <<>>)
      /\ {"assignment", "expression", "maybeExpression"} \cap Operandlike = {}
      /\ {"logical_or", "assignment", "expression"} \cap Maybes = {}
      /\ "logical_or" \in Operandlike
  BY PlainSorts, LevelNames DEF Expressive, Operandlike, Maybes
<1>2. ASSUME Is("logical_or", a, u) PROVE Is("assignment", a, u)
  <2>1. DerivesLaw => Rewrites(<<"logic_or">>, <<>>, u) /\ Rule("assignment", <<"logic_or">>)
    BY <1>1, <1>2, Operands1, MoreRules DEF Name
  <2>2. a # Null
    BY <1>1, <1>2 DEF Is
  <2> QED BY <1>1, <1>2, <2>1, <2>2, Widens
<1>3. ASSUME Is("assignment", a, u) PROVE Is("expression", a, u)
  <2>1. DerivesLaw => Rewrites(<<"assignment">>, <<>>, u) /\ Rule("expression", <<"assignment">>)
    BY <1>1, <1>3, MoreRules DEF Is
  <2>2. a # Null
    BY <1>1, <1>3 DEF Is
  <2> QED BY <1>1, <1>3, <2>1, <2>2, Widens
<1>4. ASSUME Is("expression", a, u) PROVE Is("maybeExpression", a, u)
  <2>1. DerivesLaw => Rewrites(<<"expression">>, <<>>, u) /\ Rule("maybeExpression", <<"expression">>)
    BY <1>1, <1>4, MoreRules DEF Is
  <2>2. a # Null
    BY <1>1, <1>4 DEF Is
  <2> QED BY <1>1, <1>4, <2>1, <2>2, Widens
<1> QED BY <1>2, <1>3, <1>4

LEMMA StatementWidens ==
  ASSUME NEW a, NEW u
  PROVE  /\ Is("exprStmt", a, u) => Is("statement", a, u)
         /\ Is("statement", a, u) => Is("declaration", a, u)
         /\ Is("varDecl", a, u) => Is("declaration", a, u)
         /\ Is("varDecl", a, u) => Is("initializer", a, u)
         /\ Is("exprStmt", a, u) => Is("initializer", a, u)
<1>1. /\ \A n \in {"exprStmt", "statement", "declaration", "varDecl"} :
           /\ Starts(n) = <<n>> /\ Leftover(n) = <<>> /\ Reads(n, a) = Yield(a, <<>>)
           /\ n \notin Operandlike /\ n \notin Maybes
      /\ Starts("initializer") = <<"initializer">> /\ Leftover("initializer") = <<>>
      /\ "initializer" \notin Operandlike
      /\ a # Null => Reads("initializer", a) = Yield(a, <<>>)
  BY PlainSorts, LevelNames DEF Operandlike, Maybes, Reads
<1>2. ASSUME NEW n \in {"statement", "declaration", "initializer"},
             NEW m \in {"exprStmt", "statement", "varDecl"}, Rule(n, <<m>>), Is(m, a, u)
      PROVE  Is(n, a, u)
  <2>1. DerivesLaw => Rewrites(<<m>>, <<>>, u)
    BY <1>1, <1>2 DEF Is
  <2>2. a # Null
    BY <1>1, <1>2 DEF Is
  <2> QED BY <1>1, <1>2, <2>1, <2>2, Widens
<1>3. /\ Rule("statement", <<"exprStmt">>) /\ Rule("declaration", <<"statement">>)
      /\ Rule("declaration", <<"varDecl">>) /\ Rule("initializer", <<"varDecl">>)
      /\ Rule("initializer", <<"exprStmt">>)
  BY Rules, MoreRules
<1> QED BY <1>2, <1>3

-----------------------------------------------------------------------------
(* What each node is made of.                                               *)

LEMMA AndToken ==
  ASSUME DerivesLaw, NEW G, IsSeq(G), NEW u \in Words, Rewrites(G, <<>>, u), NEW k \in Tokens
  PROVE  Rewrites(G \o <<k>>, <<>>, u \o <<k>>)
<1>1. Rewrites(<<k>>, <<>>, <<k>>) /\ <<k>> \in Words /\ IsSeq(<<k>>)
  BY ByToken, WordsCat, Cat
<1> QED BY <1>1, OneByOne

LEMMA AndSymbol ==
  ASSUME NEW G, IsSeq(G), NEW u \in Words, Rewrites(G, <<>>, u),
         NEW m, NEW L, NEW v \in Words, Rewrites(<<m>>, L, v)
  PROVE  Rewrites(G \o <<m>>, L, u \o v)
<1>1. IsSeq(<<m>>)
  BY Cat
<1> QED BY <1>1, OneByOne

LEMMA TokenKinds ==
  /\ Constants \cup {"kIdentifier", "kLeftParen", "kRightParen", "kLeftBrace", "kRightBrace",
                     "kComma", "kSemicolon", "kEqual", "kBang", "kMinus", "kVar", "kFun", "kIf",
                     "kElse", "kWhile", "kFor", "kReturn", "kPrint"} \subseteq Tokens
  /\ \A l \in Levels : Ops[l] \subseteq Tokens
<1>1. /\ Constants \cup {"kIdentifier", "kLeftParen", "kRightParen", "kLeftBrace", "kRightBrace",
                         "kComma", "kSemicolon", "kEqual", "kBang", "kMinus", "kVar", "kFun", "kIf",
                         "kElse", "kWhile", "kFor", "kReturn", "kPrint"} \subseteq Tokens
  BY DEF Constants, Tokens, Inspected
<1>2. \A l \in Levels : Ops[l] \subseteq Tokens
  BY LevelNames DEF Ops, Tokens, Inspected
<1> QED BY <1>1, <1>2

LEMMA LeafIs ==
  /\ \A k \in Constants : Is("primary", Node("Literal", k, <<>>), <<k>>)
  /\ Is("primary", Node("Variable", "kIdentifier", <<>>), <<"kIdentifier">>)
  /\ Is("kIdentifier", Node("Token", "kIdentifier", <<>>), <<"kIdentifier">>)
<1>1. /\ "primary" \in Operandlike /\ "kIdentifier" \notin Operandlike
      /\ \A a : Reads("primary", a) = Yield(a, <<>>) /\ Reads("kIdentifier", a) = Yield(a, <<>>)
      /\ Starts("primary") = <<"primary">> /\ Leftover("primary") = <<>>
      /\ Starts("kIdentifier") = <<"kIdentifier">> /\ Leftover("kIdentifier") = <<>>
  BY PlainSorts, LevelNames DEF Expressive, Operandlike
<1>2. ASSUME NEW what \in {"Literal", "Variable", "Token"}, NEW k
      PROVE  /\ YieldLaw => <<k>> = Yield(Node(what, k, <<>>), <<>>)
             /\ Node(what, k, <<>>) # Null /\ Node(what, k, <<>>).what = what
  <2>0. IsSeq(<<>>)
    BY Cat
  <2>1. YieldLaw => Yield(Node(what, k, <<>>), <<>>) = YieldOf(Node(what, k, <<>>), <<>>, Yield)
    BY <2>0, NodeReads
  <2>2. YieldOf(Node(what, k, <<>>), <<>>, Yield) = <<k>>
    BY DEF YieldOf, Node
  <2>3. Node(what, k, <<>>) # Null /\ Node(what, k, <<>>).what = what
    BY DEF Node, Null
  <2> QED BY <2>1, <2>2, <2>3
<1>3. ASSUME NEW k \in Constants \cup {"kIdentifier"}
      PROVE  /\ <<k>> \in Words
             /\ DerivesLaw => Rewrites(<<k>>, <<>>, <<k>>) /\ Rewrites(<<"primary">>, <<>>, <<k>>)
  <2>1. k \in Tokens
    BY TokenKinds
  <2>2. <<k>> \in Words /\ Rule("primary", <<k>>)
    BY <2>1, WordsCat, OperatorRules
  <2> QED BY <2>1, <2>2, ByToken, Applied1
<1> QED BY <1>1, <1>2, <1>3 DEF Is

\* A node is of a sort if it reads so and is derived so.
Results1 == Levels \cup {"unary", "call", "primary", "assignment", "varDecl", "exprStmt",
                         "statement", "declaration"}
LEMMA MadeIs ==
  ASSUME NEW sort \in Results1, NEW what, what \notin {"null", "Variable"}, NEW op,
         NEW kids, IsSeq(kids), NEW w \in Words,
         YieldLaw => YieldOf(Node(what, op, kids), <<>>, Yield) = w,
         DerivesLaw => Rewrites(Starts(sort), Leftover(sort), w)
  PROVE  Is(sort, Node(what, op, kids), w)
<1>1. Node(what, op, kids) # Null /\ Node(what, op, kids).what = what
  BY DEF Node, Null
<1>2. YieldLaw => Yield(Node(what, op, kids), <<>>) = w
  BY NodeReads
<1>3. Reads(sort, Node(what, op, kids)) = Yield(Node(what, op, kids), <<>>)
  BY PlainSorts, LevelNames DEF Results1, Expressive, Operandlike
<1> QED BY <1>1, <1>2, <1>3 DEF Is

LEMMA SortWords ==
  ASSUME NEW sort, NEW a, NEW u, Is(sort, a, u)
  PROVE  /\ u \in Words /\ IsSeq(u)
         /\ YieldLaw => u = Reads(sort, a)
         /\ DerivesLaw => Rewrites(Starts(sort), Leftover(sort), u)
  BY IsWord DEF Is

Symbols == {"primary", "unary", "assignment", "expression", "varDecl", "exprStmt", "statement",
            "declaration", "initializer", "kIdentifier", "maybeValue", "maybeElse",
            "maybeExpression", "maybeArguments", "maybeParameters", "declarations"}
LEMMA Forms ==
  /\ \A sort \in Symbols :
       Starts(sort) = <<sort>> /\ Leftover(sort) = <<>>
  /\ \A l \in Levels : Starts(l) = <<Name[Operand[l]], Rest[l]>> /\ Leftover(l) = <<Rest[l]>>
  /\ Starts("call") = <<"primary", "calls">> /\ Leftover("call") = <<"calls">>
  /\ Starts("condition") = <<"kLeftParen", "expression", "kRightParen">>
  /\ Starts("arguments") = <<"maybeArguments", "kRightParen">>
  /\ Starts("parameters") = <<"maybeParameters", "kRightParen">>
  /\ Starts("statements") = <<"declarations", "kRightBrace">>
  /\ \A sort \in {"condition", "arguments", "parameters", "statements"} : Leftover(sort) = <<>>
<1>1. \A sort \in Symbols :
        Starts(sort) = <<sort>> /\ Leftover(sort) = <<>>
  BY PlainSorts, LevelNames DEF Expressive, Operandlike, Symbols
<1>2. /\ \A l \in Levels : Starts(l) = <<Name[Operand[l]], Rest[l]>> /\ Leftover(l) = <<Rest[l]>>
      /\ "call" \notin Levels
  BY LevelNames DEF Starts, Leftover
<1>3. Starts("call") = <<"primary", "calls">> /\ Leftover("call") = <<"calls">>
  BY <1>2 DEF Starts, Leftover, Rest
<1>4. /\ Starts("condition") = <<"kLeftParen", "expression", "kRightParen">>
      /\ Starts("arguments") = <<"maybeArguments", "kRightParen">>
      /\ Starts("parameters") = <<"maybeParameters", "kRightParen">>
      /\ Starts("statements") = <<"declarations", "kRightBrace">>
      /\ \A sort \in {"condition", "arguments", "parameters", "statements"} : Leftover(sort) = <<>>
  BY LevelNames DEF Starts, Leftover
<1> QED BY <1>1, <1>2, <1>3, <1>4

Plainly == Expressive \cup {"statement", "declaration", "varDecl", "exprStmt", "kIdentifier",
                            "maybeExpression", "declarations"}
LEMMA Readings ==
  /\ \A sort \in Plainly :
       \A a : Reads(sort, a) = Yield(a, <<>>)
  /\ \A a : /\ Reads("arguments", a) = Yield(a, <<"kComma">>) \o <<"kRightParen">>
            /\ Reads("parameters", a) = Yield(a, <<"kComma">>) \o <<"kRightParen">>
            /\ Reads("statements", a) = Yield(a, <<>>) \o <<"kRightBrace">>
            /\ Reads("condition", a) = (<<"kLeftParen">> \o Yield(a, <<>>)) \o <<"kRightParen">>
            /\ Reads("initializer", a) = IF a = Null THEN <<"kSemicolon">> ELSE Yield(a, <<>>)
            /\ Reads("maybeValue", a) = IF a = Null THEN <<>> ELSE <<"kEqual">> \o Yield(a, <<>>)
            /\ Reads("maybeElse", a) = IF a = Null THEN <<>> ELSE <<"kElse">> \o Yield(a, <<>>)
            /\ Reads("maybeArguments", a) = Yield(a, <<"kComma">>)
            /\ Reads("maybeParameters", a) = Yield(a, <<"kComma">>)
  BY PlainSorts DEF Reads, Plainly

LEMMA DerivedFrom ==
  ASSUME DerivesLaw, NEW sort \in Symbols, NEW a, NEW u, Is(sort, a, u)
  PROVE  Rewrites(<<sort>>, <<>>, u)
<1>1. Starts(sort) = <<sort>> /\ Leftover(sort) = <<>>
  BY Forms
<1> QED BY <1>1, SortWords

LEMMA ReadAs ==
  ASSUME YieldLaw, NEW sort \in Plainly, NEW a, NEW u, Is(sort, a, u)
  PROVE  u = Yield(a, <<>>)
<1>1. Reads(sort, a) = Yield(a, <<>>)
  BY Readings
<1> QED BY <1>1, SortWords

LEMMA WholeIs ==
  ASSUME NEW sort \in {"primary", "unary", "assignment", "varDecl", "exprStmt", "statement",
                       "declaration"},
         NEW what, what \notin {"null", "Variable"}, NEW op, NEW kids, IsSeq(kids), NEW w \in Words,
         YieldLaw => YieldOf(Node(what, op, kids), <<>>, Yield) = w,
         DerivesLaw => Rewrites(<<sort>>, <<>>, w)
  PROVE  Is(sort, Node(what, op, kids), w)
<1>1. sort \in Results1 /\ Starts(sort) = <<sort>> /\ Leftover(sort) = <<>>
  BY Forms DEF Results1, Symbols
<1> QED BY <1>1, MadeIs

LEMMA GroupingIs ==
  ASSUME NEW a, NEW u, Is("expression", a, u)
  PROVE  Is("primary", Node("Grouping", "kLeftParen", <<a>>), (<<"kLeftParen">> \o u) \o <<"kRightParen">>)
<1> DEFINE l == <<"kLeftParen">>
           w == (l \o u) \o <<"kRightParen">>
<1>1. /\ "kLeftParen" \in Tokens /\ "kRightParen" \in Tokens
      /\ u \in Words /\ l \in Words /\ l \o u \in Words /\ w \in Words
  BY TokenKinds, WordsCat, IsWord
<1>2. ASSUME YieldLaw PROVE YieldOf(Node("Grouping", "kLeftParen", <<a>>), <<>>, Yield) = w
  <2>1. u = Yield(a, <<>>)
    BY <1>2, ReadAs DEF Plainly, Expressive
  <2> QED BY <2>1 DEF YieldOf, Node
<1>3. ASSUME DerivesLaw PROVE Rewrites(<<"primary">>, <<>>, w)
  <2>1. Rewrites(<<"expression">>, <<>>, u) /\ Rewrites(l, <<>>, l) /\ IsSeq(l)
    BY <1>1, <1>3, DerivedFrom, ByToken, Cat DEF Symbols
  <2>2. Rewrites(l \o <<"expression">>, <<>>, l \o u)
    BY <1>1, <2>1, AndSymbol
  <2>3. /\ l \o <<"expression">> = <<"kLeftParen", "expression">>
        /\ <<"kLeftParen", "expression">> \o <<"kRightParen">>
             = <<"kLeftParen", "expression", "kRightParen">>
        /\ IsSeq(<<"kLeftParen", "expression">>)
        /\ IsSeq(<<"kLeftParen", "expression", "kRightParen">>)
    BY Tuples, TupleSeqs
  <2>4. Rewrites(<<"kLeftParen", "expression", "kRightParen">>, <<>>, w)
    BY <1>1, <1>3, <2>2, <2>3, AndToken
  <2> QED BY <1>1, <1>3, <2>3, <2>4, OperatorRules, Applied
<1>4. IsSeq(<<a>>)
  BY Cat
<1> HIDE DEF w
<1>5. Is("primary", Node("Grouping", "kLeftParen", <<a>>), w)
  BY <1>1, <1>2, <1>3, <1>4, WholeIs
<1> QED BY <1>5 DEF w

LEMMA UnaryIs ==
  ASSUME NEW op \in {"kBang", "kMinus"}, NEW a, NEW u, Is("unary", a, u)
  PROVE  Is("unary", Node("Unary", op, <<a>>), <<op>> \o u)
<1> DEFINE w == <<op>> \o u
<1>1. op \in Tokens /\ u \in Words /\ <<op>> \in Words /\ w \in Words
  BY TokenKinds, WordsCat, IsWord
<1>2. ASSUME YieldLaw PROVE YieldOf(Node("Unary", op, <<a>>), <<>>, Yield) = w
  <2>1. u = Yield(a, <<>>)
    BY <1>2, ReadAs DEF Plainly, Expressive, Operandlike
  <2> QED BY <2>1 DEF YieldOf, Node
<1>3. ASSUME DerivesLaw PROVE Rewrites(<<"unary">>, <<>>, w)
  <2>1. Rewrites(<<"unary">>, <<>>, u) /\ Rewrites(<<op>>, <<>>, <<op>>) /\ IsSeq(<<op>>)
    BY <1>1, <1>3, DerivedFrom, ByToken, Cat DEF Symbols
  <2>2. Rewrites(<<op>> \o <<"unary">>, <<>>, w)
    BY <1>1, <2>1, AndSymbol
  <2>3. <<op>> \o <<"unary">> = <<op, "unary">> /\ IsSeq(<<op, "unary">>)
    BY Tuples, TupleSeqs
  <2>4. Rule("unary", <<op, "unary">>)
    BY OperatorRules
  <2> QED BY <1>1, <1>3, <2>2, <2>3, <2>4, Applied
<1>4. IsSeq(<<a>>)
  BY Cat
<1> HIDE DEF w
<1>5. Is("unary", Node("Unary", op, <<a>>), w)
  BY <1>1, <1>2, <1>3, <1>4, WholeIs
<1> QED BY <1>5 DEF w

LEMMA OperandFollows ==
  ASSUME DerivesLaw, NEW l \in Levels, NEW b, NEW v, Is(RightOperand(l), b, v)
  PROVE  Rewrites(<<Name[Operand[l]], Rest[l]>>, <<Rest[l]>>, v)
<1>1. CASE l = "logical_or"
  <2>1. RightOperand(l) = l
    BY <1>1 DEF RightOperand
  <2>2. Starts(l) = <<Name[Operand[l]], Rest[l]>> /\ Leftover(l) = <<Rest[l]>>
    BY Forms
  <2> QED BY <2>1, <2>2, SortWords
<1>2. CASE l # "logical_or"
  <2>1. RightOperand(l) = Operand[l]
    BY <1>2 DEF RightOperand
  <2>2. Is(l, b, v)
    BY <2>1, OperandWidens
  <2>3. Starts(l) = <<Name[Operand[l]], Rest[l]>> /\ Leftover(l) = <<Rest[l]>>
    BY Forms
  <2> QED BY <2>2, <2>3, SortWords
<1> QED BY <1>1, <1>2

LEMMA RightSort == \A l \in Levels : RightOperand(l) \in Levels \cup {"unary"}
  BY LevelNames DEF RightOperand, Operand

LEMMA BinaryIs ==
  ASSUME NEW l \in Levels, NEW op \in Ops[l], NEW a, NEW u, Is(l, a, u),
         NEW b, NEW v, Is(RightOperand(l), b, v)
  PROVE  Is(l, Node(OpNode(l), op, <<a, b>>), (u \o <<op>>) \o v)
<1> DEFINE w == (u \o <<op>>) \o v
           N == Name[Operand[l]]
           R == Rest[l]
<1>1. /\ op \in Tokens /\ u \in Words /\ v \in Words /\ <<op>> \in Words
      /\ u \o <<op>> \in Words /\ w \in Words
  BY TokenKinds, WordsCat, IsWord
<1>2. OpNode(l) \in {"Binary", "Logical"}
  BY DEF OpNode
<1>3. ASSUME YieldLaw PROVE YieldOf(Node(OpNode(l), op, <<a, b>>), <<>>, Yield) = w
  <2>1. u = Yield(a, <<>>) /\ v = Yield(b, <<>>)
    BY <1>3, RightSort, ReadAs DEF Plainly, Expressive, Operandlike
  <2>2. \A what \in {"Binary", "Logical"} :
          YieldOf(Node(what, op, <<a, b>>), <<>>, Yield)
            = (Yield(a, <<>>) \o <<op>>) \o Yield(b, <<>>)
    BY DEF YieldOf, Node
  <2> QED BY <1>2, <2>1, <2>2
<1>4. ASSUME DerivesLaw PROVE Rewrites(Starts(l), Leftover(l), w)
  <2>1. Starts(l) = <<N, R>> /\ Leftover(l) = <<R>>
    BY Forms
  <2>2. Rewrites(<<N, R>>, <<R>>, u)
    BY <1>4, <2>1, SortWords
  <2>3. Rewrites(<<op>>, <<>>, <<op>>)
    BY <1>1, <1>4, ByToken
  <2>4. /\ <<op>> \o <<N, R>> = <<op, N, R>> /\ <<>> \o <<N, R>> = <<N, R>>
        /\ IsSeq(<<op>>) /\ IsSeq(<<>>) /\ IsSeq(<<N, R>>) /\ IsSeq(<<op, N, R>>)
    BY Prefixed, Cat, TupleSeqs
  <2>5. Rewrites(<<op, N, R>>, <<N, R>>, <<op>>)
    BY <1>1, <2>3, <2>4, BesideOthers
  <2>6. Rule(R, <<op, N, R>>)
    BY OperatorRules
  <2>7. Rewrites(<<R>>, <<N, R>>, <<op>>)
    BY <1>1, <1>4, <2>4, <2>5, <2>6, Applied
  <2>8. Rewrites(<<N, R>>, <<R>>, v)
    BY <1>4, OperandFollows
  <2>9. Rewrites(<<N, R>>, <<N, R>>, u \o <<op>>)
    BY <1>1, <2>2, <2>7, OnAndOn
  <2>10. Rewrites(<<N, R>>, <<R>>, w)
    BY <1>1, <2>8, <2>9, OnAndOn
  <2> QED BY <2>1, <2>10
<1>5. IsSeq(<<a, b>>) /\ l \in Results1 /\ OpNode(l) \notin {"null", "Variable"}
  BY <1>2, TupleSeqs DEF Results1
<1> HIDE DEF w
<1>6. Is(l, Node(OpNode(l), op, <<a, b>>), w)
  BY <1>1, <1>3, <1>4, <1>5, MadeIs
<1> QED BY <1>6 DEF w

LEMMA CallIs ==
  ASSUME NEW a, NEW u, Is("call", a, u), NEW b, NEW v, Is("arguments", b, v)
  PROVE  Is("call", Node("Call", "kLeftParen", <<a, b>>), (u \o <<"kLeftParen">>) \o v)
<1> DEFINE op == "kLeftParen"
           w == (u \o <<op>>) \o v
           A == <<"maybeArguments", "kRightParen">>
           R == <<"calls">>
           B == <<"maybeArguments", "kRightParen", "calls">>
           C == <<op, "maybeArguments", "kRightParen", "calls">>
<1>1. /\ op \in Tokens /\ u \in Words /\ v \in Words /\ <<op>> \in Words
      /\ u \o <<op>> \in Words /\ w \in Words
  BY TokenKinds, WordsCat, IsWord
<1>2. ASSUME YieldLaw PROVE YieldOf(Node("Call", op, <<a, b>>), <<>>, Yield) = w
  <2>1. u = Yield(a, <<>>)
    BY <1>2, ReadAs DEF Plainly, Expressive, Operandlike
  <2>2. v = Yield(b, <<"kComma">>) \o <<"kRightParen">>
    BY <1>2, SortWords, Readings
  <2>3. YieldOf(Node("Call", op, <<a, b>>), <<>>, Yield)
          = Yield(a, <<>>) \o (<<op>> \o (Yield(b, <<"kComma">>) \o <<"kRightParen">>))
    BY DEF YieldOf, Node
  <2>4. u \o (<<op>> \o v) = (u \o <<op>>) \o v
    <3>1. Join(u, <<op>>, v)
      BY <1>1, Joining
    <3> QED BY <3>1 DEF Join
  <2> QED BY <2>1, <2>2, <2>3, <2>4
<1>3. ASSUME DerivesLaw PROVE Rewrites(Starts("call"), Leftover("call"), w)
  <2>1. Rewrites(<<"primary", "calls">>, R, u)
    BY <1>3, Forms, SortWords
  <2>2. Rewrites(A, <<>>, v)
    BY <1>3, Forms, SortWords
  <2>3. /\ <<op>> \o B = C /\ A \o R = B /\ <<>> \o B = B /\ <<>> \o R = R
        /\ IsSeq(<<op>>) /\ IsSeq(<<>>) /\ IsSeq(A) /\ IsSeq(B) /\ IsSeq(C) /\ IsSeq(R)
    BY Prefixed, Tuples, Cat, TupleSeqs
  <2>4. Rewrites(<<op>>, <<>>, <<op>>)
    BY <1>1, <1>3, ByToken
  <2>5. Rule("calls", C)
    BY OperatorRules
  <2> HIDE DEF A, B, C, op
  <2>6. Rewrites(C, B, <<op>>)
    BY <1>1, <2>3, <2>4, BesideOthers
  <2>7. Rewrites(R, B, <<op>>)
    BY <1>1, <1>3, <2>3, <2>5, <2>6, Applied
  <2>8. Rewrites(B, R, v)
    BY <1>1, <2>2, <2>3, BesideOthers
  <2>9. Rewrites(<<"primary", "calls">>, B, u \o <<op>>)
    BY <1>1, <2>1, <2>7, OnAndOn
  <2>10. Rewrites(<<"primary", "calls">>, R, w)
    BY <1>1, <2>8, <2>9, OnAndOn
  <2> QED BY <2>10, Forms
<1>4. IsSeq(<<a, b>>) /\ "call" \in Results1
  BY TupleSeqs DEF Results1
<1> HIDE DEF w
<1>5. Is("call", Node("Call", op, <<a, b>>), w)
  BY <1>1, <1>2, <1>3, <1>4, MadeIs
<1> QED BY <1>5 DEF w

LEMMA AssignmentIs ==
  ASSUME NEW a, NEW u, Is("logical_or", a, u), a.what = "Variable",
         NEW b, NEW v, Is("assignment", b, v)
  PROVE  Is("assignment", Node("Assignment", "kEqual", <<a, b>>), (u \o <<"kEqual">>) \o v)
<1> DEFINE w == (u \o <<"kEqual">>) \o v
           C == <<"kIdentifier", "kEqual", "assignment">>
<1>1. /\ u \in Words /\ v \in Words /\ <<"kEqual">> \in Words
      /\ u \o <<"kEqual">> \in Words /\ w \in Words
      /\ "kEqual" \in Tokens /\ "kIdentifier" \in Tokens
  BY TokenKinds, WordsCat, IsWord
<1>2. ASSUME YieldLaw PROVE YieldOf(Node("Assignment", "kEqual", <<a, b>>), <<>>, Yield) = w
  <2>1. u = Yield(a, <<>>) /\ v = Yield(b, <<>>)
    BY <1>2, LevelNames, ReadAs DEF Plainly, Expressive, Operandlike
  <2> QED BY <2>1 DEF YieldOf, Node
<1>3. ASSUME DerivesLaw PROVE Rewrites(<<"assignment">>, <<>>, w)
  <2>1. u = <<"kIdentifier">>
    BY LevelNames DEF Is, Operandlike
  <2>2. Rewrites(<<"kIdentifier">>, <<>>, u) /\ IsSeq(<<"kIdentifier">>)
    BY <1>1, <1>3, <2>1, ByToken, Cat
  <2>3. Rewrites(<<"kIdentifier">> \o <<"kEqual">>, <<>>, u \o <<"kEqual">>)
    BY <1>1, <1>3, <2>2, AndToken
  <2>4. Rewrites(<<"assignment">>, <<>>, v)
    BY <1>3, DerivedFrom DEF Symbols
  <2>5. /\ <<"kIdentifier">> \o <<"kEqual">> = <<"kIdentifier", "kEqual">>
        /\ <<"kIdentifier", "kEqual">> \o <<"assignment">> = C
        /\ IsSeq(<<"kIdentifier", "kEqual">>) /\ IsSeq(C)
    BY Tuples, TupleSeqs
  <2>6. Rewrites(C, <<>>, w)
    BY <1>1, <2>3, <2>4, <2>5, AndSymbol
  <2>7. Rule("assignment", C)
    BY MoreRules
  <2> QED BY <1>1, <1>3, <2>5, <2>6, <2>7, Applied
<1>4. IsSeq(<<a, b>>)
  BY TupleSeqs
<1> HIDE DEF w
<1>5. Is("assignment", Node("Assignment", "kEqual", <<a, b>>), w)
  BY <1>1, <1>2, <1>3, <1>4, WholeIs
<1> QED BY <1>5 DEF w

\* One more symbol, or one more token.
LEMMA Longer ==
  ASSUME NEW G, IsSeq(G), NEW u \in Words, Rewrites(G, <<>>, u),
         NEW m, NEW v \in Words, Rewrites(<<m>>, <<>>, v), NEW H, G \o <<m>> = H
  PROVE  Rewrites(H, <<>>, u \o v) /\ u \o v \in Words /\ IsSeq(H)
<1>1. Rewrites(G \o <<m>>, <<>>, u \o v)
  BY AndSymbol
<1>2. u \o v \in Words /\ IsSeq(G \o <<m>>)
  BY WordsCat, Cat
<1> QED BY <1>1, <1>2

LEMMA Token1 ==
  ASSUME NEW k \in Tokens
  PROVE  <<k>> \in Words /\ IsSeq(<<k>>) /\ (DerivesLaw => Rewrites(<<k>>, <<>>, <<k>>))
  BY ByToken, WordsCat, Cat

LEMMA LongerByToken ==
  ASSUME DerivesLaw, NEW G, IsSeq(G), NEW u \in Words, Rewrites(G, <<>>, u),
         NEW k \in Tokens, NEW H, G \o <<k>> = H
  PROVE  Rewrites(H, <<>>, u \o <<k>>) /\ u \o <<k>> \in Words /\ IsSeq(H)
  BY Token1, Longer

LEMMA Onward ==
  ASSUME NEW G, IsSeq(G), NEW u \in Words, Rewrites(G, <<>>, u),
         NEW K, IsSeq(K), NEW v \in Words, Rewrites(K, <<>>, v)
  PROVE  Rewrites(G \o K, <<>>, u \o v) /\ u \o v \in Words /\ IsSeq(G \o K)
<1>1. Rewrites(G \o K, <<>>, u \o v)
  BY OneByOne
<1> QED BY <1>1, WordsCat, Cat

LEMMA ByTwoRules ==
  ASSUME DerivesLaw, NEW n, NEW m, Rule(n, <<m>>), NEW alternative, Rule(m, alternative),
         IsSeq(alternative), NEW u \in Words, Rewrites(alternative, <<>>, u)
  PROVE  Rewrites(<<n>>, <<>>, u)
  BY Applied, Applied1

LEMMA InParens ==
  ASSUME DerivesLaw, NEW a, NEW u, Is("expression", a, u)
  PROVE  Rewrites(<<"kLeftParen", "expression", "kRightParen">>, <<>>,
                  (<<"kLeftParen">> \o u) \o <<"kRightParen">>)
<1>1. "kLeftParen" \in Tokens /\ "kRightParen" \in Tokens /\ u \in Words
  BY TokenKinds, IsWord
<1>2. Rewrites(<<"expression">>, <<>>, u)
  BY DerivedFrom DEF Symbols
<1>3. <<"kLeftParen">> \o <<"expression">> = <<"kLeftParen", "expression">>
  BY Tuples
<1>4. /\ Rewrites(<<"kLeftParen", "expression">>, <<>>, <<"kLeftParen">> \o u)
      /\ <<"kLeftParen">> \o u \in Words /\ IsSeq(<<"kLeftParen", "expression">>)
  BY <1>1, <1>2, <1>3, Token1, Longer
<1>5. <<"kLeftParen", "expression">> \o <<"kRightParen">>
        = <<"kLeftParen", "expression", "kRightParen">>
  BY Tuples
<1> QED BY <1>1, <1>4, <1>5, Token1, Longer

LEMMA ConditionIs ==
  ASSUME NEW a, NEW u, Is("expression", a, u)
  PROVE  Is("condition", a, (<<"kLeftParen">> \o u) \o <<"kRightParen">>)
<1> DEFINE w == (<<"kLeftParen">> \o u) \o <<"kRightParen">>
<1>1. "kLeftParen" \in Tokens /\ "kRightParen" \in Tokens /\ u \in Words
  BY TokenKinds, IsWord
<1>2. w \in Words
  BY <1>1, WordsCat
<1>3. ASSUME YieldLaw PROVE w = Reads("condition", a)
  <2>1. u = Yield(a, <<>>)
    BY <1>3, ReadAs DEF Plainly, Expressive
  <2> QED BY <2>1, Readings
<1>4. DerivesLaw => Rewrites(Starts("condition"), Leftover("condition"), w)
  BY InParens, Forms
<1>5. a # Null /\ "condition" \notin Operandlike
  BY LevelNames DEF Is, Maybes, Operandlike
<1> HIDE DEF w
<1>6. Is("condition", a, w)
  BY <1>2, <1>3, <1>4, <1>5 DEF Is
<1> QED BY <1>6 DEF w

LEMMA VarIs ==
  ASSUME NEW a, NEW u, Is("kIdentifier", a, u), NEW b, NEW v, Is("maybeValue", b, v)
  PROVE  Is("varDecl", Node("Var", "kVar", <<a, b>>), ((<<"kVar">> \o u) \o v) \o <<"kSemicolon">>)
<1> DEFINE w2 == <<"kVar">> \o u
           w3 == w2 \o v
           w == w3 \o <<"kSemicolon">>
<1>1. "kVar" \in Tokens /\ "kSemicolon" \in Tokens /\ u \in Words /\ v \in Words
  BY TokenKinds, IsWord
<1>2. w \in Words
  BY <1>1, WordsCat
<1>3. ASSUME YieldLaw PROVE YieldOf(Node("Var", "kVar", <<a, b>>), <<>>, Yield) = w
  <2>1. u = Yield(a, <<>>)
    BY <1>3, ReadAs DEF Plainly
  <2>2. v = IF b = Null THEN <<>> ELSE <<"kEqual">> \o Yield(b, <<>>)
    BY <1>3, SortWords, Readings
  <2> QED BY <2>1, <2>2 DEF YieldOf, Node
<1>4. ASSUME DerivesLaw PROVE Rewrites(<<"varDecl">>, <<>>, w)
  <2>1. Rewrites(<<"kIdentifier">>, <<>>, u) /\ Rewrites(<<"maybeValue">>, <<>>, v)
    BY <1>4, DerivedFrom DEF Symbols
  <2>2. /\ <<"kVar">> \o <<"kIdentifier">> = <<"kVar", "kIdentifier">>
        /\ <<"kVar", "kIdentifier">> \o <<"maybeValue">> = <<"kVar", "kIdentifier", "maybeValue">>
        /\ <<"kVar", "kIdentifier", "maybeValue">> \o <<"kSemicolon">>
             = <<"kVar", "kIdentifier", "maybeValue", "kSemicolon">>
    BY Tuples
  <2>3. /\ Rewrites(<<"kVar", "kIdentifier">>, <<>>, w2)
        /\ w2 \in Words /\ IsSeq(<<"kVar", "kIdentifier">>)
    BY <1>1, <1>4, <2>1, <2>2, Token1, Longer
  <2> HIDE DEF w2
  <2>4. /\ Rewrites(<<"kVar", "kIdentifier", "maybeValue">>, <<>>, w3)
        /\ w3 \in Words /\ IsSeq(<<"kVar", "kIdentifier", "maybeValue">>)
    BY <1>1, <2>1, <2>2, <2>3, Longer
  <2> HIDE DEF w3
  <2>5. /\ Rewrites(<<"kVar", "kIdentifier", "maybeValue", "kSemicolon">>, <<>>, w)
        /\ IsSeq(<<"kVar", "kIdentifier", "maybeValue", "kSemicolon">>)
    BY <1>1, <1>4, <2>2, <2>4, LongerByToken
  <2> QED BY <1>2, <1>4, <2>5, Rules, Applied
<1>5. IsSeq(<<a, b>>)
  BY TupleSeqs
<1> HIDE DEF w
<1>6. Is("varDecl", Node("Var", "kVar", <<a, b>>), w)
  BY <1>2, <1>3, <1>4, <1>5, WholeIs
<1> QED BY <1>6 DEF w, w3, w2

LEMMA PrintIs ==
  ASSUME NEW a, NEW u, Is("expression", a, u)
  PROVE  Is("statement", Node("Print", "kPrint", <<a>>), (<<"kPrint">> \o u) \o <<"kSemicolon">>)
<1> DEFINE w2 == <<"kPrint">> \o u
           w == w2 \o <<"kSemicolon">>
<1>1. "kPrint" \in Tokens /\ "kSemicolon" \in Tokens /\ u \in Words
  BY TokenKinds, IsWord
<1>2. w \in Words
  BY <1>1, WordsCat
<1>3. ASSUME YieldLaw PROVE YieldOf(Node("Print", "kPrint", <<a>>), <<>>, Yield) = w
  <2>1. u = Yield(a, <<>>)
    BY <1>3, ReadAs DEF Plainly, Expressive
  <2> QED BY <2>1 DEF YieldOf, Node
<1>4. ASSUME DerivesLaw PROVE Rewrites(<<"statement">>, <<>>, w)
  <2>1. Rewrites(<<"expression">>, <<>>, u)
    BY <1>4, DerivedFrom DEF Symbols
  <2>2. /\ <<"kPrint">> \o <<"expression">> = <<"kPrint", "expression">>
        /\ <<"kPrint", "expression">> \o <<"kSemicolon">> = <<"kPrint", "expression", "kSemicolon">>
    BY Tuples
  <2>3. /\ Rewrites(<<"kPrint", "expression">>, <<>>, w2)
        /\ w2 \in Words /\ IsSeq(<<"kPrint", "expression">>)
    BY <1>1, <1>4, <2>1, <2>2, Token1, Longer
  <2> HIDE DEF w2
  <2>4. /\ Rewrites(<<"kPrint", "expression", "kSemicolon">>, <<>>, w)
        /\ IsSeq(<<"kPrint", "expression", "kSemicolon">>)
    BY <1>1, <1>4, <2>2, <2>3, LongerByToken
  <2>5. Rule("statement", <<"printStmt">>) /\ Rule("printStmt", <<"kPrint", "expression", "kSemicolon">>)
    BY Rules
  <2> QED BY <1>2, <1>4, <2>4, <2>5, ByTwoRules
<1>5. IsSeq(<<a>>)
  BY Cat
<1> HIDE DEF w
<1>6. Is("statement", Node("Print", "kPrint", <<a>>), w)
  BY <1>2, <1>3, <1>4, <1>5, WholeIs
<1> QED BY <1>6 DEF w, w2

LEMMA ExpressionIs ==
  ASSUME NEW a, NEW u, Is("expression", a, u)
  PROVE  Is("exprStmt", Node("Expression", "", <<a>>),
            u \o <<"kSemicolon">>)
<1> DEFINE w == u \o <<"kSemicolon">>
<1>1. /\ "kSemicolon" \in Tokens
      /\ u \in Words
  BY TokenKinds, IsWord
<1>2. w \in Words
  BY <1>1, Token1, WordsCat
<1>3. ASSUME YieldLaw PROVE YieldOf(Node("Expression", "", <<a>>), <<>>, Yield) = w
  <2>1. u = Yield(a, <<>>)
    BY <1>3, ReadAs DEF Plainly, Expressive
  <2> QED BY <2>1 DEF YieldOf, Node
<1>4. ASSUME DerivesLaw PROVE Rewrites(<<"exprStmt">>, <<>>, w)
  <2>1. /\ Rewrites(<<"expression">>, <<>>, u)
    BY <1>4, DerivedFrom DEF Symbols
  <2>2. /\ <<"expression">> \o <<"kSemicolon">> = <<"expression", "kSemicolon">>
    BY Tuples
  <2>3. Rewrites(<<"expression", "kSemicolon">>, <<>>, w) /\ w \in Words /\ IsSeq(<<"expression", "kSemicolon">>)
    <3>1. IsSeq(<<"expression">>)
      BY Cat
    <3> QED BY <1>1, <1>4, <2>1, <2>2, <3>1, LongerByToken
  <2>4. Rule("exprStmt", <<"expression", "kSemicolon">>)
    BY Rules, MoreRules
  <2> QED BY <1>2, <1>4, <2>3, <2>4, Applied
<1>5. IsSeq(<<a>>)
  BY Cat, TupleSeqs
<1> HIDE DEF w
<1>6. Is("exprStmt", Node("Expression", "", <<a>>), w)
  BY <1>2, <1>3, <1>4, <1>5, WholeIs
<1> QED BY <1>6 DEF w

LEMMA ReturnIs ==
  ASSUME NEW a, NEW u, Is("maybeExpression", a, u)
  PROVE  Is("statement", Node("Return", "kReturn", <<a>>),
            (<<"kReturn">> \o u) \o <<"kSemicolon">>)
<1> DEFINE w2 == <<"kReturn">> \o u
           w == w2 \o <<"kSemicolon">>
<1>1. /\ "kReturn" \in Tokens /\ "kSemicolon" \in Tokens
      /\ u \in Words
  BY TokenKinds, IsWord
<1>2. w \in Words
  BY <1>1, Token1, WordsCat
<1>3. ASSUME YieldLaw PROVE YieldOf(Node("Return", "kReturn", <<a>>), <<>>, Yield) = w
  <2>1. u = Yield(a, <<>>)
    BY <1>3, ReadAs DEF Plainly, Expressive
  <2> QED BY <2>1 DEF YieldOf, Node
<1>4. ASSUME DerivesLaw PROVE Rewrites(<<"statement">>, <<>>, w)
  <2>1. /\ Rewrites(<<"maybeExpression">>, <<>>, u)
    BY <1>4, DerivedFrom DEF Symbols
  <2>2. /\ <<"kReturn">> \o <<"maybeExpression">> = <<"kReturn", "maybeExpression">>
        /\ <<"kReturn", "maybeExpression">> \o <<"kSemicolon">> = <<"kReturn", "maybeExpression", "kSemicolon">>
    BY Tuples
  <2>3. Rewrites(<<"kReturn", "maybeExpression">>, <<>>, w2) /\ w2 \in Words /\ IsSeq(<<"kReturn", "maybeExpression">>)
    BY <1>1, <1>4, <2>1, <2>2, Token1, Longer
  <2> HIDE DEF w2
  <2>4. Rewrites(<<"kReturn", "maybeExpression", "kSemicolon">>, <<>>, w) /\ w \in Words /\ IsSeq(<<"kReturn", "maybeExpression", "kSemicolon">>)
    BY <1>1, <1>4, <2>1, <2>2, <2>3, LongerByToken
  <2>5. Rule("statement", <<"returnStmt">>) /\ Rule("returnStmt", <<"kReturn", "maybeExpression", "kSemicolon">>)
    BY Rules, MoreRules
  <2> QED BY <1>2, <1>4, <2>4, <2>5, ByTwoRules
<1>5. IsSeq(<<a>>)
  BY Cat, TupleSeqs
<1> HIDE DEF w
<1>6. Is("statement", Node("Return", "kReturn", <<a>>), w)
  BY <1>2, <1>3, <1>4, <1>5, WholeIs
<1> QED BY <1>6 DEF w, w2

LEMMA WhileIs ==
  ASSUME NEW a, NEW u, Is("condition", a, u),
         NEW b, NEW v, Is("statement", b, v)
  PROVE  Is("statement", Node("While", "kWhile", <<a, b>>),
            (<<"kWhile">> \o u) \o v)
<1> DEFINE W1 == <<"kWhile">>
           W2 == W1 \o u
           W3 == W2 \o v
<1>1. /\ {"kWhile"} \subseteq Tokens
      /\ u \in Words /\ v \in Words
  BY TokenKinds, IsWord
<1>2. W3 \in Words
  BY <1>1, Token1, WordsCat
<1>3. ASSUME YieldLaw PROVE YieldOf(Node("While", "kWhile", <<a, b>>), <<>>, Yield) = W3
  <2>1. u = (<<"kLeftParen">> \o Yield(a, <<>>)) \o <<"kRightParen">>
    BY <1>3, SortWords, Readings
  <2>2. v = Yield(b, <<>>)
    BY <1>3, ReadAs DEF Plainly, Expressive
  <2> QED BY <2>1, <2>2 DEF YieldOf, Node
<1>4. ASSUME DerivesLaw PROVE Rewrites(<<"statement">>, <<>>, W3)
  <2> DEFINE F1 == <<"kWhile">>
             F2 == F1 \o <<"kLeftParen", "expression", "kRightParen">>
             F3 == F2 \o <<"statement">>
  <2>1. IsSeq(<<"kWhile">>) /\ <<"kWhile">> \in Words /\ Rewrites(<<"kWhile">>, <<>>, <<"kWhile">>)
    BY <1>1, <1>4, Token1
  <2>2. IsSeq(<<"kLeftParen", "expression", "kRightParen">>) /\ u \in Words /\ Rewrites(<<"kLeftParen", "expression", "kRightParen">>, <<>>, u)
    BY <1>1, <1>4, SortWords, Forms, TupleSeqs
  <2>3. IsSeq(<<"statement">>) /\ v \in Words /\ Rewrites(<<"statement">>, <<>>, v)
    BY <1>1, <1>4, DerivedFrom, Cat DEF Symbols
  <2>4. IsSeq(F2) /\ W2 \in Words /\ Rewrites(F2, <<>>, W2)
    BY <2>1, <2>2, Onward
  <2>5. F2 = <<"kWhile", "kLeftParen", "expression", "kRightParen">>
    BY Prefixed
  <2> HIDE DEF F2, W2
  <2>6. IsSeq(F3) /\ W3 \in Words /\ Rewrites(F3, <<>>, W3)
    BY <2>4, <2>3, Onward
  <2>7. F3 = <<"kWhile", "kLeftParen", "expression", "kRightParen", "statement">>
    BY <2>5, Tuples
  <2> HIDE DEF F3
  <2>8. Rule("statement", <<"whileStmt">>) /\ Rule("whileStmt", <<"kWhile", "kLeftParen", "expression", "kRightParen", "statement">>)
    BY Rules, MoreRules
  <2> QED BY <1>4, <2>7, <2>6, <2>8, ByTwoRules
<1>5. IsSeq(<<a, b>>)
  BY Cat, TupleSeqs
<1> HIDE DEF W3
<1>6. Is("statement", Node("While", "kWhile", <<a, b>>), W3)
  BY <1>2, <1>3, <1>4, <1>5, WholeIs
<1> QED BY <1>6 DEF W3, W2, W1

LEMMA IfIs ==
  ASSUME NEW a, NEW u, Is("condition", a, u),
         NEW b, NEW v, Is("statement", b, v),
         NEW c, NEW x, Is("maybeElse", c, x)
  PROVE  Is("statement", Node("If", "kIf", <<a, b, c>>),
            ((<<"kIf">> \o u) \o v) \o x)
<1> DEFINE W1 == <<"kIf">>
           W2 == W1 \o u
           W3 == W2 \o v
           W4 == W3 \o x
<1>1. /\ {"kIf"} \subseteq Tokens
      /\ u \in Words /\ v \in Words /\ x \in Words
  BY TokenKinds, IsWord
<1>2. W4 \in Words
  BY <1>1, Token1, WordsCat
<1>3. ASSUME YieldLaw PROVE YieldOf(Node("If", "kIf", <<a, b, c>>), <<>>, Yield) = W4
  <2>1. u = (<<"kLeftParen">> \o Yield(a, <<>>)) \o <<"kRightParen">>
    BY <1>3, SortWords, Readings
  <2>2. v = Yield(b, <<>>)
    BY <1>3, ReadAs DEF Plainly, Expressive
  <2>3. x = IF c = Null THEN <<>> ELSE <<"kElse">> \o Yield(c, <<>>)
    BY <1>3, SortWords, Readings
  <2> QED BY <2>1, <2>2, <2>3 DEF YieldOf, Node
<1>4. ASSUME DerivesLaw PROVE Rewrites(<<"statement">>, <<>>, W4)
  <2> DEFINE F1 == <<"kIf">>
             F2 == F1 \o <<"kLeftParen", "expression", "kRightParen">>
             F3 == F2 \o <<"statement">>
             F4 == F3 \o <<"maybeElse">>
  <2>1. IsSeq(<<"kIf">>) /\ <<"kIf">> \in Words /\ Rewrites(<<"kIf">>, <<>>, <<"kIf">>)
    BY <1>1, <1>4, Token1
  <2>2. IsSeq(<<"kLeftParen", "expression", "kRightParen">>) /\ u \in Words /\ Rewrites(<<"kLeftParen", "expression", "kRightParen">>, <<>>, u)
    BY <1>1, <1>4, SortWords, Forms, TupleSeqs
  <2>3. IsSeq(<<"statement">>) /\ v \in Words /\ Rewrites(<<"statement">>, <<>>, v)
    BY <1>1, <1>4, DerivedFrom, Cat DEF Symbols
  <2>4. IsSeq(<<"maybeElse">>) /\ x \in Words /\ Rewrites(<<"maybeElse">>, <<>>, x)
    BY <1>1, <1>4, DerivedFrom, Cat DEF Symbols
  <2>5. IsSeq(F2) /\ W2 \in Words /\ Rewrites(F2, <<>>, W2)
    BY <2>1, <2>2, Onward
  <2>6. F2 = <<"kIf", "kLeftParen", "expression", "kRightParen">>
    BY Prefixed
  <2> HIDE DEF F2, W2
  <2>7. IsSeq(F3) /\ W3 \in Words /\ Rewrites(F3, <<>>, W3)
    BY <2>5, <2>3, Onward
  <2>8. F3 = <<"kIf", "kLeftParen", "expression", "kRightParen", "statement">>
    BY <2>6, Tuples
  <2> HIDE DEF F3, W3
  <2>9. IsSeq(F4) /\ W4 \in Words /\ Rewrites(F4, <<>>, W4)
    BY <2>7, <2>4, Onward
  <2>10. F4 = <<"kIf", "kLeftParen", "expression", "kRightParen", "statement", "maybeElse">>
    BY <2>8, Tuples
  <2> HIDE DEF F4
  <2>11. Rule("statement", <<"ifStmt">>) /\ Rule("ifStmt", <<"kIf", "kLeftParen", "expression", "kRightParen", "statement", "maybeElse">>)
    BY Rules, MoreRules
  <2> QED BY <1>4, <2>10, <2>9, <2>11, ByTwoRules
<1>5. IsSeq(<<a, b, c>>)
  BY Cat, TupleSeqs
<1> HIDE DEF W4
<1>6. Is("statement", Node("If", "kIf", <<a, b, c>>), W4)
  BY <1>2, <1>3, <1>4, <1>5, WholeIs
<1> QED BY <1>6 DEF W4, W3, W2, W1

LEMMA ForIs ==
  ASSUME NEW a, NEW u, Is("initializer", a, u),
         NEW b, NEW v, Is("maybeExpression", b, v),
         NEW c, NEW x, Is("maybeExpression", c, x),
         NEW d, NEW y, Is("statement", d, y)
  PROVE  Is("statement", Node("For", "kFor", <<a, b, c, d>>),
            ((((((<<"kFor">> \o <<"kLeftParen">>) \o u) \o v) \o <<"kSemicolon">>) \o x) \o <<"kRightParen">>) \o y)
<1> DEFINE W1 == <<"kFor">>
           W2 == W1 \o <<"kLeftParen">>
           W3 == W2 \o u
           W4 == W3 \o v
           W5 == W4 \o <<"kSemicolon">>
           W6 == W5 \o x
           W7 == W6 \o <<"kRightParen">>
           W8 == W7 \o y
<1>1. /\ {"kFor", "kLeftParen", "kRightParen", "kSemicolon"} \subseteq Tokens
      /\ u \in Words /\ v \in Words /\ x \in Words /\ y \in Words
  BY TokenKinds, IsWord
<1>2. W8 \in Words
  BY <1>1, Token1, WordsCat
<1>3. ASSUME YieldLaw PROVE YieldOf(Node("For", "kFor", <<a, b, c, d>>), <<>>, Yield) = W8
  <2>1. u = IF a = Null THEN <<"kSemicolon">> ELSE Yield(a, <<>>)
    BY <1>3, SortWords, Readings
  <2>2. v = Yield(b, <<>>)
    BY <1>3, ReadAs DEF Plainly, Expressive
  <2>3. x = Yield(c, <<>>)
    BY <1>3, ReadAs DEF Plainly, Expressive
  <2>4. y = Yield(d, <<>>)
    BY <1>3, ReadAs DEF Plainly, Expressive
  <2> QED BY <2>1, <2>2, <2>3, <2>4, Tuples DEF YieldOf, Node
<1>4. ASSUME DerivesLaw PROVE Rewrites(<<"statement">>, <<>>, W8)
  <2> DEFINE F1 == <<"kFor">>
             F2 == F1 \o <<"kLeftParen">>
             F3 == F2 \o <<"initializer">>
             F4 == F3 \o <<"maybeExpression">>
             F5 == F4 \o <<"kSemicolon">>
             F6 == F5 \o <<"maybeExpression">>
             F7 == F6 \o <<"kRightParen">>
             F8 == F7 \o <<"statement">>
  <2>1. IsSeq(<<"kFor">>) /\ <<"kFor">> \in Words /\ Rewrites(<<"kFor">>, <<>>, <<"kFor">>)
    BY <1>1, <1>4, Token1
  <2>2. IsSeq(<<"kLeftParen">>) /\ <<"kLeftParen">> \in Words /\ Rewrites(<<"kLeftParen">>, <<>>, <<"kLeftParen">>)
    BY <1>1, <1>4, Token1
  <2>3. IsSeq(<<"initializer">>) /\ u \in Words /\ Rewrites(<<"initializer">>, <<>>, u)
    BY <1>1, <1>4, DerivedFrom, Cat DEF Symbols
  <2>4. IsSeq(<<"maybeExpression">>) /\ v \in Words /\ Rewrites(<<"maybeExpression">>, <<>>, v)
    BY <1>1, <1>4, DerivedFrom, Cat DEF Symbols
  <2>5. IsSeq(<<"kSemicolon">>) /\ <<"kSemicolon">> \in Words /\ Rewrites(<<"kSemicolon">>, <<>>, <<"kSemicolon">>)
    BY <1>1, <1>4, Token1
  <2>6. IsSeq(<<"maybeExpression">>) /\ x \in Words /\ Rewrites(<<"maybeExpression">>, <<>>, x)
    BY <1>1, <1>4, DerivedFrom, Cat DEF Symbols
  <2>7. IsSeq(<<"kRightParen">>) /\ <<"kRightParen">> \in Words /\ Rewrites(<<"kRightParen">>, <<>>, <<"kRightParen">>)
    BY <1>1, <1>4, Token1
  <2>8. IsSeq(<<"statement">>) /\ y \in Words /\ Rewrites(<<"statement">>, <<>>, y)
    BY <1>1, <1>4, DerivedFrom, Cat DEF Symbols
  <2>9. IsSeq(F2) /\ W2 \in Words /\ Rewrites(F2, <<>>, W2)
    BY <2>1, <2>2, Onward
  <2>10. F2 = <<"kFor", "kLeftParen">>
    BY Tuples
  <2> HIDE DEF F2, W2
  <2>11. IsSeq(F3) /\ W3 \in Words /\ Rewrites(F3, <<>>, W3)
    BY <2>9, <2>3, Onward
  <2>12. F3 = <<"kFor", "kLeftParen", "initializer">>
    BY <2>10, Tuples
  <2> HIDE DEF F3, W3
  <2>13. IsSeq(F4) /\ W4 \in Words /\ Rewrites(F4, <<>>, W4)
    BY <2>11, <2>4, Onward
  <2>14. F4 = <<"kFor", "kLeftParen", "initializer", "maybeExpression">>
    BY <2>12, Tuples
  <2> HIDE DEF F4, W4
  <2>15. IsSeq(F5) /\ W5 \in Words /\ Rewrites(F5, <<>>, W5)
    BY <2>13, <2>5, Onward
  <2>16. F5 = <<"kFor", "kLeftParen", "initializer", "maybeExpression", "kSemicolon">>
    BY <2>14, Tuples
  <2> HIDE DEF F5, W5
  <2>17. IsSeq(F6) /\ W6 \in Words /\ Rewrites(F6, <<>>, W6)
    BY <2>15, <2>6, Onward
  <2>18. F6 = <<"kFor", "kLeftParen", "initializer", "maybeExpression", "kSemicolon", "maybeExpression">>
    BY <2>16, Tuples
  <2> HIDE DEF F6, W6
  <2>19. IsSeq(F7) /\ W7 \in Words /\ Rewrites(F7, <<>>, W7)
    BY <2>17, <2>7, Onward
  <2>20. F7 = <<"kFor", "kLeftParen", "initializer", "maybeExpression", "kSemicolon", "maybeExpression", "kRightParen">>
    BY <2>18, Tuples
  <2> HIDE DEF F7, W7
  <2>21. IsSeq(F8) /\ W8 \in Words /\ Rewrites(F8, <<>>, W8)
    BY <2>19, <2>8, Onward
  <2>22. F8 = <<"kFor", "kLeftParen", "initializer", "maybeExpression", "kSemicolon", "maybeExpression", "kRightParen", "statement">>
    BY <2>20, Tuples
  <2> HIDE DEF F8
  <2>23. Rule("statement", <<"forStmt">>) /\ Rule("forStmt", <<"kFor", "kLeftParen", "initializer", "maybeExpression", "kSemicolon", "maybeExpression", "kRightParen", "statement">>)
    BY Rules, MoreRules
  <2> QED BY <1>4, <2>22, <2>21, <2>23, ByTwoRules
<1>5. IsSeq(<<a, b, c, d>>)
  BY Cat, TupleSeqs
<1> HIDE DEF W8
<1>6. Is("statement", Node("For", "kFor", <<a, b, c, d>>), W8)
  BY <1>2, <1>3, <1>4, <1>5, WholeIs
<1> QED BY <1>6 DEF W8, W7, W6, W5, W4, W3, W2, W1

LEMMA BlockIs ==
  ASSUME NEW a, NEW u, Is("statements", a, u)
  PROVE  Is("statement", Node("Block", "kLeftBrace", <<a>>),
            <<"kLeftBrace">> \o u)
<1> DEFINE W1 == <<"kLeftBrace">>
           W2 == W1 \o u
<1>1. /\ {"kLeftBrace"} \subseteq Tokens
      /\ u \in Words
  BY TokenKinds, IsWord
<1>2. W2 \in Words
  BY <1>1, Token1, WordsCat
<1>3. ASSUME YieldLaw PROVE YieldOf(Node("Block", "kLeftBrace", <<a>>), <<>>, Yield) = W2
  <2>1. u = Yield(a, <<>>) \o <<"kRightBrace">>
    BY <1>3, SortWords, Readings
  <2> QED BY <2>1 DEF YieldOf, Node
<1>4. ASSUME DerivesLaw PROVE Rewrites(<<"statement">>, <<>>, W2)
  <2> DEFINE F1 == <<"kLeftBrace">>
             F2 == F1 \o <<"declarations", "kRightBrace">>
  <2>1. IsSeq(<<"kLeftBrace">>) /\ <<"kLeftBrace">> \in Words /\ Rewrites(<<"kLeftBrace">>, <<>>, <<"kLeftBrace">>)
    BY <1>1, <1>4, Token1
  <2>2. IsSeq(<<"declarations", "kRightBrace">>) /\ u \in Words /\ Rewrites(<<"declarations", "kRightBrace">>, <<>>, u)
    BY <1>1, <1>4, SortWords, Forms, TupleSeqs
  <2>3. IsSeq(F2) /\ W2 \in Words /\ Rewrites(F2, <<>>, W2)
    BY <2>1, <2>2, Onward
  <2>4. F2 = <<"kLeftBrace", "declarations", "kRightBrace">>
    BY Prefixed
  <2> HIDE DEF F2
  <2>5. Rule("statement", <<"block">>) /\ Rule("block", <<"kLeftBrace", "declarations", "kRightBrace">>)
    BY Rules, MoreRules
  <2> QED BY <1>4, <2>4, <2>3, <2>5, ByTwoRules
<1>5. IsSeq(<<a>>)
  BY Cat, TupleSeqs
<1> HIDE DEF W2
<1>6. Is("statement", Node("Block", "kLeftBrace", <<a>>), W2)
  BY <1>2, <1>3, <1>4, <1>5, WholeIs
<1> QED BY <1>6 DEF W2, W1

LEMMA FunctionIs ==
  ASSUME NEW k \in Tokens, NEW b, NEW v, Is("parameters", b, v), NEW c, NEW x, Is("statements", c, x)
  PROVE  Is("declaration", Node("Function", "kFun", <<Node("Token", k, <<>>), b, c>>),
            ((((<<"kFun">> \o <<k>>) \o <<"kLeftParen">>) \o v) \o <<"kLeftBrace">>) \o x)
<1> DEFINE fun == <<"kFun">>
           name == <<k>>
           l == <<"kLeftParen">>
           o == <<"kLeftBrace">>
           a == Node("Token", k, <<>>)
           w == ((((fun \o name) \o l) \o v) \o o) \o x
           header == (name \o l) \o v
           body == o \o x
           P == <<"maybeParameters", "kRightParen">>
           D == <<"declarations", "kRightBrace">>
<1>1. /\ {"kFun", "kLeftParen", "kLeftBrace"} \subseteq Tokens
      /\ v \in Words /\ x \in Words
  BY TokenKinds, IsWord
<1>2. /\ fun \in Words /\ name \in Words /\ l \in Words /\ o \in Words
      /\ fun \o name \in Words /\ name \o l \in Words /\ l \o v \in Words
  BY <1>1, WordsCat
<1>3. (fun \o name) \o l \in Words /\ header \in Words /\ body \in Words
  BY <1>1, <1>2, WordsCat
<1>4. ((fun \o name) \o l) \o v \in Words
  BY <1>1, <1>3, WordsCat
<1>5. (((fun \o name) \o l) \o v) \o o \in Words
  BY <1>2, <1>4, WordsCat
<1>6. w \in Words
  BY <1>1, <1>5, WordsCat
<1>7. w = ((fun \o name) \o (l \o v)) \o body /\ fun \o (header \o body) = w
  <2>1. fun \in Words /\ name \in Words /\ l \in Words /\ v \in Words /\ o \in Words /\ x \in Words
    BY <1>1, <1>2
  <2> HIDE DEF fun, name, l, o, w, header, body
  <2>2. SixJoin(fun, name, l, v, o, x)
    BY <2>1, SixJoining
  <2>3. w = ((fun \o name) \o (l \o v)) \o body
    BY <2>2 DEF SixJoin, w, body
  <2>4. fun \o (header \o body) = w
    BY <2>2 DEF SixJoin, w, header, body
  <2> QED BY <2>3, <2>4
<1>8. IsSeq(<<>>) /\ IsSeq(<<a, b, c>>)
  BY Cat, TupleSeqs
<1>9. ASSUME YieldLaw PROVE YieldOf(Node("Function", "kFun", <<a, b, c>>), <<>>, Yield) = w
  <2>1. name = Yield(a, <<>>)
    <3>1. Yield(a, <<>>) = YieldOf(a, <<>>, Yield)
      BY <1>8, <1>9, NodeReads
    <3> QED BY <3>1 DEF YieldOf, Node
  <2>2. v = Yield(b, <<"kComma">>) \o <<"kRightParen">> /\ x = Yield(c, <<>>) \o <<"kRightBrace">>
    BY <1>9, SortWords, Readings
  <2> HIDE DEF name, a
  <2>3. YieldOf(Node("Function", "kFun", <<a, b, c>>), <<>>, Yield)
          = ((fun \o name) \o (l \o v)) \o body
    BY <2>1, <2>2 DEF YieldOf, Node
  <2> QED BY <1>7, <2>3
<1>10. ASSUME DerivesLaw PROVE Rewrites(<<"declaration">>, <<>>, w)
  <2>1. /\ IsSeq(P) /\ IsSeq(D) /\ Rewrites(P, <<>>, v) /\ Rewrites(D, <<>>, x)
    BY <1>10, SortWords, Forms, TupleSeqs
  <2>2. /\ IsSeq(fun) /\ Rewrites(fun, <<>>, fun) /\ IsSeq(name) /\ Rewrites(name, <<>>, name)
        /\ IsSeq(l) /\ Rewrites(l, <<>>, l) /\ IsSeq(o) /\ Rewrites(o, <<>>, o)
    BY <1>1, <1>10, Token1
  <2>3. Rewrites(<<"block">>, <<>>, body)
    <3>1. Rewrites(o \o D, <<>>, body) /\ IsSeq(o \o D)
      BY <1>1, <1>2, <2>1, <2>2, Onward
    <3>2. o \o D = <<"kLeftBrace", "declarations", "kRightBrace">>
      BY Prefixed
    <3>3. Rule("block", o \o D)
      BY <3>2, Rules
    <3> QED BY <1>3, <1>10, <3>1, <3>3, Applied
  <2>4. Rewrites(<<"function">>, <<>>, header \o body) /\ header \o body \in Words
    <3> DEFINE F2 == name \o l
               F3 == F2 \o P
               F4 == F3 \o <<"block">>
    <3>1. Rewrites(F2, <<>>, name \o l) /\ IsSeq(F2)
      BY <1>2, <2>2, Onward
    <3>2. F2 = <<k, "kLeftParen">>
      BY Tuples
    <3> HIDE DEF F2
    <3>3. Rewrites(F3, <<>>, header) /\ IsSeq(F3)
      BY <1>1, <1>2, <2>1, <3>1, Onward
    <3>4. F3 = <<k, "kLeftParen", "maybeParameters", "kRightParen">>
      <4>1. P = <<"maybeParameters">> \o <<"kRightParen">>
        BY Tuples
      <4>2. IsSeq(<<"maybeParameters">>) /\ IsSeq(<<"kRightParen">>)
        BY Cat
      <4>3. F2 \o P = (F2 \o <<"maybeParameters">>) \o <<"kRightParen">>
        BY <3>1, <4>1, <4>2, Cat
      <4> DEFINE G == F2 \o <<"maybeParameters">>
      <4>4. G = <<k, "kLeftParen", "maybeParameters">>
        BY <3>2, Tuples
      <4> HIDE DEF G
      <4>5. G \o <<"kRightParen">> = <<k, "kLeftParen", "maybeParameters", "kRightParen">>
        BY <4>4, Tuples
      <4> QED BY <4>3, <4>5 DEF G
    <3> HIDE DEF F3
    <3>5. IsSeq(<<"block">>)
      BY Cat
    <3>6. Rewrites(F4, <<>>, header \o body) /\ IsSeq(F4) /\ header \o body \in Words
      BY <1>3, <2>3, <3>3, <3>5, Onward
    <3>7. F4 = <<k, "kLeftParen", "maybeParameters", "kRightParen", "block">>
      BY <3>4, Tuples
    <3>8. Rule("function", F4)
      BY <3>7, Rules
    <3> QED BY <1>10, <3>6, <3>8, Applied
  <2>5. Rewrites(<<"funcDecl">>, <<>>, fun \o (header \o body)) /\ fun \o (header \o body) \in Words
    <3>1. IsSeq(<<"function">>)
      BY Cat
    <3>2. /\ Rewrites(fun \o <<"function">>, <<>>, fun \o (header \o body))
          /\ IsSeq(fun \o <<"function">>) /\ fun \o (header \o body) \in Words
      BY <1>2, <2>2, <2>4, <3>1, Onward
    <3>3. fun \o <<"function">> = <<"kFun", "function">>
      BY Tuples
    <3>4. Rule("funcDecl", fun \o <<"function">>)
      BY <3>3, Rules
    <3> QED BY <1>10, <3>2, <3>4, Applied
  <2>7. Rule("declaration", <<"funcDecl">>)
    BY Rules
  <2>6. Rewrites(<<"funcDecl">>, <<>>, w)
    BY <1>7, <2>5
  <2> HIDE DEF w
  <2> QED BY <1>6, <1>10, <2>6, <2>7, Applied1
<1> HIDE DEF w
<1>11. Is("declaration", Node("Function", "kFun", <<a, b, c>>), w)
  BY <1>6, <1>8, <1>9, <1>10, WholeIs
<1> QED BY <1>11 DEF w

\* A part that is not there.
LEMMA NullIs ==
  /\ Is("maybeValue", Null, <<>>) /\ Is("maybeElse", Null, <<>>)
  /\ Is("maybeExpression", Null, <<>>) /\ Is("initializer", Null, <<"kSemicolon">>)
<1>1. /\ \A sort \in {"maybeValue", "maybeElse", "maybeExpression", "initializer"} :
           /\ Starts(sort) = <<sort>> /\ Leftover(sort) = <<>>
           /\ sort \in Maybes /\ sort \notin Operandlike
  BY Forms, LevelNames DEF Symbols, Maybes, Operandlike
<1>2. /\ Reads("maybeValue", Null) = <<>> /\ Reads("maybeElse", Null) = <<>>
      /\ Reads("initializer", Null) = <<"kSemicolon">>
      /\ Reads("maybeExpression", Null) = Yield(Null, <<>>)
  BY Readings DEF Plainly
<1>3. YieldLaw => Yield(Null, <<>>) = <<>>
  <2>1. IsSeq(<<>>) /\ Null = Node("null", "", <<>>)
    BY Cat DEF Null
  <2>2. YieldLaw => Yield(Null, <<>>) = YieldOf(Null, <<>>, Yield)
    BY <2>1, NodeReads
  <2> QED BY <2>2 DEF YieldOf, Null, Node
<1>4. <<>> \in Words /\ <<"kSemicolon">> \in Words /\ IsSeq(<<>>) /\ "kSemicolon" \in Tokens
  BY TokenKinds, WordsCat, Cat
<1>5. ASSUME DerivesLaw
      PROVE  /\ \A sort \in {"maybeValue", "maybeElse", "maybeExpression"} : Rewrites(<<sort>>, <<>>, <<>>)
             /\ Rewrites(<<"initializer">>, <<>>, <<"kSemicolon">>)
  <2>1. \A sort \in {"maybeValue", "maybeElse", "maybeExpression"} : Rule(sort, <<>>)
    BY Rules, MoreRules
  <2>2. \A sort \in {"maybeValue", "maybeElse", "maybeExpression"} : Rewrites(<<sort>>, <<>>, <<>>)
    BY <1>4, <1>5, <2>1, ByRule DEF Rule
  <2>3. Rule("initializer", <<"kSemicolon">>) /\ Rewrites(<<"kSemicolon">>, <<>>, <<"kSemicolon">>)
    BY <1>4, <1>5, MoreRules, ByToken
  <2> QED BY <1>4, <1>5, <2>2, <2>3, Applied1
<1> QED BY <1>1, <1>2, <1>3, <1>4, <1>5 DEF Is

\* A part that is there, after the token that begins it.
LEMMA MaybeIs ==
  ASSUME NEW a, NEW u
  PROVE  /\ Is("expression", a, u) => Is("maybeValue", a, <<"kEqual">> \o u)
         /\ Is("statement", a, u) => Is("maybeElse", a, <<"kElse">> \o u)
<1>1. ASSUME NEW sort, NEW k, NEW part, part \in {"expression", "statement"},
             <<sort, k, part>> \in {<<"maybeValue", "kEqual", "expression">>,
                                    <<"maybeElse", "kElse", "statement">>},
             Is(part, a, u)
      PROVE  Is(sort, a, <<k>> \o u)
  <2> DEFINE w == <<k>> \o u
  <2>1. /\ <<sort, k, part>> = <<"maybeValue", "kEqual", "expression">>
           \/ <<sort, k, part>> = <<"maybeElse", "kElse", "statement">>
    BY <1>1
  <2>2. /\ k \in Tokens /\ u \in Words /\ sort \in {"maybeValue", "maybeElse"}
        /\ part \in Symbols /\ part \in Plainly
        /\ part \notin Maybes /\ sort \notin Operandlike /\ Starts(sort) = <<sort>> /\ Leftover(sort) = <<>>
    <3>1. k \in Tokens /\ u \in Words
      BY <1>1, <2>1, TokenKinds, IsWord
    <3>2. sort \in {"maybeValue", "maybeElse"} /\ part \in Symbols /\ part \in Plainly /\ part \notin Maybes
      BY <1>1, <2>1 DEF Symbols, Plainly, Expressive, Maybes
    <3>3. sort \notin Operandlike /\ Starts(sort) = <<sort>> /\ Leftover(sort) = <<>>
      BY <3>2, Forms, LevelNames DEF Symbols, Operandlike
    <3> QED BY <3>1, <3>2, <3>3
  <2>3. a # Null
    BY <1>1, <2>2 DEF Is
  <2>4. w \in Words
    BY <2>2, WordsCat
  <2>5. ASSUME YieldLaw PROVE w = Reads(sort, a)
    <3>1. u = Yield(a, <<>>)
      BY <1>1, <2>2, <2>5, ReadAs
    <3> QED BY <2>1, <2>3, <3>1, Readings
  <2>6. ASSUME DerivesLaw PROVE Rewrites(<<sort>>, <<>>, w)
    <3>1. Rewrites(<<part>>, <<>>, u) /\ IsSeq(<<part>>)
      BY <1>1, <2>2, <2>6, DerivedFrom, Cat
    <3>2. Rewrites(<<k>> \o <<part>>, <<>>, w) /\ IsSeq(<<k>> \o <<part>>)
      BY <2>2, <2>6, <3>1, Token1, Onward
    <3>3. <<k>> \o <<part>> = <<k, part>>
      BY Tuples
    <3>4. Rule(sort, <<k, part>>)
      BY <2>1, Rules, MoreRules
    <3> QED BY <2>4, <2>6, <3>2, <3>3, <3>4, Applied
  <2> HIDE DEF w
  <2>7. Is(sort, a, w)
    BY <2>2, <2>3, <2>4, <2>5, <2>6 DEF Is
  <2> QED BY <2>7 DEF w
<1> QED BY <1>1

-----------------------------------------------------------------------------
(* Lists.                                                                   *)

LEMMA LastKid ==
  ASSUME NEW ns, IsSeq(ns), NEW a
  PROVE  LET t == ns \o <<a>>
         IN  /\ IsSeq(t) /\ Len(ns) \in Nat /\ Len(t) = Len(ns) + 1
             /\ t[Len(t)] = a /\ SubSeq(t, 1, Len(t) - 1) = ns
<1> DEFINE t == ns \o <<a>>
           s == SubSeq(t, 1, Len(t) - 1)
<1>1. /\ IsSeq(t) /\ Len(ns) \in Nat /\ Len(t) = Len(ns) + 1
      /\ \A i \in 1 .. Len(ns) : t[i] = ns[i]
      /\ t[Len(ns) + 1] = a
  <2>1. Append(ns, a) = t
    BY Cat
  <2> HIDE DEF t
  <2>2. /\ IsSeq(Append(ns, a)) /\ Len(ns) \in Nat /\ Len(Append(ns, a)) = Len(ns) + 1
        /\ \A i \in 1 .. Len(ns) : Append(ns, a)[i] = ns[i]
        /\ Append(ns, a)[Len(ns) + 1] = a
    BY AppendedIs
  <2> QED BY <2>1, <2>2
<1> HIDE DEF t
<1>2. IsSeq(s) /\ Len(s) = Len(ns) /\ \A i \in 1 .. Len(ns) : s[i] = t[i]
  <2>1. Len(t) - 1 = Len(ns) /\ 1 \in Nat /\ 1 <= Len(t)
    BY <1>1
  <2> QED BY <1>1, <2>1, Taken
<1> HIDE DEF s
<1>3. PICK S, T : s \in Seq(S) /\ ns \in Seq(T)
  BY <1>2 DEF IsSeq
<1>4. s \in Seq(S \cup T) /\ ns \in Seq(S \cup T)
  BY <1>3, SeqMonotonic
<1>5. s = ns
  BY <1>1, <1>2, <1>4, SeqEqual
<1> QED BY <1>1, <1>5 DEF s, t

ListOf(ns) == Node("list", "", ns)

LEMMA NoneRead == ASSUME YieldLaw, NEW separator PROVE Yield(ListOf(<<>>), separator) = <<>>
<1>1. IsSeq(<<>>) /\ Len(<<>>) = 0
  BY Cat, EmptySeq
<1>2. Yield(ListOf(<<>>), separator) = YieldOf(ListOf(<<>>), separator, Yield)
  BY <1>1, NodeReads DEF ListOf
<1>3. Len(ListOf(<<>>).kids) = 0 /\ ListOf(<<>>).what = "list"
  BY <1>1 DEF ListOf, Node
<1>4. YieldOf(ListOf(<<>>), separator, Yield) = <<>>
  BY <1>3 DEF YieldOf
<1> QED BY <1>2, <1>4

LEMMA NextRead ==
  ASSUME YieldLaw, NEW separator, NEW ns, IsSeq(ns), NEW a
  PROVE  Yield(ListOf(ns \o <<a>>), separator)
           = (Yield(ListOf(ns), separator) \o (IF ns = <<>> THEN <<>> ELSE separator))
               \o Yield(a, <<>>)
<1> DEFINE t == ns \o <<a>>
           last == Len(t)
<1>1. IsSeq(t) /\ Len(ns) \in Nat /\ last = Len(ns) + 1 /\ t[last] = a /\ SubSeq(t, 1, last - 1) = ns
  BY LastKid
<1> HIDE DEF t
<1>2. Yield(ListOf(t), separator) = YieldOf(ListOf(t), separator, Yield)
  BY <1>1, NodeReads DEF ListOf
<1>3. YieldOf(ListOf(t), separator, Yield)
        = IF last = 0 THEN <<>>
          ELSE (Yield(Node("list", "", SubSeq(t, 1, last - 1)), separator)
                 \o (IF last = 1 THEN <<>> ELSE separator)) \o Yield(t[last], <<>>)
  BY DEF ListOf, YieldOf, Node
<1>4. last # 0 /\ (last = 1 <=> ns = <<>>)
  <2>1. Len(ns) = 0 <=> ns = <<>>
    BY EmptySeq DEF IsSeq
  <2> QED BY <1>1, <2>1
<1> HIDE DEF last
<1>5. Yield(ListOf(t), separator)
        = (Yield(ListOf(ns), separator) \o (IF last = 1 THEN <<>> ELSE separator)) \o Yield(a, <<>>)
  BY <1>1, <1>2, <1>3, <1>4 DEF ListOf
<1> QED BY <1>4, <1>5 DEF t

LEMMA NextApart ==
  ASSUME YieldLaw, NEW separator, NEW ns, IsSeq(ns), ns # <<>>, NEW a
  PROVE  Yield(ListOf(ns \o <<a>>), separator)
           = (Yield(ListOf(ns), separator) \o separator) \o Yield(a, <<>>)
<1>1. (IF ns = <<>> THEN <<>> ELSE separator) = separator
  OBVIOUS
<1>2. Yield(ListOf(ns \o <<a>>), separator)
        = (Yield(ListOf(ns), separator) \o (IF ns = <<>> THEN <<>> ELSE separator))
            \o Yield(a, <<>>)
  BY NextRead
<1> QED BY <1>1, <1>2

LEMMA FirstRead ==
  ASSUME YieldLaw, NEW separator, NEW a
  PROVE  Yield(ListOf(<<a>>), separator) = (<<>> \o <<>>) \o Yield(a, <<>>)
<1>1. IsSeq(<<>>) /\ <<>> \o <<a>> = <<a>>
  BY Cat
<1>2. (IF <<>> = <<>> THEN <<>> ELSE separator) = <<>>
  OBVIOUS
<1>3. Yield(ListOf(<<>> \o <<a>>), separator)
        = (Yield(ListOf(<<>>), separator) \o (IF <<>> = <<>> THEN <<>> ELSE separator)) \o Yield(a, <<>>)
  BY <1>1, NextRead
<1> QED BY <1>1, <1>2, <1>3, NoneRead

\* One or more arguments or parameters, and the tokens they are made of.
Elements(sort, ns, w) ==
  /\ IsSeq(ns) /\ ns # <<>> /\ w \in Words
  /\ YieldLaw => Yield(ListOf(ns), <<"kComma">>) = w
  /\ DerivesLaw => Rewrites(Listed(sort, Len(ns)), <<>>, w)

LEMMA ListedOnce == \A sort : Listed(sort, 1) = <<sort>>
  BY DEF Listed

LEMMA ListedGrows ==
  ASSUME NEW sort, NEW n \in Nat \ {0}
  PROVE  /\ Listed(sort, n + 1) = (Listed(sort, n) \o <<"kComma">>) \o <<sort>>
         /\ IsSeq(Listed(sort, n))
<1> DEFINE S == {sort, "kComma"}
           part(m) == [i \in 1 .. m |-> IF i % 2 = 1 THEN sort ELSE "kComma"]
<1>1. ASSUME NEW m \in Nat
      PROVE  part(m) \in Seq(S) /\ Len(part(m)) = m /\ \A i \in 1 .. m : part(m)[i] = IF i % 2 = 1 THEN sort ELSE "kComma"
  BY <1>1
<1>2. ASSUME NEW m \in Nat PROVE part(m) \o <<IF (m + 1) % 2 = 1 THEN sort ELSE "kComma">> = part(m + 1)
  <2> DEFINE e == IF (m + 1) % 2 = 1 THEN sort ELSE "kComma"
             s == part(m)
             u == part(m + 1)
  <2>1. /\ s \in Seq(S) /\ u \in Seq(S) /\ Len(s) = m /\ Len(u) = m + 1
        /\ \A i \in 1 .. m : s[i] = IF i % 2 = 1 THEN sort ELSE "kComma"
        /\ \A i \in 1 .. m + 1 : u[i] = IF i % 2 = 1 THEN sort ELSE "kComma"
    BY <1>1
  <2> HIDE DEF s, u, S
  <2>2. /\ \A i \in 1 .. m : u[i] = s[i]
        /\ u[m + 1] = e
    BY <2>1
  <2>3. e \in S
    BY DEF S
  <2> HIDE DEF e
  <2>4. s \o <<e>> = u
    BY <2>1, <2>2, <2>3, LastOf
  <2> QED BY <2>4 DEF s, u, e
<1>3. Listed(sort, n) = part(2 * n - 1) /\ Listed(sort, n + 1) = part((2 * n) + 1)
  BY DEF Listed
<1>5. part(2 * n - 1) \o <<"kComma">> = part(2 * n)
  <2>1. 2 * n - 1 \in Nat /\ (2 * n - 1) + 1 = 2 * n /\ (2 * n) % 2 # 1
    OBVIOUS
  <2> HIDE DEF part
  <2> QED BY <1>2, <2>1
<1>6. part(2 * n) \o <<sort>> = part((2 * n) + 1)
  <2>1. 2 * n \in Nat /\ ((2 * n) + 1) % 2 = 1
    OBVIOUS
  <2> HIDE DEF part
  <2> QED BY <1>2, <2>1
<1>7. IsSeq(part(2 * n - 1))
  <2>1. 2 * n - 1 \in Nat
    OBVIOUS
  <2> QED BY <1>1, <2>1 DEF IsSeq
<1> HIDE DEF part
<1> QED BY <1>3, <1>5, <1>6, <1>7

LEMMA FirstElement ==
  ASSUME NEW sort \in {"expression", "kIdentifier"}, NEW a, NEW u, Is(sort, a, u)
  PROVE  Elements(sort, <<a>>, u)
<1>1. IsSeq(<<>>) /\ IsSeq(<<a>>) /\ <<a>> # <<>> /\ <<>> \o <<a>> = <<a>> /\ Len(<<a>>) = 1
  BY Cat
<1>2. sort \in Symbols /\ sort \in Plainly
  BY DEF Symbols, Plainly, Expressive
<1>3. u \in Words /\ <<>> \o u = u /\ <<>> \o <<>> = <<>>
  BY IsWord, Cat
<1>4. ASSUME YieldLaw PROVE Yield(ListOf(<<a>>), <<"kComma">>) = u
  <2>1. u = Yield(a, <<>>)
    BY <1>2, <1>4, ReadAs
  <2>2. Yield(ListOf(<<a>>), <<"kComma">>) = (<<>> \o <<>>) \o Yield(a, <<>>)
    BY <1>4, FirstRead
  <2> QED BY <1>3, <2>1, <2>2
<1>5. ASSUME DerivesLaw PROVE Rewrites(Listed(sort, 1), <<>>, u)
  <2>1. Rewrites(<<sort>>, <<>>, u)
    BY <1>2, <1>5, DerivedFrom
  <2>2. Listed(sort, 1) = <<sort>>
    BY ListedOnce
  <2> QED BY <2>1, <2>2
<1> QED BY <1>1, <1>3, <1>4, <1>5 DEF Elements

LEMMA NextElementIs ==
  ASSUME NEW sort \in {"expression", "kIdentifier"}, NEW ns, NEW w, Elements(sort, ns, w),
         NEW a, NEW u, Is(sort, a, u)
  PROVE  Elements(sort, ns \o <<a>>, (w \o <<"kComma">>) \o u)
<1>1. IsSeq(ns) /\ ns # <<>> /\ w \in Words /\ u \in Words /\ "kComma" \in Tokens
  BY IsWord, TokenKinds DEF Elements
<1>2. sort \in Symbols /\ sort \in Plainly
  BY DEF Symbols, Plainly, Expressive
<1>3. IsSeq(ns \o <<a>>) /\ Len(ns \o <<a>>) = Len(ns) + 1 /\ Len(ns) \in Nat
  BY <1>1, LastKid
<1>4. ns \o <<a>> # <<>> /\ Len(ns) # 0
  <2>1. Len(ns \o <<a>>) # 0
    BY <1>3
  <2> QED BY <1>1, <2>1, EmptySeq DEF IsSeq
<1>5. (w \o <<"kComma">>) \o u \in Words
  BY <1>1, WordsCat
<1>6. ASSUME YieldLaw PROVE Yield(ListOf(ns \o <<a>>), <<"kComma">>) = (w \o <<"kComma">>) \o u
  <2>1. u = Yield(a, <<>>)
    BY <1>2, <1>6, ReadAs
  <2>2. Yield(ListOf(ns), <<"kComma">>) = w
    BY <1>6 DEF Elements
  <2>3. Yield(ListOf(ns \o <<a>>), <<"kComma">>)
          = (Yield(ListOf(ns), <<"kComma">>) \o <<"kComma">>) \o Yield(a, <<>>)
    BY <1>1, <1>6, NextApart
  <2> QED BY <2>1, <2>2, <2>3
<1>7. ASSUME DerivesLaw PROVE Rewrites(Listed(sort, Len(ns) + 1), <<>>, (w \o <<"kComma">>) \o u)
  <2> DEFINE G == Listed(sort, Len(ns))
  <2>1. Rewrites(G, <<>>, w) /\ Rewrites(<<sort>>, <<>>, u)
    BY <1>2, <1>7, DerivedFrom DEF Elements
  <2>2. IsSeq(G) /\ Listed(sort, Len(ns) + 1) = (G \o <<"kComma">>) \o <<sort>>
    BY <1>3, <1>4, ListedGrows
  <2> HIDE DEF G
  <2>3. /\ Rewrites(G \o <<"kComma">>, <<>>, w \o <<"kComma">>) /\ w \o <<"kComma">> \in Words
        /\ IsSeq(G \o <<"kComma">>)
    BY <1>1, <1>7, <2>1, <2>2, LongerByToken
  <2>4. Rewrites((G \o <<"kComma">>) \o <<sort>>, <<>>, (w \o <<"kComma">>) \o u)
    BY <1>1, <2>1, <2>3, Longer
  <2> QED BY <2>2, <2>4
<1> QED BY <1>3, <1>4, <1>5, <1>6, <1>7 DEF Elements

ListSort(sort) == IF sort = "expression" THEN "maybeArguments" ELSE "maybeParameters"

LEMMA ListIs ==
  ASSUME NEW sort \in {"expression", "kIdentifier"}, NEW ns, NEW w, w \in Words, IsSeq(ns),
         YieldLaw => Yield(ListOf(ns), <<"kComma">>) = w,
         NEW form, IsSeq(form), Rule(ListSort(sort), form), DerivesLaw => Rewrites(form, <<>>, w)
  PROVE  Is(ListSort(sort), ListOf(ns), w)
<1> DEFINE s == ListSort(sort)
<1>1. s \in {"maybeArguments", "maybeParameters"}
  BY DEF ListSort
<1> HIDE DEF s
<1>2. /\ Reads(s, ListOf(ns)) = Yield(ListOf(ns), <<"kComma">>) /\ Starts(s) = <<s>> /\ Leftover(s) = <<>>
      /\ s \notin Operandlike
  BY <1>1, Readings, Forms, LevelNames DEF Symbols, Operandlike
<1>3. DerivesLaw => Rewrites(<<s>>, <<>>, w)
  BY Applied DEF s
<1>4. ListOf(ns) # Null
  BY DEF ListOf, Null, Node
<1>5. Is(s, ListOf(ns), w)
  BY <1>2, <1>3, <1>4 DEF Is
<1> QED BY <1>5 DEF s

LEMMA ElementsAre ==
  ASSUME NEW sort \in {"expression", "kIdentifier"}, NEW ns, NEW w, Elements(sort, ns, w),
         Len(ns) <= MaxList
  PROVE  Is(ListSort(sort), ListOf(ns), w)
<1>1. IsSeq(ns) /\ ns # <<>> /\ w \in Words
  BY DEF Elements
<1>2. Len(ns) \in Nat \ {0}
  BY <1>1, EmptySeq, LenProperties DEF IsSeq
<1>3. Len(ns) \in 1 .. MaxList
  BY <1>2, ListAssumption
<1>4. IsSeq(Listed(sort, Len(ns)))
  BY <1>2, ListedGrows
<1>5. Rule(ListSort(sort), Listed(sort, Len(ns)))
  BY <1>3, ListRules DEF ListSort
<1> QED BY <1>1, <1>4, <1>5, ListIs DEF Elements

LEMMA NoElements == \A sort \in {"expression", "kIdentifier"} : Is(ListSort(sort), ListOf(<<>>), <<>>)
<1> SUFFICES ASSUME NEW sort \in {"expression", "kIdentifier"}
             PROVE  Is(ListSort(sort), ListOf(<<>>), <<>>)
  OBVIOUS
<1>1. IsSeq(<<>>) /\ <<>> \in Words /\ Rewrites(<<>>, <<>>, <<>>)
  BY Cat, WordsCat, FromNothing
<1>2. Rule(ListSort(sort), <<>>)
  BY ListRules DEF ListSort
<1>3. YieldLaw => Yield(ListOf(<<>>), <<"kComma">>) = <<>>
  BY NoneRead
<1> QED BY <1>1, <1>2, <1>3, ListIs

\* Any number of declarations.
Declared(ns, w) ==
  /\ IsSeq(ns) /\ w \in Words
  /\ YieldLaw => Yield(ListOf(ns), <<>>) = w
  /\ DerivesLaw => Rewrites(<<"declarations">>, <<"declarations">>, w)

LEMMA NoDeclarations == Declared(<<>>, <<>>)
  BY Cat, WordsCat, FromNothing, NoneRead DEF Declared

LEMMA MoreDeclarations ==
  ASSUME NEW ns, NEW w, Declared(ns, w), NEW a, NEW u, Is("declaration", a, u)
  PROVE  Declared(ns \o <<a>>, w \o u)
<1>1. IsSeq(ns) /\ w \in Words /\ u \in Words
  BY IsWord DEF Declared
<1>2. IsSeq(ns \o <<a>>) /\ w \o u \in Words
  BY <1>1, LastKid, WordsCat
<1>3. ASSUME YieldLaw PROVE Yield(ListOf(ns \o <<a>>), <<>>) = w \o u
  <2>1. u = Yield(a, <<>>)
    BY <1>3, ReadAs DEF Plainly
  <2>2. Yield(ListOf(ns), <<>>) = w
    BY <1>3 DEF Declared
  <2>6. w \o <<>> = w
    BY <1>1, WordsCat, Cat
  <2>3. CASE ns # <<>>
    <3>1. Yield(ListOf(ns \o <<a>>), <<>>) = (Yield(ListOf(ns), <<>>) \o <<>>) \o Yield(a, <<>>)
      BY <1>1, <1>3, <2>3, NextApart
    <3> QED BY <2>1, <2>2, <2>6, <3>1
  <2>4. CASE ns = <<>>
    <3>1. Yield(ListOf(<<a>>), <<>>) = (<<>> \o <<>>) \o Yield(a, <<>>)
      BY <1>3, FirstRead
    <3>2. ns \o <<a>> = <<a>> /\ <<>> \o <<>> = <<>>
      BY <2>4, Cat
    <3>3. w = <<>>
      BY <1>3, <2>2, <2>4, NoneRead
    <3> QED BY <2>1, <3>1, <3>2, <3>3
  <2> QED BY <2>3, <2>4
<1>4. ASSUME DerivesLaw PROVE Rewrites(<<"declarations">>, <<"declarations">>, w \o u)
  <2>1. Rewrites(<<"declarations">>, <<"declarations">>, w) /\ Rewrites(<<"declaration">>, <<>>, u)
    BY <1>4, DerivedFrom DEF Declared, Symbols
  <2>2. /\ IsSeq(<<"declaration">>) /\ IsSeq(<<"declarations">>) /\ IsSeq(<<>>)
        /\ <<>> \o <<"declarations">> = <<"declarations">>
        /\ <<"declaration">> \o <<"declarations">> = <<"declaration", "declarations">>
    BY Cat, Tuples
  <2>3. Rewrites(<<"declaration", "declarations">>, <<"declarations">>, u)
    BY <1>1, <2>1, <2>2, BesideOthers
  <2>4. IsSeq(<<"declaration", "declarations">>)
    BY TupleSeqs
  <2>5. Rewrites(<<"declarations">>, <<"declarations">>, u)
    BY <1>1, <1>4, <2>3, <2>4, Rules, Applied
  <2> QED BY <1>1, <2>1, <2>5, OnAndOn
<1> QED BY <1>2, <1>3, <1>4 DEF Declared

LEMMA DeclarationsAre ==
  ASSUME NEW ns, NEW w, Declared(ns, w) PROVE Is("declarations", ListOf(ns), w)
<1>1. /\ Reads("declarations", ListOf(ns)) = Yield(ListOf(ns), <<>>)
      /\ Starts("declarations") = <<"declarations">> /\ Leftover("declarations") = <<>>
      /\ "declarations" \notin Operandlike
  BY Readings, Forms, LevelNames DEF Symbols, Plainly, Operandlike
<1>2. w \in Words
  BY DEF Declared
<1>3. DerivesLaw => Rewrites(<<"declarations">>, <<>>, w)
  BY <1>2, Rules, Ends DEF Declared
<1>4. ListOf(ns) # Null
  BY DEF ListOf, Null, Node
<1> QED BY <1>1, <1>2, <1>3, <1>4 DEF Is, Declared

\* A list and the bracket that closes it.
LEMMA ClosedIs ==
  ASSUME NEW a, NEW u
  PROVE  /\ Is("declarations", a, u) => Is("statements", a, u \o <<"kRightBrace">>)
         /\ Is("maybeArguments", a, u) => Is("arguments", a, u \o <<"kRightParen">>)
         /\ Is("maybeParameters", a, u) => Is("parameters", a, u \o <<"kRightParen">>)
<1>1. ASSUME NEW sort \in {"declarations", "maybeArguments", "maybeParameters"}, Is(sort, a, u),
             NEW closed \in {"statements", "arguments", "parameters"}, NEW k \in Tokens,
             Starts(closed) = <<sort, k>>,
             Reads(closed, a) = Reads(sort, a) \o <<k>>
      PROVE  Is(closed, a, u \o <<k>>)
  <2>1. /\ u \in Words /\ u \o <<k>> \in Words /\ sort \in Symbols /\ Leftover(closed) = <<>>
        /\ closed \notin Operandlike /\ sort \notin Maybes
    BY <1>1, IsWord, WordsCat, Forms, LevelNames DEF Symbols, Operandlike, Maybes
  <2>2. DerivesLaw => Rewrites(<<sort, k>>, <<>>, u \o <<k>>)
    <3>1. IsSeq(<<sort>>) /\ <<sort>> \o <<k>> = <<sort, k>>
      BY Cat, Tuples
    <3> QED BY <1>1, <2>1, <3>1, DerivedFrom, LongerByToken
  <2>3. a # Null
    BY <1>1, <2>1 DEF Is
  <2>4. YieldLaw => u \o <<k>> = Reads(closed, a)
    BY <1>1, SortWords
  <2> QED BY <1>1, <2>1, <2>2, <2>3, <2>4 DEF Is
<1>2. /\ Starts("statements") = <<"declarations", "kRightBrace">>
      /\ Starts("arguments") = <<"maybeArguments", "kRightParen">>
      /\ Starts("parameters") = <<"maybeParameters", "kRightParen">>
  BY Forms
<1>3. /\ Reads("statements", a) = Reads("declarations", a) \o <<"kRightBrace">>
      /\ Reads("arguments", a) = Reads("maybeArguments", a) \o <<"kRightParen">>
      /\ Reads("parameters", a) = Reads("maybeParameters", a) \o <<"kRightParen">>
  <2>1. "declarations" \in Plainly
    BY DEF Plainly
  <2>2. /\ Reads("declarations", a) = Yield(a, <<>>)
        /\ Reads("maybeArguments", a) = Yield(a, <<"kComma">>)
        /\ Reads("maybeParameters", a) = Yield(a, <<"kComma">>)
    BY <2>1, Readings
  <2>3. /\ Reads("statements", a) = Yield(a, <<>>) \o <<"kRightBrace">>
        /\ Reads("arguments", a) = Yield(a, <<"kComma">>) \o <<"kRightParen">>
        /\ Reads("parameters", a) = Yield(a, <<"kComma">>) \o <<"kRightParen">>
    BY Readings
  <2> QED BY <2>2, <2>3
<1>4. {"kRightBrace", "kRightParen"} \subseteq Tokens
  BY TokenKinds
<1>5. ASSUME Is("declarations", a, u) PROVE Is("statements", a, u \o <<"kRightBrace">>)
  <2>1. "kRightBrace" \in Tokens
    BY <1>4
  <2> QED BY <1>1, <1>2, <1>3, <1>5, <2>1
<1>6. ASSUME Is("maybeArguments", a, u) PROVE Is("arguments", a, u \o <<"kRightParen">>)
  <2>1. "kRightParen" \in Tokens
    BY <1>4
  <2> QED BY <1>1, <1>2, <1>3, <1>6, <2>1
<1>7. ASSUME Is("maybeParameters", a, u) PROVE Is("parameters", a, u \o <<"kRightParen">>)
  <2>1. "kRightParen" \in Tokens
    BY <1>4
  <2> QED BY <1>1, <1>2, <1>3, <1>7, <2>1
<1> QED BY <1>5, <1>6, <1>7

-----------------------------------------------------------------------------
(* What an item does.                                                       *)

\* The nodes there are, and the tokens before the cursor.
St(nodes, text) == [nodes |-> nodes, text |-> text]

\* There are the nodes ns, made of the tokens w, more than n0 and before.
Grown(n0, before, p, ns, w) ==
  /\ IsSeq(n0) /\ before \in Words /\ IsSeq(ns) /\ w \in Words
  /\ p.nodes = n0 \o ns /\ p.text = before \o w

\* There is one tree of a sort more.
Gives(n0, before, q, sort) == \E a, w : Is(sort, a, w) /\ Grown(n0, before, q, <<a>>, w)
Adds1(p, q, sort) ==
  \A n0, before : Grown(n0, before, p, <<>>, <<>>) => Gives(n0, before, q, sort)

\* What a function makes, and the token taken before it is called.
SortOf == [
  next_expression |-> "expression", assignment |-> "assignment",
  logical_or |-> "logical_or", logical_and |-> "logical_and", equality |-> "equality",
  comparison |-> "comparison", term |-> "term", factor |-> "factor", unary |-> "unary",
  call |-> "call", primary |-> "primary", identifier |-> "kIdentifier",
  parameter |-> "kIdentifier", get_condition |-> "condition", get_args |-> "arguments",
  get_params |-> "parameters", get_stmts |-> "statements",
  var_decl |-> "varDecl", function_decl |-> "declaration", next_declaration |-> "declaration",
  next_statement |-> "statement", print_stmt |-> "statement", block_stmt |-> "statement",
  if_stmt |-> "statement", while_stmt |-> "statement", for_stmt |-> "statement",
  return_stmt |-> "statement", expr_stmt |-> "exprStmt",
  initializer |-> "initializer", nothing |-> "initializer"]
Key == [var_decl |-> "kVar", function_decl |-> "kFun", print_stmt |-> "kPrint",
        block_stmt |-> "kLeftBrace", if_stmt |-> "kIf", while_stmt |-> "kWhile",
        for_stmt |-> "kFor", return_stmt |-> "kReturn", nothing |-> "kSemicolon"]
TakenBy(f) == IF f \in DOMAIN Key THEN <<Key[f]>> ELSE <<>>
Element == [get_args |-> "expression", get_params |-> "kIdentifier"]
Repeating(l) == IF l = "calls" THEN "call" ELSE l

Does(it, p, q) ==
  /\ it.do = "call" /\ it.what \in DOMAIN SortOf =>
       \A n0, before : Grown(n0, before, p, <<>>, TakenBy(it.what))
                         => Gives(n0, before, q, SortOf[it.what])
  /\ it.do = "call" /\ it.what = "assigned?" =>
       \A n0, before, a, w : Is("logical_or", a, w) /\ Grown(n0, before, p, <<a>>, w)
                               => Gives(n0, before, q, "assignment")
  /\ it.do = "call" /\ it.what = "assigned!" =>
       \A n0, before, a, w, b, u :
         /\ Is("logical_or", a, w) /\ Is("assignment", b, u)
         /\ Grown(n0, before, p, <<a, b>>, (w \o <<"kEqual">>) \o u)
         => Gives(n0, before, q, "assignment")
  /\ ~ (it.do = "call" /\ it.what = "throw") /\ it.do # "skip"
  /\ it.do = "expect" =>
       \A n0, before, ns, w : Grown(n0, before, p, ns, w)
                                => Grown(n0, before, q, ns, w \o <<it.kind>>)
  /\ it.do = "take" =>
       \A n0, before : Grown(n0, before, p, <<>>, <<>>)
                         => \E k \in Tokens : Grown(n0, before, q, <<Node("Token", k, <<>>)>>, <<k>>)
  /\ it.do = "opt" /\ it.kind = "kElse" => Adds1(p, q, "maybeElse")
  /\ it.do = "opt" /\ it.kind = "kEqual" => Adds1(p, q, "maybeValue")
  /\ it.do = "unless" => Adds1(p, q, "maybeExpression")
  /\ it.do = "make" =>
       \A n0, before, ns, w : Len(ns) = Arity(it.what) /\ Grown(n0, before, p, ns, w)
                                => Grown(n0, before, q, <<Node(it.what, it.kind, ns)>>, w)
  /\ it.do = "loop" /\ it.what \in Repeats =>
       \A n0, before, a, w : Is(Repeating(it.what), a, w) /\ Grown(n0, before, p, <<a>>, w)
                               => Gives(n0, before, q, Repeating(it.what))
  /\ it.do = "loop" /\ it.what \in DOMAIN Element =>
       \A n0, before, ns, w :
         Len(n0) = it.n /\ Elements(Element[it.what], ns, w) /\ Grown(n0, before, p, ns, w)
         => Gives(n0, before, q, ListSort(Element[it.what]))
  /\ it.do = "loop" /\ it.what \in {"get_stmts", "parse"} =>
       \A n0, before, ns, w : Len(n0) = it.n /\ Declared(ns, w) /\ Grown(n0, before, p, ns, w)
                                => Gives(n0, before, q, "declarations")
  /\ it.do = "loop" /\ it.what = "end of list" =>
       \A n0, before, ns, w : Len(n0) = it.n /\ Grown(n0, before, p, ns, w)
                                => Grown(n0, before, q, <<ListOf(ns)>>, w)

LEMMA Sorted ==
  /\ {"assigned?", "assigned!", "throw"} \cap DOMAIN SortOf = {}
  /\ Repeats \cap {"get_args", "get_params", "get_stmts", "parse", "end of list"} = {}
  /\ DOMAIN Element = {"get_args", "get_params"}
  BY LevelNames DEF SortOf, Element, Repeats

\* To show what each kind of item does, or to use it.
LEMMA DoesCall ==
  ASSUME NEW it, NEW p, NEW q, it.do = "call", it.what \in DOMAIN SortOf
  PROVE  Does(it, p, q) <=> \A n0, before : Grown(n0, before, p, <<>>, TakenBy(it.what))
                                              => Gives(n0, before, q, SortOf[it.what])
  BY Sorted DEF Does

LEMMA DoesAssign ==
  ASSUME NEW it, NEW p, NEW q, it.do = "call"
  PROVE  /\ it.what = "assigned?" =>
              (Does(it, p, q) <=>
                \A n0, before, a, w : Is("logical_or", a, w) /\ Grown(n0, before, p, <<a>>, w)
                                        => Gives(n0, before, q, "assignment"))
         /\ it.what = "assigned!" =>
              (Does(it, p, q) <=>
                \A n0, before, a, w, b, u :
                  /\ Is("logical_or", a, w) /\ Is("assignment", b, u)
                  /\ Grown(n0, before, p, <<a, b>>, (w \o <<"kEqual">>) \o u)
                  => Gives(n0, before, q, "assignment"))
         /\ it.what = "throw" => ~ Does(it, p, q)
  BY Sorted DEF Does

LEMMA DoesToken ==
  ASSUME NEW it, NEW p, NEW q
  PROVE  /\ it.do = "expect" =>
              (Does(it, p, q) <=>
                \A n0, before, ns, w : Grown(n0, before, p, ns, w)
                                         => Grown(n0, before, q, ns, w \o <<it.kind>>))
         /\ it.do = "take" =>
              (Does(it, p, q) <=>
                \A n0, before : Grown(n0, before, p, <<>>, <<>>)
                  => \E k \in Tokens : Grown(n0, before, q, <<Node("Token", k, <<>>)>>, <<k>>))
         /\ it.do = "skip" => ~ Does(it, p, q)
  BY DEF Does

LEMMA DoesOption ==
  ASSUME NEW it, NEW p, NEW q
  PROVE  /\ it.do = "opt" /\ it.kind = "kElse" => (Does(it, p, q) <=> Adds1(p, q, "maybeElse"))
         /\ it.do = "opt" /\ it.kind = "kEqual" => (Does(it, p, q) <=> Adds1(p, q, "maybeValue"))
         /\ it.do = "opt" /\ it.kind \notin {"kElse", "kEqual"} => Does(it, p, q)
         /\ it.do = "unless" => (Does(it, p, q) <=> Adds1(p, q, "maybeExpression"))
  BY DEF Does

LEMMA DoesMake ==
  ASSUME NEW it, NEW p, NEW q, it.do = "make"
  PROVE  Does(it, p, q) <=>
           \A n0, before, ns, w : Len(ns) = Arity(it.what) /\ Grown(n0, before, p, ns, w)
                                    => Grown(n0, before, q, <<Node(it.what, it.kind, ns)>>, w)
  BY DEF Does

LEMMA DoesLoop ==
  ASSUME NEW it, NEW p, NEW q, it.do = "loop"
  PROVE  /\ it.what \in Repeats =>
              (Does(it, p, q) <=>
                \A n0, before, a, w : Is(Repeating(it.what), a, w) /\ Grown(n0, before, p, <<a>>, w)
                                        => Gives(n0, before, q, Repeating(it.what)))
         /\ it.what \in DOMAIN Element =>
              (Does(it, p, q) <=>
                \A n0, before, ns, w :
                  /\ Len(n0) = it.n /\ Elements(Element[it.what], ns, w)
                  /\ Grown(n0, before, p, ns, w)
                  => Gives(n0, before, q, ListSort(Element[it.what])))
         /\ it.what \in {"get_stmts", "parse"} =>
              (Does(it, p, q) <=>
                \A n0, before, ns, w :
                  Len(n0) = it.n /\ Declared(ns, w) /\ Grown(n0, before, p, ns, w)
                    => Gives(n0, before, q, "declarations"))
         /\ it.what = "end of list" =>
              (Does(it, p, q) <=>
                \A n0, before, ns, w : Len(n0) = it.n /\ Grown(n0, before, p, ns, w)
                                         => Grown(n0, before, q, <<ListOf(ns)>>, w))
  BY Sorted DEF Does

-----------------------------------------------------------------------------
(* One item after another.                                                  *)

Run(s, p, q) ==
  \E g : /\ g[1] = p /\ g[Len(s) + 1] = q
         /\ \A i \in 1 .. Len(s) : Does(s[i], g[i], g[i + 1])

LEMMA RunNothing == ASSUME NEW p, NEW q PROVE Run(<<>>, p, q) <=> p = q
<1>1. Len(<<>>) = 0
  BY EmptySeq
<1>2. ASSUME Run(<<>>, p, q) PROVE p = q
  <2>1. PICK g : g[1] = p /\ g[Len(<<>>) + 1] = q
    BY <1>2 DEF Run
  <2> QED BY <1>1, <2>1
<1>3. ASSUME p = q PROVE Run(<<>>, p, q)
  <2> DEFINE g == [i \in {1} |-> p]
  <2>1. g[1] = p
    OBVIOUS
  <2> HIDE DEF g
  <2>2. g[1] = p /\ g[Len(<<>>) + 1] = q /\ \A i \in 1 .. Len(<<>>) : Does(<<>>[i], g[i], g[i + 1])
    BY <1>1, <1>3, <2>1
  <2> QED BY <2>2 DEF Run
<1> QED BY <1>2, <1>3

LEMMA Run1 ==
  ASSUME NEW a, NEW p, NEW q, Run(<<a>>, p, q)
  PROVE  Does(a, p, q)
<1> DEFINE s == <<a>>
<1>1. Len(s) = 1 /\ s[1] = a
  OBVIOUS
<1> HIDE DEF s
<1>2. PICK y : y[1] = p /\ y[2] = q /\ \A i \in 1 .. 1 : Does(s[i], y[i], y[i + 1])
  <2>1. Run(s, p, q)
    BY DEF s
  <2> QED BY <1>1, <2>1 DEF Run
<1>3. /\ Does(a, p, q)
  BY <1>1, <1>2
<1> QED BY <1>3

LEMMA Run2 ==
  ASSUME NEW a, NEW b, NEW p, NEW q, Run(<<a, b>>, p, q)
  PROVE  \E x1 : Does(a, p, x1) /\ Does(b, x1, q)
<1> DEFINE s == <<a, b>>
<1>1. Len(s) = 2 /\ s[1] = a /\ s[2] = b
  OBVIOUS
<1> HIDE DEF s
<1>2. PICK y : y[1] = p /\ y[3] = q /\ \A i \in 1 .. 2 : Does(s[i], y[i], y[i + 1])
  <2>1. Run(s, p, q)
    BY DEF s
  <2> QED BY <1>1, <2>1 DEF Run
<1>3. /\ Does(a, p, y[2]) /\ Does(b, y[2], q)
  BY <1>1, <1>2
<1> QED BY <1>3

LEMMA Run3 ==
  ASSUME NEW a, NEW b, NEW c, NEW p, NEW q, Run(<<a, b, c>>, p, q)
  PROVE  \E x1, x2 : Does(a, p, x1) /\ Does(b, x1, x2) /\ Does(c, x2, q)
<1> DEFINE s == <<a, b, c>>
<1>1. Len(s) = 3 /\ s[1] = a /\ s[2] = b /\ s[3] = c
  OBVIOUS
<1> HIDE DEF s
<1>2. PICK y : y[1] = p /\ y[4] = q /\ \A i \in 1 .. 3 : Does(s[i], y[i], y[i + 1])
  <2>1. Run(s, p, q)
    BY DEF s
  <2> QED BY <1>1, <2>1 DEF Run
<1>3. /\ Does(a, p, y[2]) /\ Does(b, y[2], y[3]) /\ Does(c, y[3], q)
  BY <1>1, <1>2
<1> QED BY <1>3

LEMMA Run4 ==
  ASSUME NEW a, NEW b, NEW c, NEW d, NEW p, NEW q, Run(<<a, b, c, d>>, p, q)
  PROVE  \E x1, x2, x3 : /\ Does(a, p, x1) /\ Does(b, x1, x2) /\ Does(c, x2, x3)
                         /\ Does(d, x3, q)
<1> DEFINE s == <<a, b, c, d>>
<1>1. Len(s) = 4 /\ s[1] = a /\ s[2] = b /\ s[3] = c /\ s[4] = d
  OBVIOUS
<1> HIDE DEF s
<1>2. PICK y : y[1] = p /\ y[5] = q /\ \A i \in 1 .. 4 : Does(s[i], y[i], y[i + 1])
  <2>1. Run(s, p, q)
    BY DEF s
  <2> QED BY <1>1, <2>1 DEF Run
<1>3. /\ Does(a, p, y[2]) /\ Does(b, y[2], y[3]) /\ Does(c, y[3], y[4])
      /\ Does(d, y[4], q)
  BY <1>1, <1>2
<1> QED BY <1>3

LEMMA Run6 ==
  ASSUME NEW a, NEW b, NEW c, NEW d, NEW e, NEW f, NEW p, NEW q, Run(<<a, b, c, d, e, f>>, p, q)
  PROVE  \E x1, x2, x3, x4, x5 : /\ Does(a, p, x1) /\ Does(b, x1, x2) /\ Does(c, x2, x3)
                                 /\ Does(d, x3, x4) /\ Does(e, x4, x5) /\ Does(f, x5, q)
<1> DEFINE s == <<a, b, c, d, e, f>>
<1>1. Len(s) = 6 /\ s[1] = a /\ s[2] = b /\ s[3] = c /\ s[4] = d /\ s[5] = e /\ s[6] = f
  OBVIOUS
<1> HIDE DEF s
<1>2. PICK y : y[1] = p /\ y[7] = q /\ \A i \in 1 .. 6 : Does(s[i], y[i], y[i + 1])
  <2>1. Run(s, p, q)
    BY DEF s
  <2> QED BY <1>1, <2>1 DEF Run
<1>3. /\ Does(a, p, y[2]) /\ Does(b, y[2], y[3]) /\ Does(c, y[3], y[4])
      /\ Does(d, y[4], y[5]) /\ Does(e, y[5], y[6]) /\ Does(f, y[6], q)
  BY <1>1, <1>2
<1> QED BY <1>3

LEMMA Run8 ==
  ASSUME NEW a, NEW b, NEW c, NEW d, NEW e, NEW f, NEW g, NEW h, NEW p, NEW q, Run(<<a, b, c, d, e, f, g, h>>, p, q)
  PROVE  \E x1, x2, x3, x4, x5, x6, x7 : /\ Does(a, p, x1) /\ Does(b, x1, x2) /\ Does(c, x2, x3)
                                         /\ Does(d, x3, x4) /\ Does(e, x4, x5) /\ Does(f, x5, x6)
                                         /\ Does(g, x6, x7) /\ Does(h, x7, q)
<1> DEFINE s == <<a, b, c, d, e, f, g, h>>
<1>1. Len(s) = 8 /\ s[1] = a /\ s[2] = b /\ s[3] = c /\ s[4] = d /\ s[5] = e /\ s[6] = f /\ s[7] = g /\ s[8] = h
  OBVIOUS
<1> HIDE DEF s
<1>2. PICK y : y[1] = p /\ y[9] = q /\ \A i \in 1 .. 8 : Does(s[i], y[i], y[i + 1])
  <2>1. Run(s, p, q)
    BY DEF s
  <2> QED BY <1>1, <2>1 DEF Run
<1>3. /\ Does(a, p, y[2]) /\ Does(b, y[2], y[3]) /\ Does(c, y[3], y[4])
      /\ Does(d, y[4], y[5]) /\ Does(e, y[5], y[6]) /\ Does(f, y[6], y[7])
      /\ Does(g, y[7], y[8]) /\ Does(h, y[8], q)
  BY <1>1, <1>2
<1> QED BY <1>3

\* When the first item gives way to others, nothing more can come of all of them
\* than before.
LEMMA Instead ==
  ASSUME NEW t, IsSeq(t), t # <<>>, NEW u, IsSeq(u), NEW p, NEW p1, NEW q,
         \A r : Run(u, p1, r) => Does(t[1], p, r), Run(u \o Tail(t), p1, q)
  PROVE  Run(t, p, q)
<1> DEFINE s == u \o Tail(t)
           k == Len(u)
           n == Len(t)
<1>1. /\ k \in Nat /\ n \in Nat \ {0} /\ Len(s) = k + n - 1
      /\ \A i \in 1 .. Len(s) : s[i] = IF i <= k THEN u[i] ELSE t[i - k + 1]
  BY Joined
<1>2. PICK g : /\ g[1] = p1 /\ g[Len(s) + 1] = q
               /\ \A i \in 1 .. Len(s) : Does(s[i], g[i], g[i + 1])
  BY DEF Run
<1> HIDE DEF s
<1>3. Run(u, p1, g[k + 1])
  <2>1. \A i \in 1 .. k : Does(u[i], g[i], g[i + 1])
    BY <1>1, <1>2
  <2> QED BY <1>2, <2>1 DEF Run
<1>4. Does(t[1], p, g[k + 1])
  BY <1>3
<1> DEFINE G == [i \in 1 .. n + 1 |-> IF i = 1 THEN p ELSE g[k + i - 1]]
<1>5. ASSUME NEW i \in 1 .. n PROVE Does(t[i], G[i], G[i + 1])
  <2>1. G[i + 1] = g[k + i]
    BY <1>1
  <2>2. CASE i = 1
    <3>1. G[i] = p
      BY <1>1, <2>2
    <3> HIDE DEF G
    <3> QED BY <1>4, <2>1, <2>2, <3>1
  <2>3. CASE i # 1
    <3>1. G[i] = g[k + i - 1]
      BY <1>1, <2>3
    <3>2. k + i - 1 \in 1 .. Len(s) /\ s[k + i - 1] = t[i]
      BY <1>1, <2>3
    <3>3. Does(s[k + i - 1], g[k + i - 1], g[k + i])
      BY <1>1, <1>2, <3>2
    <3> HIDE DEF G
    <3> QED BY <2>1, <3>1, <3>2, <3>3
  <2> QED BY <2>2, <2>3
<1>6. G[1] = p /\ G[n + 1] = q
  BY <1>1, <1>2
<1> HIDE DEF G
<1> QED BY <1>5, <1>6 DEF Run

-----------------------------------------------------------------------------
(* What grows on what has grown.                                            *)

LEMMA Deeper ==
  ASSUME NEW n0, NEW before, NEW p, NEW ns, NEW w, Grown(n0, before, p, ns, w)
  PROVE  Grown(n0 \o ns, before \o w, p, <<>>, <<>>)
<1>1. IsSeq(n0 \o ns) /\ IsSeq(<<>>) /\ (n0 \o ns) \o <<>> = n0 \o ns
  BY Cat DEF Grown
<1>2. before \o w \in Words /\ <<>> \in Words
  BY WordsCat DEF Grown
<1>3. (before \o w) \o <<>> = before \o w
  BY <1>2, WordsCat, Cat
<1> QED BY <1>1, <1>2, <1>3 DEF Grown

LEMMA Back ==
  ASSUME NEW n0, NEW before, NEW p, NEW ns, NEW w, Grown(n0, before, p, ns, w),
         NEW q, NEW ms, NEW u, Grown(n0 \o ns, before \o w, q, ms, u)
  PROVE  Grown(n0, before, q, ns \o ms, w \o u)
<1>1. IsSeq(n0) /\ IsSeq(ns) /\ IsSeq(ms) /\ before \in Words /\ w \in Words /\ u \in Words
  BY DEF Grown
<1>2. (n0 \o ns) \o ms = n0 \o (ns \o ms) /\ IsSeq(ns \o ms)
  <2>1. IsSeq(n0) /\ IsSeq(ns) /\ IsSeq(ms)
    BY <1>1
  <2>2. (n0 \o ns) \o ms = n0 \o (ns \o ms)
    BY <2>1, Associates DEF Join
  <2> QED BY <2>1, <2>2, Cat
<1>3. w \o u \in Words
  BY <1>1, WordsCat
<1>4. (before \o w) \o u = before \o (w \o u)
  <2>1. IsSeq(before) /\ IsSeq(w) /\ IsSeq(u)
    BY <1>1, WordsCat
  <2> QED BY <2>1, Cat
<1> QED BY <1>1, <1>2, <1>3, <1>4 DEF Grown

\* What adds a tree to nothing adds it to all there is.
LEMMA OneMore ==
  ASSUME NEW n0, NEW before, NEW p, NEW ns, NEW w, Grown(n0, before, p, ns, w),
         NEW q, NEW sort, Adds1(p, q, sort)
  PROVE  \E a, u : Is(sort, a, u) /\ Grown(n0, before, q, ns \o <<a>>, w \o u)
<1>1. Grown(n0 \o ns, before \o w, p, <<>>, <<>>)
  BY Deeper
<1>2. PICK a, u : Is(sort, a, u) /\ Grown(n0 \o ns, before \o w, q, <<a>>, u)
  BY <1>1 DEF Adds1, Gives
<1>3. Grown(n0, before, q, ns \o <<a>>, w \o u)
  BY <1>2, Back
<1> QED BY <1>2, <1>3

LEMMA CallsAdd ==
  ASSUME NEW f \in DOMAIN SortOf, f \notin DOMAIN Key, NEW p, NEW q, Does(Call(f), p, q)
  PROVE  Adds1(p, q, SortOf[f])
<1>1. Call(f).do = "call" /\ Call(f).what = f /\ TakenBy(f) = <<>>
  BY DEF Call, Item, TakenBy
<1> QED BY <1>1, DoesCall DEF Adds1

LEMMA OptionsAdd ==
  ASSUME NEW p, NEW q
  PROVE  /\ Does(Opt("kElse"), p, q) => Adds1(p, q, "maybeElse")
         /\ Does(Opt("kEqual"), p, q) => Adds1(p, q, "maybeValue")
         /\ \A k : Does(Unless(k), p, q) => Adds1(p, q, "maybeExpression")
<1>1. /\ Opt("kElse").do = "opt" /\ Opt("kElse").kind = "kElse"
      /\ Opt("kEqual").do = "opt" /\ Opt("kEqual").kind = "kEqual"
      /\ \A k : Unless(k).do = "unless"
  BY DEF Opt, Unless, Item
<1> QED BY <1>1, DoesOption

LEMMA NameAdded ==
  ASSUME NEW n0, NEW before, NEW p, NEW ns, NEW w, Grown(n0, before, p, ns, w),
         NEW q, Does(Take, p, q)
  PROVE  \E k \in Tokens : Grown(n0, before, q, ns \o <<Node("Token", k, <<>>)>>, w \o <<k>>)
<1>1. Grown(n0 \o ns, before \o w, p, <<>>, <<>>)
  BY Deeper
<1>2. Take.do = "take"
  BY DEF Take, Item
<1>3. PICK k \in Tokens :
        Grown(n0 \o ns, before \o w, q, <<Node("Token", k, <<>>)>>, <<k>>)
  BY <1>1, <1>2, DoesToken
<1>4. Grown(n0, before, q, ns \o <<Node("Token", k, <<>>)>>, w \o <<k>>)
  BY <1>3, Back
<1> QED BY <1>4

LEMMA Expected ==
  ASSUME NEW n0, NEW before, NEW p, NEW ns, NEW w, Grown(n0, before, p, ns, w),
         NEW q, NEW k, Does(Expect(k), p, q)
  PROVE  Grown(n0, before, q, ns, w \o <<k>>)
<1>1. Expect(k).do = "expect" /\ Expect(k).kind = k
  BY DEF Expect, Item
<1> QED BY <1>1, DoesToken

LEMMA NodeMade ==
  ASSUME NEW n0, NEW before, NEW p, NEW ns, NEW w, Grown(n0, before, p, ns, w),
         NEW q, NEW what, NEW op, Does(Make(what, op), p, q), Len(ns) = Arity(what)
  PROVE  Grown(n0, before, q, <<Node(what, op, ns)>>, w)
<1>1. Make(what, op).do = "make" /\ Make(what, op).what = what /\ Make(what, op).kind = op
  BY DEF Make, Item
<1> QED BY <1>1, DoesMake

-----------------------------------------------------------------------------
(* The functions that have no choice of their own.                          *)

LEMMA AddsFirst ==
  ASSUME NEW n0, NEW before, NEW p, Grown(n0, before, p, <<>>, <<>>),
         NEW q, NEW sort, Adds1(p, q, sort)
  PROVE  \E a, u : Is(sort, a, u) /\ Grown(n0, before, q, <<a>>, u)
  BY DEF Adds1, Gives

LEMMA More1 ==
  ASSUME NEW n0, NEW before, NEW p, NEW w, Grown(n0, before, p, <<>>, w),
         NEW q, NEW sort, Adds1(p, q, sort)
  PROVE  \E a, u : Is(sort, a, u) /\ Grown(n0, before, q, <<a>>, w \o u)
<1>1. \A a : <<>> \o <<a>> = <<a>>
  BY Cat
<1>2. PICK a, u : Is(sort, a, u) /\ Grown(n0, before, q, <<>> \o <<a>>, w \o u)
  BY OneMore
<1>3. Grown(n0, before, q, <<a>>, w \o u)
  BY <1>1, <1>2
<1> QED BY <1>2, <1>3

LEMMA More2 ==
  ASSUME NEW n0, NEW before, NEW p, NEW w, NEW a, Grown(n0, before, p, <<a>>, w),
         NEW q, NEW sort, Adds1(p, q, sort)
  PROVE  \E b, u : Is(sort, b, u) /\ Grown(n0, before, q, <<a, b>>, w \o u)
<1>1. \A b : <<a>> \o <<b>> = <<a, b>>
  BY Tuple2
<1>2. PICK b, u : Is(sort, b, u) /\ Grown(n0, before, q, <<a>> \o <<b>>, w \o u)
  BY OneMore
<1>3. Grown(n0, before, q, <<a, b>>, w \o u)
  BY <1>1, <1>2
<1> QED BY <1>2, <1>3

LEMMA More3 ==
  ASSUME NEW n0, NEW before, NEW p, NEW w, NEW a, NEW b, Grown(n0, before, p, <<a, b>>, w),
         NEW q, NEW sort, Adds1(p, q, sort)
  PROVE  \E c, u : Is(sort, c, u) /\ Grown(n0, before, q, <<a, b, c>>, w \o u)
<1>1. \A c : <<a, b>> \o <<c>> = <<a, b, c>>
  BY Tuple3
<1>2. PICK c, u : Is(sort, c, u) /\ Grown(n0, before, q, <<a, b>> \o <<c>>, w \o u)
  BY OneMore
<1>3. Grown(n0, before, q, <<a, b, c>>, w \o u)
  BY <1>1, <1>2
<1> QED BY <1>2, <1>3

LEMMA More4 ==
  ASSUME NEW n0, NEW before, NEW p, NEW w, NEW a, NEW b, NEW c, Grown(n0, before, p, <<a, b, c>>, w),
         NEW q, NEW sort, Adds1(p, q, sort)
  PROVE  \E d, u : Is(sort, d, u) /\ Grown(n0, before, q, <<a, b, c, d>>, w \o u)
<1>1. \A d : <<a, b, c>> \o <<d>> = <<a, b, c, d>>
  BY Tuple4
<1>2. PICK d, u : Is(sort, d, u) /\ Grown(n0, before, q, <<a, b, c>> \o <<d>>, w \o u)
  BY OneMore
<1>3. Grown(n0, before, q, <<a, b, c, d>>, w \o u)
  BY <1>1, <1>2
<1> QED BY <1>2, <1>3

LEMMA Adding ==
  ASSUME NEW p, NEW q
  PROVE  /\ Does(Call("next_expression"), p, q) => Adds1(p, q, "expression")
         /\ Does(Call("assignment"), p, q) => Adds1(p, q, "assignment")
         /\ \A f \in Operandlike : Does(Call(f), p, q) => Adds1(p, q, f)
         /\ \A f \in {"identifier", "parameter"} : Does(Call(f), p, q) => Adds1(p, q, "kIdentifier")
         /\ Does(Call("get_condition"), p, q) => Adds1(p, q, "condition")
         /\ Does(Call("get_args"), p, q) => Adds1(p, q, "arguments")
         /\ Does(Call("get_params"), p, q) => Adds1(p, q, "parameters")
         /\ Does(Call("get_stmts"), p, q) => Adds1(p, q, "statements")
         /\ Does(Call("next_declaration"), p, q) => Adds1(p, q, "declaration")
         /\ Does(Call("next_statement"), p, q) => Adds1(p, q, "statement")
         /\ Does(Call("expr_stmt"), p, q) => Adds1(p, q, "exprStmt")
         /\ Does(Call("initializer"), p, q) => Adds1(p, q, "initializer")
<1>1. \A f \in DOMAIN SortOf : f \notin DOMAIN Key /\ Does(Call(f), p, q) => Adds1(p, q, SortOf[f])
  BY CallsAdd
<1>2. \A f \in Operandlike : f \in DOMAIN SortOf /\ f \notin DOMAIN Key /\ SortOf[f] = f
  BY LevelNames DEF Operandlike, SortOf, Key
<1>3. /\ SortOf["next_expression"] = "expression" /\ SortOf["assignment"] = "assignment"
      /\ SortOf["identifier"] = "kIdentifier" /\ SortOf["parameter"] = "kIdentifier"
      /\ SortOf["get_condition"] = "condition" /\ SortOf["get_args"] = "arguments"
      /\ SortOf["get_params"] = "parameters" /\ SortOf["get_stmts"] = "statements"
      /\ SortOf["next_declaration"] = "declaration" /\ SortOf["next_statement"] = "statement"
      /\ SortOf["expr_stmt"] = "exprStmt" /\ SortOf["initializer"] = "initializer"
  BY DEF SortOf
<1>4. \A f \in {"next_expression", "assignment", "identifier", "parameter", "get_condition",
                "get_args", "get_params", "get_stmts", "next_declaration", "next_statement",
                "expr_stmt", "initializer"} : f \in DOMAIN SortOf /\ f \notin DOMAIN Key
  BY DEF SortOf, Key
<1> QED BY <1>1, <1>2, <1>3, <1>4

\* A loop that replaces the node it finds.
LEMMA LoopGives ==
  ASSUME NEW l \in Repeats, NEW n, NEW p, NEW q, Does(Loop(l, n), p, q), NEW sort, sort = Repeating(l),
         NEW n0, NEW before, NEW a, NEW w, Is(sort, a, w), Grown(n0, before, p, <<a>>, w)
  PROVE  Gives(n0, before, q, sort)
<1> DEFINE it == Loop(l, n)
<1>1. it.do = "loop" /\ it.what = l
  BY DEF Loop, Item
<1>2. Does(it, p, q)
  OBVIOUS
<1> HIDE DEF it
<1>3. \A m0, before0, b, u :
        Is(Repeating(it.what), b, u) /\ Grown(m0, before0, p, <<b>>, u)
          => Gives(m0, before0, q, Repeating(it.what))
  BY <1>1, <1>2, DoesLoop
<1>4. \A m0, before0, b, u :
        Is(sort, b, u) /\ Grown(m0, before0, p, <<b>>, u) => Gives(m0, before0, q, sort)
  BY <1>1, <1>3
<1> QED BY <1>4

LEMMA NextExpressionDoes ==
  ASSUME NEW it, it.do = "call", it.what = "next_expression", NEW p, NEW q,
         Run(Body.next_expression, p, q)
  PROVE  Does(it, p, q)
<1>1. it.what \in DOMAIN SortOf /\ SortOf[it.what] = "expression" /\ TakenBy(it.what) = <<>>
  BY DEF SortOf, TakenBy, Key
<1> SUFFICES ASSUME NEW n0, NEW before, Grown(n0, before, p, <<>>, <<>>)
             PROVE  Gives(n0, before, q, "expression")
  BY <1>1, DoesCall
<1>2. Does(Call("assignment"), p, q)
  BY Run1 DEF Body
<1>3. PICK a, u : Is("assignment", a, u) /\ Grown(n0, before, q, <<a>>, u)
  BY <1>2, Adding, AddsFirst
<1>4. Is("expression", a, u)
  BY <1>3, ExpressionWidens
<1> QED BY <1>3, <1>4 DEF Gives

LEMMA AssignmentDoes ==
  ASSUME NEW it, it.do = "call", it.what = "assignment", NEW p, NEW q,
         Run(Body.assignment, p, q)
  PROVE  Does(it, p, q)
<1>1. it.what \in DOMAIN SortOf /\ SortOf[it.what] = "assignment" /\ TakenBy(it.what) = <<>>
  BY DEF SortOf, TakenBy, Key
<1> SUFFICES ASSUME NEW n0, NEW before, Grown(n0, before, p, <<>>, <<>>)
             PROVE  Gives(n0, before, q, "assignment")
  BY <1>1, DoesCall
<1>2. PICK s1 : Does(Call("logical_or"), p, s1) /\ Does(Call("assigned?"), s1, q)
  BY Run2 DEF Body
<1>3. PICK a, u : Is("logical_or", a, u) /\ Grown(n0, before, s1, <<a>>, u)
  <2>1. "logical_or" \in Operandlike
    BY LevelNames DEF Operandlike
  <2> QED BY <1>2, <2>1, Adding, AddsFirst
<1>4. Call("assigned?").do = "call" /\ Call("assigned?").what = "assigned?"
  BY DEF Call, Item
<1>5. \A y, v : Is("logical_or", y, v) /\ Grown(n0, before, s1, <<y>>, v)
                => Gives(n0, before, q, "assignment")
  BY <1>2, <1>4, DoesAssign
<1> QED BY <1>3, <1>5

LEMMA CallDoes ==
  ASSUME NEW it, it.do = "call", it.what = "call", NEW p, NEW q, Run(Body.call, p, q)
  PROVE  Does(it, p, q)
<1>1. it.what \in DOMAIN SortOf /\ SortOf[it.what] = "call" /\ TakenBy(it.what) = <<>>
  BY DEF SortOf, TakenBy, Key
<1> SUFFICES ASSUME NEW n0, NEW before, Grown(n0, before, p, <<>>, <<>>)
             PROVE  Gives(n0, before, q, "call")
  BY <1>1, DoesCall
<1>2. PICK s1 : Does(Call("primary"), p, s1) /\ Does(Loop("calls", 0), s1, q)
  BY Run2 DEF Body
<1>3. PICK a, u : Is("primary", a, u) /\ Grown(n0, before, s1, <<a>>, u)
  <2>1. "primary" \in Operandlike
    BY DEF Operandlike
  <2> QED BY <1>2, <2>1, Adding, AddsFirst
<1>4. Is("call", a, u)
  BY <1>3, OperandWidens
<1>5. "calls" \in Repeats /\ "call" = Repeating("calls")
  BY DEF Repeats, Repeating
<1> QED BY <1>2, <1>3, <1>4, <1>5, LoopGives

LEMMA LevelDoes ==
  ASSUME NEW it, it.do = "call", NEW l \in Levels, it.what = l, NEW p, NEW q,
         Run(<<Call(Operand[l]), Loop(l, 0)>>, p, q)
  PROVE  Does(it, p, q)
<1>0. "calls" \notin Levels /\ Operand[l] \in Operandlike
  BY LevelNames DEF Operandlike, Operand
<1>1. it.what \in DOMAIN SortOf /\ SortOf[it.what] = l /\ TakenBy(it.what) = <<>>
  BY LevelNames DEF SortOf, TakenBy, Key
<1> SUFFICES ASSUME NEW n0, NEW before, Grown(n0, before, p, <<>>, <<>>)
             PROVE  Gives(n0, before, q, l)
  BY <1>1, DoesCall
<1>2. PICK s1 : Does(Call(Operand[l]), p, s1) /\ Does(Loop(l, 0), s1, q)
  BY Run2
<1>3. PICK a, u : Is(Operand[l], a, u) /\ Grown(n0, before, s1, <<a>>, u)
  BY <1>0, <1>2, Adding, AddsFirst
<1>4. Is(l, a, u)
  BY <1>3, OperandWidens
<1>5. l \in Repeats /\ l = Repeating(l)
  BY <1>0 DEF Repeats, Repeating
<1> QED BY <1>2, <1>3, <1>4, <1>5, LoopGives

LEMMA VarDeclDoes ==
  ASSUME NEW it, it.do = "call", it.what = "var_decl", NEW p, NEW q, Run(Body.var_decl, p, q)
  PROVE  Does(it, p, q)
<1>1. it.what \in DOMAIN SortOf /\ SortOf[it.what] = "varDecl" /\ TakenBy(it.what) = <<"kVar">>
  BY DEF SortOf, TakenBy, Key
<1> SUFFICES ASSUME NEW n0, NEW before, Grown(n0, before, p, <<>>, <<"kVar">>)
             PROVE  Gives(n0, before, q, "varDecl")
  BY <1>1, DoesCall
<1>2. PICK s1, s2, s3 :
        /\ Does(Call("identifier"), p, s1) /\ Does(Opt("kEqual"), s1, s2)
        /\ Does(Expect("kSemicolon"), s2, s3) /\ Does(Make("Var", "kVar"), s3, q)
  BY Run4 DEF Body
<1>3. PICK a, u : Is("kIdentifier", a, u) /\ Grown(n0, before, s1, <<a>>, <<"kVar">> \o u)
  <2>1. Adds1(p, s1, "kIdentifier")
    BY <1>2, Adding
  <2> QED BY <2>1, More1
<1>4. PICK b, v : Is("maybeValue", b, v) /\ Grown(n0, before, s2, <<a, b>>, <<"kVar">> \o u \o v)
  <2>1. Adds1(s1, s2, "maybeValue")
    BY <1>2, OptionsAdd
  <2> QED BY <1>3, <2>1, More2
<1>5. Grown(n0, before, s3, <<a, b>>, <<"kVar">> \o u \o v \o <<"kSemicolon">>)
  BY <1>2, <1>4, Expected
<1>6. Grown(n0, before, q, <<Node("Var", "kVar", <<a, b>>)>>, <<"kVar">> \o u \o v \o <<"kSemicolon">>)
  <2>1. Len(<<a, b>>) = Arity("Var")
    BY TupleSeqs, Arities
  <2> QED BY <1>2, <1>5, <2>1, NodeMade
<1>7. Is("varDecl", Node("Var", "kVar", <<a, b>>), <<"kVar">> \o u \o v \o <<"kSemicolon">>)
  BY <1>3, <1>4, VarIs
<1> QED BY <1>6, <1>7 DEF Gives

LEMMA FunctionDeclDoes ==
  ASSUME NEW it, it.do = "call", it.what = "function_decl", NEW p, NEW q, Run(Body.function_decl, p, q)
  PROVE  Does(it, p, q)
<1>1. it.what \in DOMAIN SortOf /\ SortOf[it.what] = "declaration" /\ TakenBy(it.what) = <<"kFun">>
  BY DEF SortOf, TakenBy, Key
<1> SUFFICES ASSUME NEW n0, NEW before, Grown(n0, before, p, <<>>, <<"kFun">>)
             PROVE  Gives(n0, before, q, "declaration")
  BY <1>1, DoesCall
<1>2. PICK s1, s2, s3, s4, s5 :
        /\ Does(Take, p, s1) /\ Does(Expect("kLeftParen"), s1, s2)
        /\ Does(Call("get_params"), s2, s3) /\ Does(Expect("kLeftBrace"), s3, s4)
        /\ Does(Call("get_stmts"), s4, s5) /\ Does(Make("Function", "kFun"), s5, q)
  BY Run6 DEF Body
<1>3. PICK k \in Tokens : Grown(n0, before, s1, <<Node("Token", k, <<>>)>>, <<"kFun">> \o <<k>>)
  <2>1. \A e : <<>> \o <<e>> = <<e>>
    BY Cat
  <2>2. PICK k \in Tokens :
          Grown(n0, before, s1, <<>> \o <<Node("Token", k, <<>>)>>, <<"kFun">> \o <<k>>)
    BY <1>2, NameAdded
  <2>3. Grown(n0, before, s1, <<Node("Token", k, <<>>)>>, <<"kFun">> \o <<k>>)
    BY <2>1, <2>2
  <2> QED BY <2>3
<1>4. Grown(n0, before, s2, <<Node("Token", k, <<>>)>>, <<"kFun">> \o <<k>> \o <<"kLeftParen">>)
  BY <1>2, <1>3, Expected
<1>5. PICK b, v : Is("parameters", b, v) /\ Grown(n0, before, s3, <<Node("Token", k, <<>>), b>>, <<"kFun">> \o <<k>> \o <<"kLeftParen">> \o v)
  <2>1. Adds1(s2, s3, "parameters")
    BY <1>2, Adding
  <2> QED BY <1>4, <2>1, More2
<1>6. Grown(n0, before, s4, <<Node("Token", k, <<>>), b>>, <<"kFun">> \o <<k>> \o <<"kLeftParen">> \o v \o <<"kLeftBrace">>)
  BY <1>2, <1>5, Expected
<1>7. PICK c, x : Is("statements", c, x) /\ Grown(n0, before, s5, <<Node("Token", k, <<>>), b, c>>, <<"kFun">> \o <<k>> \o <<"kLeftParen">> \o v \o <<"kLeftBrace">> \o x)
  <2>1. Adds1(s4, s5, "statements")
    BY <1>2, Adding
  <2> QED BY <1>6, <2>1, More3
<1>8. Grown(n0, before, q, <<Node("Function", "kFun", <<Node("Token", k, <<>>), b, c>>)>>, <<"kFun">> \o <<k>> \o <<"kLeftParen">> \o v \o <<"kLeftBrace">> \o x)
  <2>1. Len(<<Node("Token", k, <<>>), b, c>>) = Arity("Function")
    BY TupleSeqs, Arities
  <2> QED BY <1>2, <1>7, <2>1, NodeMade
<1>9. Is("declaration", Node("Function", "kFun", <<Node("Token", k, <<>>), b, c>>), <<"kFun">> \o <<k>> \o <<"kLeftParen">> \o v \o <<"kLeftBrace">> \o x)
  BY <1>5, <1>7, FunctionIs
<1> QED BY <1>8, <1>9 DEF Gives

LEMMA GetConditionDoes ==
  ASSUME NEW it, it.do = "call", it.what = "get_condition", NEW p, NEW q, Run(Body.get_condition, p, q)
  PROVE  Does(it, p, q)
<1>1. it.what \in DOMAIN SortOf /\ SortOf[it.what] = "condition" /\ TakenBy(it.what) = <<>>
  BY DEF SortOf, TakenBy, Key
<1> SUFFICES ASSUME NEW n0, NEW before, Grown(n0, before, p, <<>>, <<>>)
             PROVE  Gives(n0, before, q, "condition")
  BY <1>1, DoesCall
<1>2. PICK s1, s2 :
        /\ Does(Expect("kLeftParen"), p, s1) /\ Does(Call("next_expression"), s1, s2)
        /\ Does(Expect("kRightParen"), s2, q)
  BY Run3 DEF Body
<1>3. Grown(n0, before, s1, <<>>, <<"kLeftParen">>)
  <2>1. <<>> \o <<"kLeftParen">> = <<"kLeftParen">>
    BY Cat
  <2> QED BY <1>2, <2>1, Expected
<1>4. PICK a, u : Is("expression", a, u) /\ Grown(n0, before, s2, <<a>>, <<"kLeftParen">> \o u)
  <2>1. Adds1(s1, s2, "expression")
    BY <1>2, Adding
  <2> QED BY <1>3, <2>1, More1
<1>5. Grown(n0, before, q, <<a>>, <<"kLeftParen">> \o u \o <<"kRightParen">>)
  BY <1>2, <1>4, Expected
<1>6. Is("condition", a, <<"kLeftParen">> \o u \o <<"kRightParen">>)
  BY <1>4, ConditionIs
<1> QED BY <1>5, <1>6 DEF Gives

LEMMA IfStmtDoes ==
  ASSUME NEW it, it.do = "call", it.what = "if_stmt", NEW p, NEW q, Run(Body.if_stmt, p, q)
  PROVE  Does(it, p, q)
<1>1. it.what \in DOMAIN SortOf /\ SortOf[it.what] = "statement" /\ TakenBy(it.what) = <<"kIf">>
  BY DEF SortOf, TakenBy, Key
<1> SUFFICES ASSUME NEW n0, NEW before, Grown(n0, before, p, <<>>, <<"kIf">>)
             PROVE  Gives(n0, before, q, "statement")
  BY <1>1, DoesCall
<1>2. PICK s1, s2, s3 :
        /\ Does(Call("get_condition"), p, s1) /\ Does(Call("next_statement"), s1, s2)
        /\ Does(Opt("kElse"), s2, s3) /\ Does(Make("If", "kIf"), s3, q)
  BY Run4 DEF Body
<1>3. PICK a, u : Is("condition", a, u) /\ Grown(n0, before, s1, <<a>>, <<"kIf">> \o u)
  <2>1. Adds1(p, s1, "condition")
    BY <1>2, Adding
  <2> QED BY <2>1, More1
<1>4. PICK b, v : Is("statement", b, v) /\ Grown(n0, before, s2, <<a, b>>, <<"kIf">> \o u \o v)
  <2>1. Adds1(s1, s2, "statement")
    BY <1>2, Adding
  <2> QED BY <1>3, <2>1, More2
<1>5. PICK c, x : Is("maybeElse", c, x) /\ Grown(n0, before, s3, <<a, b, c>>, <<"kIf">> \o u \o v \o x)
  <2>1. Adds1(s2, s3, "maybeElse")
    BY <1>2, OptionsAdd
  <2> QED BY <1>4, <2>1, More3
<1>6. Grown(n0, before, q, <<Node("If", "kIf", <<a, b, c>>)>>, <<"kIf">> \o u \o v \o x)
  <2>1. Len(<<a, b, c>>) = Arity("If")
    BY TupleSeqs, Arities
  <2> QED BY <1>2, <1>5, <2>1, NodeMade
<1>7. Is("statement", Node("If", "kIf", <<a, b, c>>), <<"kIf">> \o u \o v \o x)
  BY <1>3, <1>4, <1>5, IfIs
<1> QED BY <1>6, <1>7 DEF Gives

LEMMA BlockStmtDoes ==
  ASSUME NEW it, it.do = "call", it.what = "block_stmt", NEW p, NEW q, Run(Body.block_stmt, p, q)
  PROVE  Does(it, p, q)
<1>1. it.what \in DOMAIN SortOf /\ SortOf[it.what] = "statement" /\ TakenBy(it.what) = <<"kLeftBrace">>
  BY DEF SortOf, TakenBy, Key
<1> SUFFICES ASSUME NEW n0, NEW before, Grown(n0, before, p, <<>>, <<"kLeftBrace">>)
             PROVE  Gives(n0, before, q, "statement")
  BY <1>1, DoesCall
<1>2. PICK s1 :
        /\ Does(Call("get_stmts"), p, s1) /\ Does(Make("Block", "kLeftBrace"), s1, q)
  BY Run2 DEF Body
<1>3. PICK a, u : Is("statements", a, u) /\ Grown(n0, before, s1, <<a>>, <<"kLeftBrace">> \o u)
  <2>1. Adds1(p, s1, "statements")
    BY <1>2, Adding
  <2> QED BY <2>1, More1
<1>4. Grown(n0, before, q, <<Node("Block", "kLeftBrace", <<a>>)>>, <<"kLeftBrace">> \o u)
  <2>1. Len(<<a>>) = Arity("Block")
    BY TupleSeqs, Arities
  <2> QED BY <1>2, <1>3, <2>1, NodeMade
<1>5. Is("statement", Node("Block", "kLeftBrace", <<a>>), <<"kLeftBrace">> \o u)
  BY <1>3, BlockIs
<1> QED BY <1>4, <1>5 DEF Gives

LEMMA WhileStmtDoes ==
  ASSUME NEW it, it.do = "call", it.what = "while_stmt", NEW p, NEW q, Run(Body.while_stmt, p, q)
  PROVE  Does(it, p, q)
<1>1. it.what \in DOMAIN SortOf /\ SortOf[it.what] = "statement" /\ TakenBy(it.what) = <<"kWhile">>
  BY DEF SortOf, TakenBy, Key
<1> SUFFICES ASSUME NEW n0, NEW before, Grown(n0, before, p, <<>>, <<"kWhile">>)
             PROVE  Gives(n0, before, q, "statement")
  BY <1>1, DoesCall
<1>2. PICK s1, s2 :
        /\ Does(Call("get_condition"), p, s1) /\ Does(Call("next_statement"), s1, s2)
        /\ Does(Make("While", "kWhile"), s2, q)
  BY Run3 DEF Body
<1>3. PICK a, u : Is("condition", a, u) /\ Grown(n0, before, s1, <<a>>, <<"kWhile">> \o u)
  <2>1. Adds1(p, s1, "condition")
    BY <1>2, Adding
  <2> QED BY <2>1, More1
<1>4. PICK b, v : Is("statement", b, v) /\ Grown(n0, before, s2, <<a, b>>, <<"kWhile">> \o u \o v)
  <2>1. Adds1(s1, s2, "statement")
    BY <1>2, Adding
  <2> QED BY <1>3, <2>1, More2
<1>5. Grown(n0, before, q, <<Node("While", "kWhile", <<a, b>>)>>, <<"kWhile">> \o u \o v)
  <2>1. Len(<<a, b>>) = Arity("While")
    BY TupleSeqs, Arities
  <2> QED BY <1>2, <1>4, <2>1, NodeMade
<1>6. Is("statement", Node("While", "kWhile", <<a, b>>), <<"kWhile">> \o u \o v)
  BY <1>3, <1>4, WhileIs
<1> QED BY <1>5, <1>6 DEF Gives

LEMMA ForStmtDoes ==
  ASSUME NEW it, it.do = "call", it.what = "for_stmt", NEW p, NEW q, Run(Body.for_stmt, p, q)
  PROVE  Does(it, p, q)
<1>1. it.what \in DOMAIN SortOf /\ SortOf[it.what] = "statement" /\ TakenBy(it.what) = <<"kFor">>
  BY DEF SortOf, TakenBy, Key
<1> SUFFICES ASSUME NEW n0, NEW before, Grown(n0, before, p, <<>>, <<"kFor">>)
             PROVE  Gives(n0, before, q, "statement")
  BY <1>1, DoesCall
<1>2. PICK s1, s2, s3, s4, s5, s6, s7 :
        /\ Does(Expect("kLeftParen"), p, s1) /\ Does(Call("initializer"), s1, s2)
        /\ Does(Unless("kSemicolon"), s2, s3) /\ Does(Expect("kSemicolon"), s3, s4)
        /\ Does(Unless("kRightParen"), s4, s5) /\ Does(Expect("kRightParen"), s5, s6)
        /\ Does(Call("next_statement"), s6, s7) /\ Does(Make("For", "kFor"), s7, q)
  BY Run8 DEF Body
<1>3. Grown(n0, before, s1, <<>>, <<"kFor">> \o <<"kLeftParen">>)
  BY <1>2, Expected
<1>4. PICK a, u : Is("initializer", a, u) /\ Grown(n0, before, s2, <<a>>, <<"kFor">> \o <<"kLeftParen">> \o u)
  <2>1. Adds1(s1, s2, "initializer")
    BY <1>2, Adding
  <2> QED BY <1>3, <2>1, More1
<1>5. PICK b, v : Is("maybeExpression", b, v) /\ Grown(n0, before, s3, <<a, b>>, <<"kFor">> \o <<"kLeftParen">> \o u \o v)
  <2>1. Adds1(s2, s3, "maybeExpression")
    BY <1>2, OptionsAdd
  <2> QED BY <1>4, <2>1, More2
<1>6. Grown(n0, before, s4, <<a, b>>, <<"kFor">> \o <<"kLeftParen">> \o u \o v \o <<"kSemicolon">>)
  BY <1>2, <1>5, Expected
<1>7. PICK c, x : Is("maybeExpression", c, x) /\ Grown(n0, before, s5, <<a, b, c>>, <<"kFor">> \o <<"kLeftParen">> \o u \o v \o <<"kSemicolon">> \o x)
  <2>1. Adds1(s4, s5, "maybeExpression")
    BY <1>2, OptionsAdd
  <2> QED BY <1>6, <2>1, More3
<1>8. Grown(n0, before, s6, <<a, b, c>>, <<"kFor">> \o <<"kLeftParen">> \o u \o v \o <<"kSemicolon">> \o x \o <<"kRightParen">>)
  BY <1>2, <1>7, Expected
<1>9. PICK d, y : Is("statement", d, y) /\ Grown(n0, before, s7, <<a, b, c, d>>, <<"kFor">> \o <<"kLeftParen">> \o u \o v \o <<"kSemicolon">> \o x \o <<"kRightParen">> \o y)
  <2>1. Adds1(s6, s7, "statement")
    BY <1>2, Adding
  <2> QED BY <1>8, <2>1, More4
<1>10. Grown(n0, before, q, <<Node("For", "kFor", <<a, b, c, d>>)>>, <<"kFor">> \o <<"kLeftParen">> \o u \o v \o <<"kSemicolon">> \o x \o <<"kRightParen">> \o y)
  <2>1. Len(<<a, b, c, d>>) = Arity("For")
    BY TupleSeqs, Arities
  <2> QED BY <1>2, <1>9, <2>1, NodeMade
<1>11. Is("statement", Node("For", "kFor", <<a, b, c, d>>), <<"kFor">> \o <<"kLeftParen">> \o u \o v \o <<"kSemicolon">> \o x \o <<"kRightParen">> \o y)
  BY <1>4, <1>5, <1>7, <1>9, ForIs
<1> QED BY <1>10, <1>11 DEF Gives

LEMMA ReturnStmtDoes ==
  ASSUME NEW it, it.do = "call", it.what = "return_stmt", NEW p, NEW q, Run(Body.return_stmt, p, q)
  PROVE  Does(it, p, q)
<1>1. it.what \in DOMAIN SortOf /\ SortOf[it.what] = "statement" /\ TakenBy(it.what) = <<"kReturn">>
  BY DEF SortOf, TakenBy, Key
<1> SUFFICES ASSUME NEW n0, NEW before, Grown(n0, before, p, <<>>, <<"kReturn">>)
             PROVE  Gives(n0, before, q, "statement")
  BY <1>1, DoesCall
<1>2. PICK s1, s2 :
        /\ Does(Unless("kSemicolon"), p, s1) /\ Does(Expect("kSemicolon"), s1, s2)
        /\ Does(Make("Return", "kReturn"), s2, q)
  BY Run3 DEF Body
<1>3. PICK a, u : Is("maybeExpression", a, u) /\ Grown(n0, before, s1, <<a>>, <<"kReturn">> \o u)
  <2>1. Adds1(p, s1, "maybeExpression")
    BY <1>2, OptionsAdd
  <2> QED BY <2>1, More1
<1>4. Grown(n0, before, s2, <<a>>, <<"kReturn">> \o u \o <<"kSemicolon">>)
  BY <1>2, <1>3, Expected
<1>5. Grown(n0, before, q, <<Node("Return", "kReturn", <<a>>)>>, <<"kReturn">> \o u \o <<"kSemicolon">>)
  <2>1. Len(<<a>>) = Arity("Return")
    BY TupleSeqs, Arities
  <2> QED BY <1>2, <1>4, <2>1, NodeMade
<1>6. Is("statement", Node("Return", "kReturn", <<a>>), <<"kReturn">> \o u \o <<"kSemicolon">>)
  BY <1>3, ReturnIs
<1> QED BY <1>5, <1>6 DEF Gives

LEMMA PrintStmtDoes ==
  ASSUME NEW it, it.do = "call", it.what = "print_stmt", NEW p, NEW q, Run(Body.print_stmt, p, q)
  PROVE  Does(it, p, q)
<1>1. it.what \in DOMAIN SortOf /\ SortOf[it.what] = "statement" /\ TakenBy(it.what) = <<"kPrint">>
  BY DEF SortOf, TakenBy, Key
<1> SUFFICES ASSUME NEW n0, NEW before, Grown(n0, before, p, <<>>, <<"kPrint">>)
             PROVE  Gives(n0, before, q, "statement")
  BY <1>1, DoesCall
<1>2. PICK s1, s2 :
        /\ Does(Call("next_expression"), p, s1) /\ Does(Expect("kSemicolon"), s1, s2)
        /\ Does(Make("Print", "kPrint"), s2, q)
  BY Run3 DEF Body
<1>3. PICK a, u : Is("expression", a, u) /\ Grown(n0, before, s1, <<a>>, <<"kPrint">> \o u)
  <2>1. Adds1(p, s1, "expression")
    BY <1>2, Adding
  <2> QED BY <2>1, More1
<1>4. Grown(n0, before, s2, <<a>>, <<"kPrint">> \o u \o <<"kSemicolon">>)
  BY <1>2, <1>3, Expected
<1>5. Grown(n0, before, q, <<Node("Print", "kPrint", <<a>>)>>, <<"kPrint">> \o u \o <<"kSemicolon">>)
  <2>1. Len(<<a>>) = Arity("Print")
    BY TupleSeqs, Arities
  <2> QED BY <1>2, <1>4, <2>1, NodeMade
<1>6. Is("statement", Node("Print", "kPrint", <<a>>), <<"kPrint">> \o u \o <<"kSemicolon">>)
  BY <1>3, PrintIs
<1> QED BY <1>5, <1>6 DEF Gives

LEMMA ExprStmtDoes ==
  ASSUME NEW it, it.do = "call", it.what = "expr_stmt", NEW p, NEW q, Run(Body.expr_stmt, p, q)
  PROVE  Does(it, p, q)
<1>1. it.what \in DOMAIN SortOf /\ SortOf[it.what] = "exprStmt" /\ TakenBy(it.what) = <<>>
  BY DEF SortOf, TakenBy, Key
<1> SUFFICES ASSUME NEW n0, NEW before, Grown(n0, before, p, <<>>, <<>>)
             PROVE  Gives(n0, before, q, "exprStmt")
  BY <1>1, DoesCall
<1>2. PICK s1, s2 :
        /\ Does(Call("next_expression"), p, s1) /\ Does(Expect("kSemicolon"), s1, s2)
        /\ Does(Make("Expression", ""), s2, q)
  BY Run3 DEF Body
<1>3. PICK a, u : Is("expression", a, u) /\ Grown(n0, before, s1, <<a>>, u)
  <2>1. Adds1(p, s1, "expression")
    BY <1>2, Adding
  <2> QED BY <2>1, AddsFirst
<1>4. Grown(n0, before, s2, <<a>>, u \o <<"kSemicolon">>)
  BY <1>2, <1>3, Expected
<1>5. Grown(n0, before, q, <<Node("Expression", "", <<a>>)>>, u \o <<"kSemicolon">>)
  <2>1. Len(<<a>>) = Arity("Expression")
    BY TupleSeqs, Arities
  <2> QED BY <1>2, <1>4, <2>1, NodeMade
<1>6. Is("exprStmt", Node("Expression", "", <<a>>), u \o <<"kSemicolon">>)
  BY <1>3, ExpressionIs
<1> QED BY <1>5, <1>6 DEF Gives

LEMMA BodyDoes ==
  ASSUME NEW it, it.do = "call", it.what \in DOMAIN Body, NEW p, NEW q, Run(Body[it.what], p, q)
  PROVE  Does(it, p, q)
<1>1. DOMAIN Body = {"next_expression", "assignment", "call", "var_decl", "function_decl",
                     "get_condition", "if_stmt", "block_stmt", "while_stmt", "for_stmt",
                     "return_stmt", "print_stmt", "expr_stmt"}
  BY DEF Body
<1>2. CASE it.what \in {"next_expression", "assignment", "call", "var_decl", "function_decl",
                        "get_condition"}
  BY <1>2, NextExpressionDoes, AssignmentDoes, CallDoes, VarDeclDoes, FunctionDeclDoes,
     GetConditionDoes
<1>3. CASE it.what \in {"if_stmt", "block_stmt", "while_stmt", "for_stmt", "return_stmt",
                        "print_stmt", "expr_stmt"}
  BY <1>3, IfStmtDoes, BlockStmtDoes, WhileStmtDoes, ForStmtDoes, ReturnStmtDoes, PrintStmtDoes,
     ExprStmtDoes
<1> QED BY <1>1, <1>2, <1>3

-----------------------------------------------------------------------------
(* What each step makes of the item on top.                                 *)

Now == St(built, read)

\* Nothing more can come of what the item gives way to than of the item.
Replaces == \E u : IsSeq(u) /\ Then(u) /\ \A r : Run(u, Now', r) => Does(Top, Now, r)

LEMMA TokenGrown ==
  ASSUME NEW n0, NEW before, NEW b, NEW t, NEW ns, NEW w, Grown(n0, before, St(b, t), ns, w),
         NEW k \in Tokens
  PROVE  Grown(n0, before, St(b, Append(t, k)), ns, w \o <<k>>)
<1>1. /\ IsSeq(n0) /\ before \in Words /\ IsSeq(ns) /\ w \in Words
      /\ b = n0 \o ns /\ t = before \o w
  BY DEF Grown, St
<1>2. IsSeq(before) /\ IsSeq(w) /\ IsSeq(<<k>>) /\ w \o <<k>> \in Words /\ IsSeq(t)
  BY <1>1, WordsCat, Cat
<1>3. Append(t, k) = t \o <<k>>
  BY <1>2, Appends
<1>4. (before \o w) \o <<k>> = before \o (w \o <<k>>)
  BY <1>2, Associates DEF Join
<1> QED BY <1>1, <1>2, <1>3, <1>4 DEF Grown, St

LEMMA NodeGrown ==
  ASSUME NEW n0, NEW before, NEW b, NEW t, NEW ns, NEW w, Grown(n0, before, St(b, t), ns, w), NEW e
  PROVE  Grown(n0, before, St(Append(b, e), t), ns \o <<e>>, w)
<1>1. /\ IsSeq(n0) /\ before \in Words /\ IsSeq(ns) /\ w \in Words
      /\ b = n0 \o ns /\ t = before \o w
  BY DEF Grown, St
<1>2. IsSeq(<<e>>) /\ IsSeq(ns \o <<e>>) /\ IsSeq(b)
  BY <1>1, Cat
<1>3. Append(b, e) = b \o <<e>>
  BY <1>2, Appends
<1>4. (n0 \o ns) \o <<e>> = n0 \o (ns \o <<e>>)
  <2>1. IsSeq(n0) /\ IsSeq(ns) /\ IsSeq(<<e>>)
    BY <1>1, <1>2
  <2> QED BY <2>1, Associates DEF Join
<1> QED BY <1>1, <1>2, <1>3, <1>4 DEF Grown, St

LEMMA OneGrown ==
  ASSUME NEW n0, NEW before, NEW b, NEW t, NEW w, Grown(n0, before, St(b, t), <<>>, w)
  PROVE  /\ \A e : Grown(n0, before, St(Append(b, e), t), <<e>>, w)
         /\ w = <<>> => \A k \in Tokens : /\ Grown(n0, before, St(b, Append(t, k)), <<>>, <<k>>)
                                          /\ \A e : Grown(n0, before, St(Append(b, e), Append(t, k)),
                                                          <<e>>, <<k>>)
<1>1. \A e : <<>> \o <<e>> = <<e>>
  BY Cat
<1>2. \A e, s, v : Grown(n0, before, St(b, s), <<>>, v) => Grown(n0, before, St(Append(b, e), s), <<e>>, v)
  <2>1. ASSUME NEW e, NEW s, NEW v, Grown(n0, before, St(b, s), <<>>, v)
        PROVE  Grown(n0, before, St(Append(b, e), s), <<e>>, v)
    <3>1. Grown(n0, before, St(Append(b, e), s), <<>> \o <<e>>, v)
      BY <2>1, NodeGrown
    <3> QED BY <1>1, <3>1
  <2> QED BY <2>1
<1>3. ASSUME w = <<>>, NEW k \in Tokens
      PROVE  Grown(n0, before, St(b, Append(t, k)), <<>>, <<k>>)
  <2>1. Grown(n0, before, St(b, Append(t, k)), <<>>, w \o <<k>>)
    BY TokenGrown
  <2>2. w \o <<k>> = <<k>>
    BY <1>1, <1>3
  <2> QED BY <2>1, <2>2
<1> QED BY <1>2, <1>3

LEMMA TakesAhead ==
  ASSUME Cursor, Advance
  PROVE  ahead \in Tokens /\ read' = Append(read, ahead)
  BY DEF Cursor, Advance, Get

\* When the item on top is a call.
LEMMA CallReplaced ==
  ASSUME Top.do = "call", Top.what \in DOMAIN SortOf, NEW w, w = TakenBy(Top.what),
         NEW sort, sort = SortOf[Top.what], NEW u, IsSeq(u), Then(u),
         \A r : Run(u, Now', r) =>
           \A n0, before : Grown(n0, before, Now, <<>>, w) => Gives(n0, before, r, sort)
  PROVE  Replaces
<1>1. ASSUME NEW r, Run(u, Now', r) PROVE Does(Top, Now, r)
  <2>1. \A n0, before : Grown(n0, before, Now, <<>>, w) => Gives(n0, before, r, sort)
    BY <1>1
  <2> HIDE DEF Top, Now
  <2> QED BY <2>1, DoesCall
<1> QED BY <1>1 DEF Replaces

\* Anything in brackets is a sequence.
LEMMA ItemSeqs ==
  /\ \A a : IsSeq(<<a>>)
  /\ \A a, b : IsSeq(<<a, b>>)
  /\ \A a, b, c : IsSeq(<<a, b, c>>)
  /\ \A a, b, c, d : IsSeq(<<a, b, c, d>>)
  /\ \A a, b, c, d, e, f : IsSeq(<<a, b, c, d, e, f>>)
  /\ \A a, b, c, d, e, f, g, h : IsSeq(<<a, b, c, d, e, f, g, h>>)
<1>1. \A a : IsSeq(<<a>>)
  BY Cat
<1>2. ASSUME NEW a, NEW b, NEW c, NEW d, NEW e, NEW f PROVE IsSeq(<<a, b, c, d, e, f>>)
  <2>1. <<a, b, c, d, e, f>> \in Seq({a, b, c, d, e, f})
    OBVIOUS
  <2> QED BY <2>1 DEF IsSeq
<1>3. ASSUME NEW a, NEW b, NEW c, NEW d, NEW e, NEW f, NEW g, NEW h
      PROVE  IsSeq(<<a, b, c, d, e, f, g, h>>)
  <2>1. <<a, b, c, d, e, f, g, h>> \in Seq({a, b, c, d, e, f, g, h})
    OBVIOUS
  <2> QED BY <2>1 DEF IsSeq
<1> QED BY <1>1, <1>2, <1>3, TupleSeqs

LEMMA BodySeqs == \A f \in DOMAIN Body : IsSeq(Body[f])
<1>1. DOMAIN Body = {"next_expression", "assignment", "call", "var_decl", "function_decl",
                     "get_condition", "if_stmt", "block_stmt", "while_stmt", "for_stmt",
                     "return_stmt", "print_stmt", "expr_stmt"}
  BY DEF Body
<1>2. /\ IsSeq(Body["next_expression"]) /\ IsSeq(Body["assignment"]) /\ IsSeq(Body["call"])
      /\ IsSeq(Body["block_stmt"])
  BY ItemSeqs DEF Body
<1>3. /\ IsSeq(Body["get_condition"]) /\ IsSeq(Body["while_stmt"]) /\ IsSeq(Body["return_stmt"])
      /\ IsSeq(Body["print_stmt"]) /\ IsSeq(Body["expr_stmt"])
  BY ItemSeqs DEF Body
<1>4. IsSeq(Body["var_decl"]) /\ IsSeq(Body["if_stmt"])
  BY ItemSeqs DEF Body
<1>5. IsSeq(Body["function_decl"]) /\ IsSeq(Body["for_stmt"])
  BY ItemSeqs DEF Body
<1> QED BY <1>1, <1>2, <1>3, <1>4, <1>5

LEMMA EnterReplaces == Enter => Replaces
<1> SUFFICES ASSUME Enter PROVE Replaces
  OBVIOUS
<1>1. Top.do = "call" /\ Now' = Now
  BY DEF Enter, Doing, Now
<1>2. CASE Top.what \in DOMAIN Body /\ Then(Body[Top.what])
  <2>1. \A r : Run(Body[Top.what], Now', r) => Does(Top, Now, r)
    BY <1>1, <1>2, BodyDoes
  <2>2. IsSeq(Body[Top.what])
    BY <1>2, BodySeqs
  <2> QED BY <1>2, <2>1, <2>2 DEF Replaces
<1>3. CASE Top.what \in Levels /\ Then(<<Call(Operand[Top.what]), Loop(Top.what, 0)>>)
  <2> DEFINE l == Top.what
             u == <<Call(Operand[l]), Loop(l, 0)>>
  <2>1. \A r : Run(u, Now', r) => Does(Top, Now, r)
    BY <1>1, <1>3, LevelDoes
  <2>2. IsSeq(u)
    BY TupleSeqs
  <2> HIDE DEF u
  <2>3. Then(u)
    BY <1>3 DEF u
  <2> QED BY <2>1, <2>2, <2>3 DEF Replaces
<1> QED BY <1>2, <1>3 DEF Enter

Wider(some, other) == \A a, u : Is(some, a, u) => Is(other, a, u)
LEMMA ChosenFits ==
  ASSUME NEW f \in DOMAIN Chooses
  PROVE  /\ f \in DOMAIN SortOf /\ TakenBy(f) = <<>>
         /\ \A k \in DOMAIN Chooses[f] :
              LET g == Chooses[f][k]
              IN  g \in DOMAIN SortOf /\ TakenBy(g) = <<k>> /\ Wider(SortOf[g], SortOf[f])
         /\ LET g == Otherwise[f]
            IN  g \in DOMAIN SortOf /\ TakenBy(g) = <<>> /\ Wider(SortOf[g], SortOf[f])
<1>1. /\ Wider("exprStmt", "statement") /\ Wider("statement", "declaration")
      /\ Wider("varDecl", "declaration") /\ Wider("varDecl", "initializer")
      /\ Wider("exprStmt", "initializer") /\ \A sort : Wider(sort, sort)
  BY StatementWidens DEF Wider
<1>2. DOMAIN Chooses = {"next_declaration", "next_statement", "initializer"}
  BY DEF Chooses
<1>3. CASE f = "next_declaration"
  <2>1. DOMAIN Chooses[f] = {"kVar", "kFun"}
    BY <1>3 DEF Chooses
  <2>2. Chooses[f]["kVar"] = "var_decl" /\ Chooses[f]["kFun"] = "function_decl"
    BY <1>3 DEF Chooses
  <2> QED BY <1>1, <1>3, <2>1, <2>2 DEF Otherwise, SortOf, TakenBy, Key
<1>4. CASE f = "next_statement"
  <2>1. DOMAIN Chooses[f] = {"kPrint", "kLeftBrace", "kIf", "kWhile", "kFor", "kReturn"}
    BY <1>4 DEF Chooses
  <2>2. /\ Chooses[f]["kPrint"] = "print_stmt" /\ Chooses[f]["kLeftBrace"] = "block_stmt"
        /\ Chooses[f]["kIf"] = "if_stmt" /\ Chooses[f]["kWhile"] = "while_stmt"
        /\ Chooses[f]["kFor"] = "for_stmt" /\ Chooses[f]["kReturn"] = "return_stmt"
    BY <1>4 DEF Chooses
  <2> QED BY <1>1, <1>4, <2>1, <2>2 DEF Otherwise, SortOf, TakenBy, Key
<1>5. CASE f = "initializer"
  <2>1. DOMAIN Chooses[f] = {"kVar", "kSemicolon"}
    BY <1>5 DEF Chooses
  <2>2. Chooses[f]["kVar"] = "var_decl" /\ Chooses[f]["kSemicolon"] = "nothing"
    BY <1>5 DEF Chooses
  <2> QED BY <1>1, <1>5, <2>1, <2>2 DEF Otherwise, SortOf, TakenBy, Key
<1> QED BY <1>2, <1>3, <1>4, <1>5

\* What a call gives.
LEMMA CallGives ==
  ASSUME NEW g \in DOMAIN SortOf, NEW p, NEW r, Run(<<Call(g)>>, p, r), NEW n0, NEW before,
         NEW w, w = TakenBy(g), Grown(n0, before, p, <<>>, w),
         NEW sort, Wider(SortOf[g], sort)
  PROVE  Gives(n0, before, r, sort)
<1> DEFINE it == Call(g)
<1>1. it.do = "call" /\ it.what = g
  BY DEF Call, Item
<1>2. Does(it, p, r)
  BY Run1
<1> HIDE DEF it
<1>3. \A m0, before0 : Grown(m0, before0, p, <<>>, w) => Gives(m0, before0, r, SortOf[g])
  BY <1>1, <1>2, DoesCall
<1>4. Gives(n0, before, r, SortOf[g])
  BY <1>3
<1> QED BY <1>4 DEF Gives, Wider

LEMMA ChooseReplaces == Cursor /\ Choose => Replaces
<1> SUFFICES ASSUME Cursor, Choose PROVE Replaces
  OBVIOUS
<1> DEFINE f == Top.what
           sort == SortOf[f]
<1>1. Top.do = "call" /\ f \in DOMAIN Chooses /\ built' = built
  BY DEF Choose, Doing
<1>2. f \in DOMAIN SortOf /\ <<>> = TakenBy(f)
  BY <1>1, ChosenFits
<1>3. CASE ahead \in DOMAIN Chooses[f] /\ Then(<<Call(Chooses[f][ahead])>>) /\ Advance
  <2> DEFINE g == Chooses[f][ahead]
             u == <<Call(g)>>
  <2>1. g \in DOMAIN SortOf /\ <<ahead>> = TakenBy(g) /\ Wider(SortOf[g], sort)
    BY <1>1, <1>3, ChosenFits
  <2>2. ahead \in Tokens /\ read' = Append(read, ahead)
    BY <1>3, TakesAhead
  <2>3. ASSUME NEW r, Run(u, Now', r), NEW n0, NEW before, Grown(n0, before, Now, <<>>, <<>>)
        PROVE  Gives(n0, before, r, sort)
    <3>1. Grown(n0, before, St(built, Append(read, ahead)), <<>>, <<ahead>>)
      BY <2>2, <2>3, OneGrown DEF Now
    <3>2. Now' = St(built, Append(read, ahead))
      BY <1>1, <2>2 DEF Now
    <3> HIDE DEF g, f, sort
    <3> QED BY <2>1, <2>3, <3>1, <3>2, CallGives
  <2>4. IsSeq(u)
    BY Cat
  <2>5. Then(u)
    BY <1>3
  <2> HIDE DEF u
  <2> QED BY <1>1, <1>2, <2>3, <2>4, <2>5, CallReplaced
<1>4. CASE Then(<<Call(Otherwise[f])>>) /\ UNCHANGED <<read, ahead>>
  <2> DEFINE g == Otherwise[f]
             u == <<Call(g)>>
  <2>1. g \in DOMAIN SortOf /\ <<>> = TakenBy(g) /\ Wider(SortOf[g], sort)
    BY <1>1, ChosenFits
  <2>2. Now' = Now
    BY <1>1, <1>4 DEF Now
  <2>3. ASSUME NEW r, Run(u, Now', r), NEW n0, NEW before, Grown(n0, before, Now, <<>>, <<>>)
        PROVE  Gives(n0, before, r, sort)
    <3> HIDE DEF g, f, sort
    <3> QED BY <2>1, <2>2, <2>3, CallGives
  <2>4. IsSeq(u)
    BY Cat
  <2>5. Then(u)
    BY <1>4
  <2> HIDE DEF u
  <2> QED BY <1>1, <1>2, <2>3, <2>4, <2>5, CallReplaced
<1> QED BY <1>3, <1>4 DEF Choose

-----------------------------------------------------------------------------
LEMMA NothingReplaces == Nothing => Replaces
<1> SUFFICES ASSUME Nothing PROVE Replaces
  OBVIOUS
<1>1. /\ Top.do = "call" /\ Top.what = "nothing" /\ Then(<<>>)
      /\ built' = Append(built, Null) /\ read' = read
  BY DEF Nothing, Calling, Doing
<1>2. Top.what \in DOMAIN SortOf /\ "initializer" = SortOf[Top.what] /\ <<"kSemicolon">> = TakenBy(Top.what)
  BY <1>1 DEF SortOf, TakenBy, Key
<1>3. ASSUME NEW r, Run(<<>>, Now', r), NEW n0, NEW before, Grown(n0, before, Now, <<>>, <<"kSemicolon">>)
      PROVE  Gives(n0, before, r, "initializer")
  <2>1. r = St(Append(built, Null), read)
    BY <1>1, <1>3, RunNothing DEF Now
  <2>2. Grown(n0, before, St(Append(built, Null), read), <<Null>>, <<"kSemicolon">>)
    BY <1>3, OneGrown DEF Now
  <2> QED BY <2>1, <2>2, NullIs DEF Gives
<1>4. IsSeq(<<>>)
  BY Cat
<1> QED BY <1>1, <1>2, <1>3, <1>4, CallReplaced

\* A name that is taken.
LEMMA NameReplaces ==
  ASSUME Cursor, Top.do = "call", Top.what \in {"identifier", "parameter"},
         ahead = "kIdentifier", Then(<<>>), Advance, built' = Append(built, Node("Token", ahead, <<>>))
  PROVE  Replaces
<1>1. ahead \in Tokens /\ read' = Append(read, ahead)
  BY TakesAhead
<1>2. Top.what \in DOMAIN SortOf /\ "kIdentifier" = SortOf[Top.what] /\ <<>> = TakenBy(Top.what)
  BY DEF SortOf, TakenBy, Key
<1>3. ASSUME NEW r, Run(<<>>, Now', r), NEW n0, NEW before, Grown(n0, before, Now, <<>>, <<>>)
      PROVE  Gives(n0, before, r, "kIdentifier")
  <2> DEFINE e == Node("Token", "kIdentifier", <<>>)
  <2>1. r = St(Append(built, e), Append(read, "kIdentifier"))
    BY <1>1, <1>3, RunNothing DEF Now
  <2>2. Is("kIdentifier", e, <<"kIdentifier">>)
    BY LeafIs
  <2> HIDE DEF e
  <2>3. Grown(n0, before, r, <<e>>, <<"kIdentifier">>)
    BY <1>1, <1>3, <2>1, OneGrown DEF Now
  <2> QED BY <2>2, <2>3 DEF Gives
<1>4. IsSeq(<<>>)
  BY Cat
<1> QED BY <1>2, <1>3, <1>4, CallReplaced

LEMMA WantReplaces == Cursor /\ Want => Replaces \/ Throw
<1> SUFFICES ASSUME Cursor, Want, ~ Throw PROVE Replaces
  OBVIOUS
<1>1. Top.do = "expect" /\ ahead = Top.kind /\ Then(<<>>) /\ Advance /\ built' = built
  BY DEF Want, Doing
<1>2. ahead \in Tokens /\ read' = Append(read, ahead)
  BY <1>1, TakesAhead
<1>3. ASSUME NEW r, Run(<<>>, Now', r) PROVE Does(Top, Now, r)
  <2>1. r = St(built, Append(read, ahead))
    BY <1>1, <1>2, <1>3, RunNothing DEF Now
  <2>2. \A n0, before, ns, w : Grown(n0, before, Now, ns, w) => Grown(n0, before, r, ns, w \o <<ahead>>)
    BY <1>2, <2>1, TokenGrown DEF Now
  <2> HIDE DEF Now, Top
  <2> QED BY <1>1, <2>2, DoesToken
<1>4. IsSeq(<<>>)
  BY Cat
<1> QED BY <1>1, <1>3, <1>4 DEF Replaces

LEMMA IdentifierReplaces == Cursor /\ Identifier => Replaces \/ Throw
  BY NameReplaces DEF Identifier, Calling, Doing

LEMMA TakeNameReplaces == Cursor /\ TakeName => Replaces
<1> SUFFICES ASSUME Cursor, TakeName PROVE Replaces
  OBVIOUS
<1> DEFINE e == Node("Token", ahead, <<>>)
<1>1. Top.do = "take" /\ Then(<<>>) /\ Advance /\ built' = Append(built, e)
  BY DEF TakeName, Doing
<1>2. ahead \in Tokens /\ read' = Append(read, ahead)
  BY <1>1, TakesAhead
<1>3. ASSUME NEW r, Run(<<>>, Now', r) PROVE Does(Top, Now, r)
  <2>1. r = St(Append(built, e), Append(read, ahead))
    BY <1>1, <1>2, <1>3, RunNothing DEF Now
  <2>2. \A n0, before : Grown(n0, before, Now, <<>>, <<>>) => Grown(n0, before, r, <<e>>, <<ahead>>)
    BY <1>2, <2>1, OneGrown DEF Now
  <2>3. \A n0, before : Grown(n0, before, Now, <<>>, <<>>)
          => \E k \in Tokens : Grown(n0, before, r, <<Node("Token", k, <<>>)>>, <<k>>)
    BY <1>2, <2>2
  <2> HIDE DEF Now, Top
  <2> QED BY <1>1, <2>3, DoesToken
<1>4. IsSeq(<<>>)
  BY Cat
<1> QED BY <1>1, <1>3, <1>4 DEF Replaces

\* "if (inspect(k)) { get(); x = ...; }"
LEMMA OptionReplaces ==
  ASSUME Cursor, NEW k, NEW f, NEW some, NEW sort,
         Is(sort, Null, <<>>), f \in DOMAIN SortOf, f \notin DOMAIN Key, SortOf[f] = some,
         \A a, u : Is(some, a, u) => Is(sort, a, <<k>> \o u),
         \/ ahead = k /\ Then(<<Call(f)>>) /\ Advance /\ built' = built
         \/ Then(<<>>) /\ built' = Append(built, Null) /\ read' = read,
         \A r : Adds1(Now, r, sort) => Does(Top, Now, r)
  PROVE  Replaces
<1>1. CASE ahead = k /\ Then(<<Call(f)>>) /\ Advance /\ built' = built
  <2>1. k \in Tokens /\ read' = Append(read, k)
    BY <1>1, TakesAhead
  <2>2. ASSUME NEW r, Run(<<Call(f)>>, Now', r) PROVE Does(Top, Now, r)
    <3>1. Adds1(Now', r, some)
      <4>1. Does(Call(f), Now', r)
        BY <2>2, Run1
      <4> QED BY <4>1, CallsAdd
    <3>2. ASSUME NEW n0, NEW before, Grown(n0, before, Now, <<>>, <<>>)
          PROVE  Gives(n0, before, r, sort)
      <4>1. Grown(n0, before, Now', <<>>, <<k>>)
        BY <1>1, <2>1, <3>2, OneGrown DEF Now
      <4>2. PICK a, u : Is(some, a, u) /\ Grown(n0, before, r, <<a>>, <<k>> \o u)
        <5> HIDE DEF Now
        <5> QED BY <3>1, <4>1, More1
      <4>3. Is(sort, a, <<k>> \o u)
        BY <4>2
      <4> QED BY <4>2, <4>3 DEF Gives
    <3> QED BY <3>2 DEF Adds1
  <2>3. IsSeq(<<Call(f)>>)
    BY Cat
  <2> QED BY <1>1, <2>2, <2>3 DEF Replaces
<1>2. CASE Then(<<>>) /\ built' = Append(built, Null) /\ read' = read
  <2>1. ASSUME NEW r, Run(<<>>, Now', r) PROVE Does(Top, Now, r)
    <3>1. r = St(Append(built, Null), read)
      BY <1>2, <2>1, RunNothing DEF Now
    <3>2. ASSUME NEW n0, NEW before, Grown(n0, before, Now, <<>>, <<>>)
          PROVE  Gives(n0, before, r, sort)
      <4>1. Grown(n0, before, r, <<Null>>, <<>>)
        BY <3>1, <3>2, OneGrown DEF Now
      <4> QED BY <4>1 DEF Gives
    <3> QED BY <3>2 DEF Adds1
  <2>2. IsSeq(<<>>)
    BY Cat
  <2> QED BY <1>2, <2>1, <2>2 DEF Replaces
<1> QED BY <1>1, <1>2

LEMMA OptionalReplaces == Cursor /\ Optional => Replaces
<1> SUFFICES ASSUME Cursor, Optional PROVE Replaces
  OBVIOUS
<1>1. Top.do = "opt"
  BY DEF Optional, Doing
<1>2. CASE Top.kind = "kElse"
  <2>1. \/ ahead = "kElse" /\ Then(<<Call("next_statement")>>) /\ Advance /\ built' = built
        \/ Then(<<>>) /\ built' = Append(built, Null) /\ read' = read
    BY <1>2 DEF Optional
  <2>2. /\ "next_statement" \in DOMAIN SortOf /\ "next_statement" \notin DOMAIN Key
        /\ SortOf["next_statement"] = "statement"
    BY DEF SortOf, Key
  <2>3. \A r : Adds1(Now, r, "maybeElse") => Does(Top, Now, r)
    <3> HIDE DEF Now, Top
    <3> QED BY <1>1, <1>2, DoesOption
  <2>4. Is("maybeElse", Null, <<>>) /\ \A a, u : Is("statement", a, u) => Is("maybeElse", a, <<"kElse">> \o u)
    BY NullIs, MaybeIs
  <2> HIDE DEF Now
  <2> QED BY <2>1, <2>2, <2>3, <2>4, OptionReplaces
<1>3. CASE Top.kind = "kEqual"
  <2>1. \/ ahead = "kEqual" /\ Then(<<Call("next_expression")>>) /\ Advance /\ built' = built
        \/ Then(<<>>) /\ built' = Append(built, Null) /\ read' = read
    BY <1>3 DEF Optional
  <2>2. /\ "next_expression" \in DOMAIN SortOf /\ "next_expression" \notin DOMAIN Key
        /\ SortOf["next_expression"] = "expression"
    BY DEF SortOf, Key
  <2>3. \A r : Adds1(Now, r, "maybeValue") => Does(Top, Now, r)
    <3> HIDE DEF Now, Top
    <3> QED BY <1>1, <1>3, DoesOption
  <2>4. Is("maybeValue", Null, <<>>) /\ \A a, u : Is("expression", a, u) => Is("maybeValue", a, <<"kEqual">> \o u)
    BY NullIs, MaybeIs
  <2> HIDE DEF Now
  <2> QED BY <2>1, <2>2, <2>3, <2>4, OptionReplaces
<1>4. CASE Top.kind \notin {"kElse", "kEqual"}
  <2>1. \A r : Does(Top, Now, r)
    <3> HIDE DEF Now, Top
    <3> QED BY <1>1, <1>4, DoesOption
  <2>2. \E u : IsSeq(u) /\ Then(u)
    <3>1. Then(<<>>) \/ \E f : Then(<<Call(f)>>)
      BY DEF Optional
    <3> QED BY <3>1, Cat
  <2> QED BY <2>1, <2>2 DEF Replaces
<1> QED BY <1>2, <1>3, <1>4

LEMMA PossibleReplaces == Possible => Replaces
<1> SUFFICES ASSUME Possible PROVE Replaces
  OBVIOUS
<1>1. Top.do = "unless" /\ read' = read
  BY DEF Possible, Doing
<1>2. \A r : Adds1(Now, r, "maybeExpression") => Does(Top, Now, r)
  <2> HIDE DEF Now, Top
  <2> QED BY <1>1, DoesOption
<1>3. CASE Then(<<>>) /\ built' = Append(built, Null)
  <2>1. ASSUME NEW r, Run(<<>>, Now', r) PROVE Adds1(Now, r, "maybeExpression")
    <3>1. r = St(Append(built, Null), read)
      BY <1>1, <1>3, <2>1, RunNothing DEF Now
    <3>2. ASSUME NEW n0, NEW before, Grown(n0, before, Now, <<>>, <<>>)
          PROVE  Gives(n0, before, r, "maybeExpression")
      <4>1. Grown(n0, before, r, <<Null>>, <<>>)
        BY <3>1, <3>2, OneGrown DEF Now
      <4> QED BY <4>1, NullIs DEF Gives
    <3> QED BY <3>2 DEF Adds1
  <2>2. IsSeq(<<>>)
    BY Cat
  <2> HIDE DEF Now
  <2> QED BY <1>2, <1>3, <2>1, <2>2 DEF Replaces
<1>4. CASE Then(<<Call("next_expression")>>) /\ built' = built
  <2>1. Now' = Now
    BY <1>1, <1>4 DEF Now
  <2>2. ASSUME NEW r, Run(<<Call("next_expression")>>, Now', r)
        PROVE  Adds1(Now, r, "maybeExpression")
    <3>1. Adds1(Now, r, "expression")
      <4>1. Does(Call("next_expression"), Now, r)
        BY <2>1, <2>2, Run1
      <4> QED BY <4>1, Adding
    <3> QED BY <3>1, ExpressionWidens DEF Adds1, Gives
  <2>3. IsSeq(<<Call("next_expression")>>)
    BY Cat
  <2> HIDE DEF Now
  <2> QED BY <1>2, <1>4, <2>2, <2>3 DEF Replaces
<1> QED BY <1>3, <1>4 DEF Possible

-----------------------------------------------------------------------------
\* The last nodes become the children of one.
LEMMA LastOnes ==
  ASSUME NEW s, IsSeq(s), NEW t, IsSeq(t)
  PROVE  LET b == s \o t
             k == Len(b) - Len(t)
         IN  /\ Len(s) \in Nat /\ Len(t) \in Nat /\ k = Len(s)
             /\ SubSeq(b, 1, k) = s /\ SubSeq(b, k + 1, Len(b)) = t
<1>1. PICK S, T : s \in Seq(S) /\ t \in Seq(T)
  BY DEF IsSeq
<1> DEFINE U == S \cup T
<1>2. s \in Seq(U) /\ t \in Seq(U)
  BY <1>1, SeqMonotonic
<1> HIDE DEF U
<1> DEFINE b == s \o t
<1>3. /\ b \in Seq(U) /\ Len(b) = Len(s) + Len(t) /\ Len(s) \in Nat /\ Len(t) \in Nat
      /\ \A i \in 1 .. Len(s) + Len(t) : b[i] = IF i <= Len(s) THEN s[i] ELSE t[i - Len(s)]
  BY <1>2, ConcatProperties, LenProperties
<1> HIDE DEF b
<1>4. Len(b) - Len(t) = Len(s)
  BY <1>3
<1>5. IsSeq(b)
  BY <1>3 DEF IsSeq
<1>6. /\ IsSeq(SubSeq(b, 1, Len(s))) /\ Len(SubSeq(b, 1, Len(s))) = Len(s)
      /\ \A i \in 1 .. Len(s) : SubSeq(b, 1, Len(s))[i] = b[i]
      /\ Len(SubSeq(b, Len(s) + 1, Len(b))) = Len(t)
      /\ \A i \in 1 .. Len(t) : SubSeq(b, Len(s) + 1, Len(b))[i] = b[Len(s) + i]
  <2>1. Len(t) <= Len(b)
    BY <1>3
  <2>2. LET k == Len(b) - Len(t)
        IN  /\ IsSeq(SubSeq(b, 1, k)) /\ Len(SubSeq(b, 1, k)) = k
            /\ \A i \in 1 .. k : SubSeq(b, 1, k)[i] = b[i]
            /\ Len(SubSeq(b, k + 1, Len(b))) = Len(t)
            /\ \A i \in 1 .. Len(t) : SubSeq(b, k + 1, Len(b))[i] = b[k + i]
    BY <1>3, <1>5, <2>1, Taken
  <2> QED BY <1>4, <2>2
<1>7. SubSeq(b, 1, Len(s)) = s
  <2>1. SubSeq(b, 1, Len(s)) \in Seq(U)
    <3>1. \A i \in 1 .. Len(s) : i \in 1 .. Len(b) /\ b[i] \in U
      BY <1>3, ElementOfSeq
    <3> QED BY <1>3, <3>1, SubSeqProperties
  <2>2. \A i \in 1 .. Len(s) : SubSeq(b, 1, Len(s))[i] = s[i]
    BY <1>3, <1>6
  <2> QED BY <1>2, <1>6, <2>1, <2>2, SeqEqual
<1>8. SubSeq(b, Len(s) + 1, Len(b)) = t
  <2>1. SubSeq(b, Len(s) + 1, Len(b)) \in Seq(U)
    <3>1. \A i \in Len(s) + 1 .. Len(b) : i \in 1 .. Len(b) /\ b[i] \in U
      BY <1>3, ElementOfSeq
    <3> QED BY <1>3, <3>1, SubSeqProperties
  <2>2. \A i \in 1 .. Len(t) : SubSeq(b, Len(s) + 1, Len(b))[i] = t[i]
    <3>1. ASSUME NEW i \in 1 .. Len(t) PROVE b[Len(s) + i] = t[i]
      <4>1. Len(s) + i \in 1 .. Len(s) + Len(t) /\ ~ (Len(s) + i <= Len(s)) /\ (Len(s) + i) - Len(s) = i
        BY <1>3
      <4> QED BY <1>3, <4>1
    <3> QED BY <1>6, <3>1
  <2> QED BY <1>2, <1>6, <2>1, <2>2, SeqEqual
<1> QED BY <1>3, <1>4, <1>7, <1>8 DEF b

LEMMA ReducedGrown ==
  ASSUME NEW n0, NEW before, NEW ns, NEW w, Grown(n0, before, Now, ns, w), NEW what, NEW op,
         NEW n, n = Len(ns) \/ n = Len(built) - Len(n0)
  PROVE  /\ n = Len(ns) /\ Len(built) = Len(n0) + Len(ns) /\ Len(n0) \in Nat /\ Len(ns) \in Nat
         /\ Grown(n0, before, St(Reduced(what, op, n), read), <<Node(what, op, ns)>>, w)
<1>1. IsSeq(n0) /\ IsSeq(ns) /\ built = n0 \o ns
  BY DEF Grown, St, Now
<1>2. /\ Len(n0) \in Nat /\ Len(ns) \in Nat /\ Len(built) - Len(ns) = Len(n0)
      /\ SubSeq(built, 1, Len(built) - Len(ns)) = n0
      /\ SubSeq(built, (Len(built) - Len(ns)) + 1, Len(built)) = ns
  BY <1>1, LastOnes
<1>3. Len(built) \in Nat
  BY <1>1, Cat, LenProperties DEF IsSeq
<1>4. n = Len(ns) /\ Len(built) = Len(n0) + Len(ns)
  BY <1>2, <1>3
<1>5. Reduced(what, op, n) = Append(n0, Node(what, op, ns))
  BY <1>2, <1>4 DEF Reduced
<1>6. Grown(n0, before, St(n0, read), <<>>, w)
  <2>1. n0 \o <<>> = n0 /\ IsSeq(<<>>)
    BY <1>1, Cat
  <2> QED BY <2>1 DEF Grown, St, Now
<1>7. Grown(n0, before, St(Append(n0, Node(what, op, ns)), read), <<Node(what, op, ns)>>, w)
  BY <1>6, OneGrown
<1> QED BY <1>2, <1>4, <1>5, <1>7

LEMMA MakeNodeReplaces == MakeNode => Replaces
<1> SUFFICES ASSUME MakeNode PROVE Replaces
  OBVIOUS
<1> DEFINE n == Arity(Top.what)
<1>1. /\ Top.do = "make" /\ Then(<<>>) /\ built' = Reduced(Top.what, Top.kind, n)
      /\ read' = read
  BY DEF MakeNode, Doing
<1>2. ASSUME NEW r, Run(<<>>, Now', r) PROVE Does(Top, Now, r)
  <2>1. r = St(Reduced(Top.what, Top.kind, n), read)
    BY <1>1, <1>2, RunNothing DEF Now
  <2>2. ASSUME NEW n0, NEW before, NEW ns, NEW w, Len(ns) = n, Grown(n0, before, Now, ns, w)
        PROVE  Grown(n0, before, r, <<Node(Top.what, Top.kind, ns)>>, w)
    <3> HIDE DEF n
    <3> QED BY <2>1, <2>2, ReducedGrown
  <2> HIDE DEF Now, Top
  <2> QED BY <1>1, <2>2, DoesMake
<1>3. IsSeq(<<>>)
  BY Cat
<1> QED BY <1>1, <1>2, <1>3 DEF Replaces

-----------------------------------------------------------------------------
(* Expressions.                                                             *)

LEMMA AssignedReplaces == Cursor /\ Assigned => Replaces
<1> SUFFICES ASSUME Cursor, Assigned PROVE Replaces
  OBVIOUS
<1>1. Top.do = "call" /\ Top.what = "assigned?" /\ built' = built
  BY DEF Assigned, Calling, Doing
<1>2. \A r : (\A n0, before, a, w : Is("logical_or", a, w) /\ Grown(n0, before, Now, <<a>>, w)
                                     => Gives(n0, before, r, "assignment")) => Does(Top, Now, r)
  <2> HIDE DEF Now, Top
  <2> QED BY <1>1, DoesAssign
<1>3. CASE ahead = "kEqual" /\ Then(<<Call("assignment"), Call("assigned!")>>) /\ Advance
  <2> DEFINE u == <<Call("assignment"), Call("assigned!")>>
  <2>1. "kEqual" \in Tokens /\ read' = Append(read, "kEqual")
    BY <1>3, TakesAhead
  <2>2. ASSUME NEW r, Run(u, Now', r), NEW n0, NEW before, NEW a, NEW w,
               Is("logical_or", a, w), Grown(n0, before, Now, <<a>>, w)
        PROVE  Gives(n0, before, r, "assignment")
    <3>1. Grown(n0, before, Now', <<a>>, w \o <<"kEqual">>)
      BY <1>1, <2>1, <2>2, TokenGrown DEF Now
    <3> HIDE DEF Now
    <3>2. PICK s1 : Does(Call("assignment"), Now', s1) /\ Does(Call("assigned!"), s1, r)
      BY <2>2, Run2
    <3>3. Adds1(Now', s1, "assignment")
      BY <3>2, Adding
    <3>4. PICK b, v : Is("assignment", b, v) /\ Grown(n0, before, s1, <<a, b>>, (w \o <<"kEqual">>) \o v)
      BY <3>1, <3>3, More2
    <3>5. \A m0, before0, c, x, d, y :
            /\ Is("logical_or", c, x) /\ Is("assignment", d, y)
            /\ Grown(m0, before0, s1, <<c, d>>, (x \o <<"kEqual">>) \o y)
            => Gives(m0, before0, r, "assignment")
      <4>1. Call("assigned!").do = "call" /\ Call("assigned!").what = "assigned!"
        BY DEF Call, Item
      <4> QED BY <3>2, <4>1, DoesAssign
    <3> QED BY <2>2, <3>4, <3>5
  <2>3. IsSeq(u)
    BY ItemSeqs
  <2> HIDE DEF u, Now
  <2>4. Then(u)
    BY <1>3 DEF u
  <2> QED BY <1>2, <2>2, <2>3, <2>4 DEF Replaces
<1>4. CASE Then(<<>>) /\ UNCHANGED <<read, ahead>>
  <2>1. ASSUME NEW r, Run(<<>>, Now', r), NEW n0, NEW before, NEW a, NEW w,
               Is("logical_or", a, w), Grown(n0, before, Now, <<a>>, w)
        PROVE  Gives(n0, before, r, "assignment")
    <3>1. r = Now
      BY <1>1, <1>4, <2>1, RunNothing DEF Now
    <3> HIDE DEF Now
    <3> QED BY <2>1, <3>1, ExpressionWidens DEF Gives
  <2>2. IsSeq(<<>>)
    BY Cat
  <2> HIDE DEF Now
  <2> QED BY <1>2, <1>4, <2>1, <2>2 DEF Replaces
<1> QED BY <1>3, <1>4 DEF Assigned

LEMMA TargetReplaces == Target => Replaces \/ Throw
<1> SUFFICES ASSUME Target, ~ Throw PROVE Replaces
  OBVIOUS
<1> DEFINE u == <<Make("Assignment", "kEqual")>>
<1>1. /\ Top.do = "call" /\ Top.what = "assigned!" /\ built' = built /\ read' = read
      /\ built[Len(built) - 1].what = "Variable" /\ Then(u)
  BY DEF Target, Calling, Doing
<1>2. \A r : (\A n0, before, a, w, b, v :
                /\ Is("logical_or", a, w) /\ Is("assignment", b, v)
                /\ Grown(n0, before, Now, <<a, b>>, (w \o <<"kEqual">>) \o v)
                => Gives(n0, before, r, "assignment")) => Does(Top, Now, r)
  <2> HIDE DEF Now, Top, u
  <2> QED BY <1>1, DoesAssign
<1>3. ASSUME NEW r, Run(u, Now', r), NEW n0, NEW before, NEW a, NEW w, NEW b, NEW v,
             Is("logical_or", a, w), Is("assignment", b, v),
             Grown(n0, before, Now, <<a, b>>, (w \o <<"kEqual">>) \o v)
      PROVE  Gives(n0, before, r, "assignment")
  <2>1. a.what = "Variable"
    <3> DEFINE ns == <<a, b>>
    <3>1. Len(ns) = 2 /\ ns[1] = a
      OBVIOUS
    <3>2. IsSeq(n0) /\ IsSeq(ns) /\ built = n0 \o ns
      BY <1>3 DEF Grown, St, Now
    <3> HIDE DEF ns
    <3>3. PICK S, T : n0 \in Seq(S) /\ ns \in Seq(T)
      BY <3>2 DEF IsSeq
    <3>4. n0 \in Seq(S \cup T) /\ ns \in Seq(S \cup T)
      BY <3>3, SeqMonotonic
    <3>5. Len(built) = Len(n0) + 2 /\ built[Len(n0) + 1] = a /\ Len(n0) \in Nat
      <4>1. Len(n0) \in Nat
        BY <3>4, LenProperties
      <4>2. /\ Len(built) = Len(n0) + Len(ns)
            /\ \A i \in 1 .. Len(n0) + Len(ns) : built[i] = IF i <= Len(n0) THEN n0[i] ELSE ns[i - Len(n0)]
        BY <3>2, <3>4, ConcatProperties
      <4>3. built[Len(n0) + 1] = ns[(Len(n0) + 1) - Len(n0)]
        BY <3>1, <4>1, <4>2
      <4>4. (Len(n0) + 1) - Len(n0) = 1
        BY <4>1
      <4> QED BY <3>1, <4>1, <4>2, <4>3, <4>4
    <3>6. Len(built) - 1 = Len(n0) + 1
      BY <3>5
    <3> QED BY <1>1, <3>5, <3>6
  <2>2. Does(Make("Assignment", "kEqual"), Now, r)
    <3>1. Now' = Now
      BY <1>1 DEF Now
    <3> QED BY <1>3, <3>1, Run1
  <2>3. Grown(n0, before, r, <<Node("Assignment", "kEqual", <<a, b>>)>>, (w \o <<"kEqual">>) \o v)
    <3>1. Len(<<a, b>>) = Arity("Assignment")
      BY TupleSeqs, Arities
    <3> HIDE DEF Now
    <3> QED BY <1>3, <2>2, <3>1, NodeMade
  <2>4. Is("assignment", Node("Assignment", "kEqual", <<a, b>>), (w \o <<"kEqual">>) \o v)
    BY <1>3, <2>1, AssignmentIs
  <2> QED BY <2>3, <2>4 DEF Gives
<1>4. IsSeq(u)
  BY Cat
<1> HIDE DEF u, Now
<1> QED BY <1>1, <1>2, <1>3, <1>4 DEF Replaces

\* A loop that goes round once more, with an operator or a call.
LEMMA RoundReplaces ==
  ASSUME Cursor, Top.do = "loop", Top.what \in Repeats, NEW sort, sort = Repeating(Top.what),
         built' = built, NEW f \in DOMAIN SortOf, f \notin DOMAIN Key, NEW some, some = SortOf[f],
         NEW what, Arity(what) = 2,
         \/ /\ Then(<<Call(f), Make(what, ahead), Top>>) /\ Advance
            /\ \A a, u, b, v : Is(sort, a, u) /\ Is(some, b, v)
                 => Is(sort, Node(what, ahead, <<a, b>>), (u \o <<ahead>>) \o v)
         \/ Then(<<>>) /\ read' = read
  PROVE  Replaces
<1>1. \A p, r : Does(Top, p, r) <=>
        \A n0, before, a, w : Is(sort, a, w) /\ Grown(n0, before, p, <<a>>, w) => Gives(n0, before, r, sort)
  <2> HIDE DEF Top
  <2> QED BY DoesLoop
<1>2. CASE /\ Then(<<Call(f), Make(what, ahead), Top>>) /\ Advance
           /\ \A a, u, b, v : Is(sort, a, u) /\ Is(some, b, v)
                => Is(sort, Node(what, ahead, <<a, b>>), (u \o <<ahead>>) \o v)
  <2> DEFINE u == <<Call(f), Make(what, ahead), Top>>
  <2>1. ahead \in Tokens /\ read' = Append(read, ahead)
    BY <1>2, TakesAhead
  <2>2. ASSUME NEW r, Run(u, Now', r), NEW n0, NEW before, NEW a, NEW w,
               Is(sort, a, w), Grown(n0, before, Now, <<a>>, w)
        PROVE  Gives(n0, before, r, sort)
    <3>1. Grown(n0, before, Now', <<a>>, w \o <<ahead>>)
      BY <2>1, <2>2, TokenGrown DEF Now
    <3> HIDE DEF Now, Top
    <3>2. PICK s1, s2 : Does(Call(f), Now', s1) /\ Does(Make(what, ahead), s1, s2) /\ Does(Top, s2, r)
      BY <2>2, Run3
    <3>3. Adds1(Now', s1, some)
      BY <3>2, CallsAdd
    <3>4. PICK b, v : Is(some, b, v) /\ Grown(n0, before, s1, <<a, b>>, (w \o <<ahead>>) \o v)
      BY <3>1, <3>3, More2
    <3>5. Grown(n0, before, s2, <<Node(what, ahead, <<a, b>>)>>, (w \o <<ahead>>) \o v)
      <4>1. Len(<<a, b>>) = Arity(what)
        BY TupleSeqs
      <4> QED BY <3>2, <3>4, <4>1, NodeMade
    <3>6. Is(sort, Node(what, ahead, <<a, b>>), (w \o <<ahead>>) \o v)
      BY <1>2, <2>2, <3>4
    <3> QED BY <1>1, <3>2, <3>5, <3>6
  <2>3. IsSeq(u)
    BY ItemSeqs
  <2> HIDE DEF u, Now
  <2>4. Then(u)
    BY <1>2 DEF u
  <2> QED BY <1>1, <2>2, <2>3, <2>4 DEF Replaces
<1>3. CASE Then(<<>>) /\ read' = read
  <2>1. ASSUME NEW r, Run(<<>>, Now', r), NEW n0, NEW before, NEW a, NEW w,
               Is(sort, a, w), Grown(n0, before, Now, <<a>>, w)
        PROVE  Gives(n0, before, r, sort)
    <3>1. r = Now
      BY <1>3, <2>1, RunNothing DEF Now
    <3> HIDE DEF Now
    <3> QED BY <2>1, <3>1 DEF Gives
  <2>2. IsSeq(<<>>)
    BY Cat
  <2> HIDE DEF Now
  <2> QED BY <1>1, <1>3, <2>1, <2>2 DEF Replaces
<1> QED BY <1>2, <1>3

LEMMA OperatorReplaces == Cursor /\ Operator => Replaces
<1> SUFFICES ASSUME Cursor, Operator PROVE Replaces
  OBVIOUS
<1> DEFINE l == Top.what
           f == RightOperand(l)
<1>1. Top.do = "loop" /\ l \in Levels /\ built' = built
  BY DEF Operator, Doing
<1>2. l \in Repeats /\ l = Repeating(l)
  BY <1>1, LevelNames DEF Repeats, Repeating
<1>3. f \in DOMAIN SortOf /\ f \notin DOMAIN Key /\ f = SortOf[f]
  BY <1>1, RightSort, LevelNames DEF SortOf, Key
<1>4. Arity(OpNode(l)) = 2
  BY Arities DEF OpNode
<1>5. \/ /\ Then(<<Call(f), Make(OpNode(l), ahead), Top>>) /\ Advance
         /\ \A a, u, b, v : Is(l, a, u) /\ Is(f, b, v)
              => Is(l, Node(OpNode(l), ahead, <<a, b>>), (u \o <<ahead>>) \o v)
      \/ Then(<<>>) /\ read' = read
  <2>1. CASE /\ ahead \in Ops[l]
             /\ Then(<<Call(f), Make(OpNode(l), ahead), Top>>) /\ Advance
    BY <1>1, <2>1, BinaryIs
  <2>2. CASE Then(<<>>) /\ UNCHANGED <<read, ahead>>
    BY <2>2
  <2> QED BY <2>1, <2>2 DEF Operator
<1> HIDE DEF f
<1> QED BY <1>1, <1>2, <1>3, <1>4, <1>5, RoundReplaces

LEMMA CallsReplaces == Cursor /\ Calls => Replaces
<1> SUFFICES ASSUME Cursor, Calls PROVE Replaces
  OBVIOUS
<1>1. Top.do = "loop" /\ Top.what = "calls" /\ built' = built
  BY DEF Calls, Looping, Doing
<1>2. Top.what \in Repeats /\ "call" = Repeating(Top.what)
  BY <1>1 DEF Repeats, Repeating
<1>3. "get_args" \in DOMAIN SortOf /\ "get_args" \notin DOMAIN Key /\ "arguments" = SortOf["get_args"]
  BY DEF SortOf, Key
<1>4. Arity("Call") = 2
  BY Arities
<1>5. \/ /\ Then(<<Call("get_args"), Make("Call", ahead), Top>>) /\ Advance
         /\ \A a, u, b, v : Is("call", a, u) /\ Is("arguments", b, v)
              => Is("call", Node("Call", ahead, <<a, b>>), (u \o <<ahead>>) \o v)
      \/ Then(<<>>) /\ read' = read
  <2>1. CASE /\ ahead = "kLeftParen"
             /\ Then(<<Call("get_args"), Make("Call", "kLeftParen"), Top>>) /\ Advance
    BY <2>1, CallIs
  <2>2. CASE Then(<<>>) /\ UNCHANGED <<read, ahead>>
    BY <2>2
  <2> QED BY <2>1, <2>2 DEF Calls
<1> QED BY <1>1, <1>2, <1>3, <1>4, <1>5, RoundReplaces

LEMMA UnaryReplaces == Cursor /\ Unary => Replaces
<1> SUFFICES ASSUME Cursor, Unary PROVE Replaces
  OBVIOUS
<1>1. Top.do = "call" /\ Top.what = "unary" /\ built' = built
  BY DEF Unary, Calling, Doing
<1>2. Top.what \in DOMAIN SortOf /\ "unary" = SortOf[Top.what] /\ <<>> = TakenBy(Top.what)
  BY <1>1 DEF SortOf, TakenBy, Key
<1>3. CASE /\ ahead \in {"kBang", "kMinus"}
           /\ Then(<<Call("unary"), Make("Unary", ahead)>>) /\ Advance
  <2> DEFINE u == <<Call("unary"), Make("Unary", ahead)>>
  <2>1. ahead \in Tokens /\ read' = Append(read, ahead)
    BY <1>3, TakesAhead
  <2>2. ASSUME NEW r, Run(u, Now', r), NEW n0, NEW before, Grown(n0, before, Now, <<>>, <<>>)
        PROVE  Gives(n0, before, r, "unary")
    <3>1. Grown(n0, before, Now', <<>>, <<ahead>>)
      BY <1>1, <2>1, <2>2, OneGrown DEF Now
    <3> HIDE DEF Now
    <3>2. PICK s1 : Does(Call("unary"), Now', s1) /\ Does(Make("Unary", ahead), s1, r)
      BY <2>2, Run2
    <3>3. Adds1(Now', s1, "unary")
      <4>1. "unary" \in Operandlike
        BY DEF Operandlike
      <4> QED BY <3>2, <4>1, Adding
    <3>4. PICK a, v : Is("unary", a, v) /\ Grown(n0, before, s1, <<a>>, <<ahead>> \o v)
      BY <3>1, <3>3, More1
    <3>5. Grown(n0, before, r, <<Node("Unary", ahead, <<a>>)>>, <<ahead>> \o v)
      <4>1. Len(<<a>>) = Arity("Unary")
        BY Arities
      <4> QED BY <3>2, <3>4, <4>1, NodeMade
    <3>6. Is("unary", Node("Unary", ahead, <<a>>), <<ahead>> \o v)
      BY <1>3, <3>4, UnaryIs
    <3> QED BY <3>5, <3>6 DEF Gives
  <2>3. IsSeq(u)
    BY ItemSeqs
  <2> HIDE DEF u, Now
  <2>4. Then(u)
    BY <1>3 DEF u
  <2> QED BY <1>1, <1>2, <2>2, <2>3, <2>4, CallReplaced
<1>4. CASE Then(<<Call("call")>>) /\ UNCHANGED <<read, ahead>>
  <2>1. "call" \in DOMAIN SortOf /\ <<>> = TakenBy("call") /\ Wider(SortOf["call"], "unary")
    BY OperandWidens DEF SortOf, TakenBy, Key, Wider
  <2>2. ASSUME NEW r, Run(<<Call("call")>>, Now', r), NEW n0, NEW before,
               Grown(n0, before, Now, <<>>, <<>>)
        PROVE  Gives(n0, before, r, "unary")
    <3>1. Now' = Now
      BY <1>1, <1>4 DEF Now
    <3> HIDE DEF Now
    <3> QED BY <2>1, <2>2, <3>1, CallGives
  <2>3. IsSeq(<<Call("call")>>)
    BY Cat
  <2> HIDE DEF Now
  <2> QED BY <1>1, <1>2, <1>4, <2>2, <2>3, CallReplaced
<1> QED BY <1>3, <1>4 DEF Unary

LEMMA PrimaryReplaces == Cursor /\ Primary => Replaces \/ Throw
<1> SUFFICES ASSUME Cursor, Primary, ~ Throw PROVE Replaces
  OBVIOUS
<1>1. Top.do = "call" /\ Top.what = "primary"
  BY DEF Primary, Calling, Doing
<1>2. Top.what \in DOMAIN SortOf /\ "primary" = SortOf[Top.what] /\ <<>> = TakenBy(Top.what)
  BY <1>1 DEF SortOf, TakenBy, Key
<1> DEFINE e == Node(IF ahead \in Constants THEN "Literal" ELSE "Variable", ahead, <<>>)
<1>3. CASE ahead \in Constants \cup {"kIdentifier"} /\ Then(<<>>) /\ Advance /\ built' = Append(built, e)
  <2>1. ahead \in Tokens /\ read' = Append(read, ahead)
    BY <1>3, TakesAhead
  <2>2. Is("primary", e, <<ahead>>)
    <3>1. CASE ahead \in Constants
      BY <3>1, LeafIs
    <3>2. CASE ahead \notin Constants
      BY <1>3, <3>2, LeafIs
    <3> QED BY <3>1, <3>2
  <2> HIDE DEF e
  <2>3. ASSUME NEW r, Run(<<>>, Now', r), NEW n0, NEW before, Grown(n0, before, Now, <<>>, <<>>)
        PROVE  Gives(n0, before, r, "primary")
    <3>1. r = St(Append(built, e), Append(read, ahead))
      BY <1>3, <2>1, <2>3, RunNothing DEF Now
    <3>2. Grown(n0, before, r, <<e>>, <<ahead>>)
      BY <2>1, <2>3, <3>1, OneGrown DEF Now
    <3> QED BY <2>2, <3>2 DEF Gives
  <2>4. IsSeq(<<>>)
    BY Cat
  <2> HIDE DEF Now
  <2> QED BY <1>1, <1>2, <1>3, <2>3, <2>4, CallReplaced
<1>4. CASE /\ ahead = "kLeftParen" /\ Advance /\ built' = built
           /\ Then(<<Call("next_expression"), Expect("kRightParen"), Make("Grouping", ahead)>>)
  <2> DEFINE u == <<Call("next_expression"), Expect("kRightParen"), Make("Grouping", "kLeftParen")>>
  <2>1. "kLeftParen" \in Tokens /\ read' = Append(read, "kLeftParen")
    BY <1>4, TakesAhead
  <2>2. ASSUME NEW r, Run(u, Now', r), NEW n0, NEW before, Grown(n0, before, Now, <<>>, <<>>)
        PROVE  Gives(n0, before, r, "primary")
    <3>1. Grown(n0, before, Now', <<>>, <<"kLeftParen">>)
      BY <1>4, <2>1, <2>2, OneGrown DEF Now
    <3> HIDE DEF Now
    <3>2. PICK s1, s2 : /\ Does(Call("next_expression"), Now', s1) /\ Does(Expect("kRightParen"), s1, s2)
                        /\ Does(Make("Grouping", "kLeftParen"), s2, r)
      BY <2>2, Run3
    <3>3. Adds1(Now', s1, "expression")
      BY <3>2, Adding
    <3>4. PICK a, v : Is("expression", a, v) /\ Grown(n0, before, s1, <<a>>, <<"kLeftParen">> \o v)
      BY <3>1, <3>3, More1
    <3>5. Grown(n0, before, s2, <<a>>, (<<"kLeftParen">> \o v) \o <<"kRightParen">>)
      BY <3>2, <3>4, Expected
    <3>6. Grown(n0, before, r, <<Node("Grouping", "kLeftParen", <<a>>)>>,
                (<<"kLeftParen">> \o v) \o <<"kRightParen">>)
      <4>1. Len(<<a>>) = Arity("Grouping")
        BY Arities
      <4> QED BY <3>2, <3>5, <4>1, NodeMade
    <3>7. Is("primary", Node("Grouping", "kLeftParen", <<a>>), (<<"kLeftParen">> \o v) \o <<"kRightParen">>)
      BY <3>4, GroupingIs
    <3> QED BY <3>6, <3>7 DEF Gives
  <2>3. IsSeq(u)
    BY ItemSeqs
  <2> HIDE DEF u, Now
  <2>4. Then(u)
    BY <1>4 DEF u
  <2> QED BY <1>1, <1>2, <2>2, <2>3, <2>4, CallReplaced
<1> QED BY <1>3, <1>4 DEF Primary

-----------------------------------------------------------------------------
(* Lists.                                                                   *)

\* When the item on top is a loop that gathers declarations or elements.
LEMMA ElementLoop ==
  ASSUME NEW it, it.do = "loop", it.what \in DOMAIN Element, NEW sort, sort = Element[it.what],
         NEW p, NEW r
  PROVE  Does(it, p, r) <=>
           \A n0, before, ns, w :
             Len(n0) = it.n /\ Elements(sort, ns, w) /\ Grown(n0, before, p, ns, w)
               => Gives(n0, before, r, ListSort(sort))
  BY DoesLoop

\* The end of a list.
LEMMA EndGives ==
  ASSUME NEW n, NEW p, NEW r, Does(Loop("end of list", n), p, r),
         NEW n0, Len(n0) = n, NEW before, NEW ns, NEW w, Grown(n0, before, p, ns, w)
  PROVE  Grown(n0, before, r, <<ListOf(ns)>>, w)
<1> DEFINE it == Loop("end of list", n)
<1>1. it.do = "loop" /\ it.what = "end of list" /\ it.n = n
  BY DEF Loop, Item
<1>2. Does(it, p, r)
  OBVIOUS
<1> HIDE DEF it
<1> QED BY <1>1, <1>2, DoesLoop

LEMMA ElementSorts ==
  ASSUME NEW f \in {"get_args", "get_params"}
  PROVE  /\ f \in DOMAIN Element /\ Element[f] \in {"expression", "kIdentifier"}
         /\ f \in DOMAIN SortOf /\ TakenBy(f) = <<>>
         /\ \A p, r : Does(Call(IF f = "get_args" THEN "next_expression" ELSE "parameter"), p, r)
              => Adds1(p, r, Element[f])
         /\ \A a, u : Is(ListSort(Element[f]), a, u) => Is(SortOf[f], a, u \o <<"kRightParen">>)
<1>1. /\ Element["get_args"] = "expression" /\ Element["get_params"] = "kIdentifier"
      /\ DOMAIN Element = {"get_args", "get_params"}
  BY DEF Element
<1>2. /\ {"get_args", "get_params"} \subseteq DOMAIN SortOf
      /\ SortOf["get_args"] = "arguments" /\ SortOf["get_params"] = "parameters"
      /\ TakenBy("get_args") = <<>> /\ TakenBy("get_params") = <<>>
  BY DEF SortOf, TakenBy, Key
<1>3. ListSort("expression") = "maybeArguments" /\ ListSort("kIdentifier") = "maybeParameters"
  BY DEF ListSort
<1>4. CASE f = "get_args"
  <2>1. \A p, r : Does(Call("next_expression"), p, r) => Adds1(p, r, "expression")
    BY Adding
  <2>2. \A a, u : Is("maybeArguments", a, u) => Is("arguments", a, u \o <<"kRightParen">>)
    BY ClosedIs
  <2> QED BY <1>1, <1>2, <1>3, <1>4, <2>1, <2>2
<1>5. CASE f = "get_params"
  <2>1. \A p, r : Does(Call("parameter"), p, r) => Adds1(p, r, "kIdentifier")
    BY Adding
  <2>2. \A a, u : Is("maybeParameters", a, u) => Is("parameters", a, u \o <<"kRightParen">>)
    BY ClosedIs
  <2> QED BY <1>1, <1>2, <1>3, <1>5, <2>1, <2>2
<1> QED BY <1>4, <1>5

LEMMA BeginListReplaces == BeginList => Replaces
<1> SUFFICES ASSUME BeginList PROVE Replaces
  OBVIOUS
<1> DEFINE f == Top.what
           g == IF f = "get_args" THEN "next_expression" ELSE "parameter"
           sort == Element[f]
           whole == SortOf[f]
           u0 == <<Loop("end of list", Len(built)), Expect("kRightParen")>>
           u1 == <<Call(g), Loop(f, Len(built)), Expect("kRightParen")>>
<1>1. /\ Top.do = "call" /\ f \in {"get_args", "get_params"} /\ built' = built /\ read' = read
      /\ Then(u0) \/ Then(u1)
  BY DEF BeginList, Doing
<1>2. /\ f \in DOMAIN Element /\ sort \in {"expression", "kIdentifier"}
      /\ f \in DOMAIN SortOf /\ <<>> = TakenBy(f)
      /\ \A p, r : Does(Call(g), p, r) => Adds1(p, r, sort)
      /\ \A a, u : Is(ListSort(sort), a, u) => Is(whole, a, u \o <<"kRightParen">>)
  BY <1>1, ElementSorts
<1>3. Now' = Now
  BY <1>1 DEF Now
<1>4. \A n0, before : Grown(n0, before, Now, <<>>, <<>>) => Len(n0) = Len(built)
  <2>1. \A n0, before : Grown(n0, before, Now, <<>>, <<>>) => n0 = built
    BY Cat DEF Grown, Now, St
  <2> QED BY <2>1
<1> HIDE DEF g, sort, whole
<1>5. CASE Then(u0)
  <2>1. ASSUME NEW r, Run(u0, Now', r), NEW n0, NEW before, Grown(n0, before, Now, <<>>, <<>>)
        PROVE  Gives(n0, before, r, whole)
    <3>1. PICK s1 : Does(Loop("end of list", Len(built)), Now, s1) /\ Does(Expect("kRightParen"), s1, r)
      BY <1>3, <2>1, Run2
    <3>2. Grown(n0, before, s1, <<ListOf(<<>>)>>, <<>>)
      <4>1. Len(n0) = Len(built)
        BY <1>4, <2>1
      <4> HIDE DEF Now
      <4> QED BY <2>1, <3>1, <4>1, EndGives
    <3>3. Grown(n0, before, r, <<ListOf(<<>>)>>, <<>> \o <<"kRightParen">>)
      BY <3>1, <3>2, Expected
    <3>4. Is(whole, ListOf(<<>>), <<>> \o <<"kRightParen">>)
      BY <1>2, NoElements
    <3> QED BY <3>3, <3>4 DEF Gives
  <2>2. IsSeq(u0)
    BY ItemSeqs
  <2> HIDE DEF u0, Now
  <2> QED BY <1>1, <1>2, <1>5, <2>1, <2>2, CallReplaced DEF whole
<1>6. CASE Then(u1)
  <2>1. ASSUME NEW r, Run(u1, Now', r), NEW n0, NEW before, Grown(n0, before, Now, <<>>, <<>>)
        PROVE  Gives(n0, before, r, whole)
    <3> DEFINE it == Loop(f, Len(built))
    <3>1. PICK s1, s2 : /\ Does(Call(g), Now, s1) /\ Does(it, s1, s2)
                        /\ Does(Expect("kRightParen"), s2, r)
      BY <1>3, <2>1, Run3
    <3>2. it.do = "loop" /\ it.what = f /\ it.n = Len(built)
      BY DEF Loop, Item
    <3> HIDE DEF it
    <3>3. PICK a, u : Is(sort, a, u) /\ Grown(n0, before, s1, <<a>>, u)
      <4> HIDE DEF Now
      <4> QED BY <1>2, <2>1, <3>1, AddsFirst
    <3>4. Elements(sort, <<a>>, u)
      BY <1>2, <3>3, FirstElement
    <3>5. \A m0, before0, ns, w :
            Len(m0) = it.n /\ Elements(sort, ns, w) /\ Grown(m0, before0, s1, ns, w)
              => Gives(m0, before0, s2, ListSort(sort))
      BY <1>2, <3>1, <3>2, ElementLoop DEF sort
    <3>6. Len(n0) = it.n
      BY <1>4, <2>1, <3>2
    <3>7. PICK b, v : Is(ListSort(sort), b, v) /\ Grown(n0, before, s2, <<b>>, v)
      BY <3>3, <3>4, <3>5, <3>6 DEF Gives
    <3>8. Grown(n0, before, r, <<b>>, v \o <<"kRightParen">>)
      BY <3>1, <3>7, Expected
    <3>9. Is(whole, b, v \o <<"kRightParen">>)
      BY <1>2, <3>7
    <3> QED BY <3>8, <3>9 DEF Gives
  <2>2. IsSeq(u1)
    BY ItemSeqs
  <2> HIDE DEF u1, Now
  <2> QED BY <1>1, <1>2, <1>6, <2>1, <2>2, CallReplaced DEF whole
<1> QED BY <1>1, <1>5, <1>6

LEMMA ParameterReplaces == Cursor /\ Parameter => Replaces
<1> SUFFICES ASSUME Cursor, Parameter PROVE Replaces
  OBVIOUS
<1>1. Top.do = "call" /\ Top.what = "parameter" /\ Advance
  BY DEF Parameter, Calling, Doing
<1>2. CASE ahead = "kIdentifier" /\ Then(<<>>) /\ built' = Append(built, Node("Token", ahead, <<>>))
  BY <1>1, <1>2, NameReplaces
<1>3. CASE Then(<<Call("throw")>>)
  <2>1. \A r : ~ Run(<<Call("throw")>>, Now', r)
    <3> DEFINE it == Call("throw")
    <3>1. it.do = "call" /\ it.what = "throw"
      BY DEF Call, Item
    <3>2. \A p, r : Run(<<it>>, p, r) => Does(it, p, r)
      BY Run1
    <3> HIDE DEF it
    <3>3. \A p, r : ~ Does(it, p, r)
      BY <3>1, DoesAssign
    <3>4. \A p, r : ~ Run(<<it>>, p, r)
      BY <3>2, <3>3
    <3> QED BY <3>4 DEF it
  <2>2. IsSeq(<<Call("throw")>>)
    BY Cat
  <2> HIDE DEF Now
  <2> QED BY <1>3, <2>1, <2>2 DEF Replaces
<1> QED BY <1>2, <1>3 DEF Parameter

LEMMA NextElementReplaces == Cursor /\ NextElement => Replaces \/ Throw
<1> SUFFICES ASSUME Cursor, NextElement, ~ Throw PROVE Replaces
  OBVIOUS
<1> DEFINE f == Top.what
           g == IF f = "get_args" THEN "next_expression" ELSE "parameter"
           sort == Element[f]
           u0 == <<Loop("end of list", Top.n)>>
           u1 == <<Call(g), Top>>
<1>1. /\ Top.do = "loop" /\ f \in {"get_args", "get_params"} /\ built' = built
      /\ Len(built) - Top.n <= MaxList
  BY DEF NextElement, Doing
<1>2. /\ f \in DOMAIN Element /\ sort \in {"expression", "kIdentifier"}
      /\ \A p, r : Does(Call(g), p, r) => Adds1(p, r, sort)
  BY <1>1, ElementSorts
<1>3. \A p, r : Does(Top, p, r) <=>
        \A n0, before, ns, w :
          Len(n0) = Top.n /\ Elements(sort, ns, w) /\ Grown(n0, before, p, ns, w)
            => Gives(n0, before, r, ListSort(sort))
  <2> HIDE DEF Top
  <2> QED BY <1>1, <1>2, ElementLoop
<1> HIDE DEF g, sort
<1>4. CASE ahead = "kComma" /\ Then(u1) /\ Advance
  <2>1. "kComma" \in Tokens /\ read' = Append(read, "kComma")
    BY <1>4, TakesAhead
  <2>2. ASSUME NEW r, Run(u1, Now', r), NEW n0, NEW before, NEW ns, NEW w,
               Len(n0) = Top.n, Elements(sort, ns, w), Grown(n0, before, Now, ns, w)
        PROVE  Gives(n0, before, r, ListSort(sort))
    <3>1. Grown(n0, before, Now', ns, w \o <<"kComma">>)
      BY <1>1, <2>1, <2>2, TokenGrown DEF Now
    <3>2. PICK s1 : Does(Call(g), Now', s1) /\ Does(Top, s1, r)
      BY <2>2, Run2
    <3> HIDE DEF Now, Top
    <3>3. PICK a, u : Is(sort, a, u) /\ Grown(n0, before, s1, ns \o <<a>>, (w \o <<"kComma">>) \o u)
      BY <1>2, <3>1, <3>2, OneMore
    <3>4. Elements(sort, ns \o <<a>>, (w \o <<"kComma">>) \o u)
      BY <1>2, <2>2, <3>3, NextElementIs
    <3> QED BY <1>3, <2>2, <3>2, <3>3, <3>4
  <2>3. IsSeq(u1)
    BY ItemSeqs
  <2> HIDE DEF u1, Now
  <2> QED BY <1>3, <1>4, <2>2, <2>3 DEF Replaces
<1>5. CASE Then(u0) /\ UNCHANGED <<read, ahead>>
  <2>1. ASSUME NEW r, Run(u0, Now', r), NEW n0, NEW before, NEW ns, NEW w,
               Len(n0) = Top.n, Elements(sort, ns, w), Grown(n0, before, Now, ns, w)
        PROVE  Gives(n0, before, r, ListSort(sort))
    <3>1. Does(Loop("end of list", Top.n), Now, r)
      <4>1. Now' = Now
        BY <1>1, <1>5 DEF Now
      <4> QED BY <2>1, <4>1, Run1
    <3>2. Grown(n0, before, r, <<ListOf(ns)>>, w)
      <4> HIDE DEF Now, Top
      <4> QED BY <2>1, <3>1, EndGives
    <3>3. Len(ns) <= MaxList
      <4>1. Len(built) = Len(n0) + Len(ns) /\ Len(n0) \in Nat /\ Len(ns) \in Nat
        BY <2>1, ReducedGrown
      <4>2. Len(built) - Len(n0) <= MaxList
        BY <1>1, <2>1
      <4> QED BY <4>1, <4>2, ListAssumption
    <3>4. Is(ListSort(sort), ListOf(ns), w)
      BY <1>2, <2>1, <3>3, ElementsAre
    <3> QED BY <3>2, <3>4 DEF Gives
  <2>2. IsSeq(u0)
    BY ItemSeqs
  <2> HIDE DEF u0, Now
  <2> QED BY <1>3, <1>5, <2>1, <2>2 DEF Replaces
<1> QED BY <1>4, <1>5 DEF NextElement, g

LEMMA MakeListReplaces == MakeList => Replaces
<1> SUFFICES ASSUME MakeList PROVE Replaces
  OBVIOUS
<1>1. /\ Top.do = "loop" /\ Top.what = "end of list" /\ Then(<<>>) /\ read' = read
      /\ built' = Reduced("list", "", Len(built) - Top.n)
  BY DEF MakeList, EndOfList, Looping, Doing
<1>2. ASSUME NEW r, Run(<<>>, Now', r) PROVE Does(Top, Now, r)
  <2>1. r = St(Reduced("list", "", Len(built) - Top.n), read)
    BY <1>1, <1>2, RunNothing DEF Now
  <2>2. ASSUME NEW n0, NEW before, NEW ns, NEW w, Len(n0) = Top.n, Grown(n0, before, Now, ns, w)
        PROVE  Grown(n0, before, r, <<ListOf(ns)>>, w)
    <3> DEFINE n == Len(built) - Top.n
    <3>1. n = Len(built) - Len(n0)
      BY <2>2
    <3>2. r = St(Reduced("list", "", n), read)
      BY <2>1
    <3> HIDE DEF n
    <3> QED BY <2>2, <3>1, <3>2, ReducedGrown DEF ListOf
  <2> HIDE DEF Now, Top
  <2> QED BY <1>1, <2>2, DoesLoop
<1>3. IsSeq(<<>>)
  BY Cat
<1> QED BY <1>1, <1>2, <1>3 DEF Replaces

LEMMA BeginStmtsReplaces == BeginStmts => Replaces
<1> SUFFICES ASSUME BeginStmts PROVE Replaces
  OBVIOUS
<1> DEFINE it == Loop("get_stmts", Len(built))
           u == <<it, Expect("kRightBrace")>>
<1>1. Top.do = "call" /\ Top.what = "get_stmts" /\ built' = built /\ read' = read /\ Then(u)
  BY DEF BeginStmts, Calling, Doing
<1>2. Top.what \in DOMAIN SortOf /\ "statements" = SortOf[Top.what] /\ <<>> = TakenBy(Top.what)
  BY <1>1 DEF SortOf, TakenBy, Key
<1>3. it.do = "loop" /\ it.what = "get_stmts" /\ it.n = Len(built)
  BY DEF Loop, Item
<1> HIDE DEF it
<1>4. ASSUME NEW r, Run(u, Now', r), NEW n0, NEW before, Grown(n0, before, Now, <<>>, <<>>)
      PROVE  Gives(n0, before, r, "statements")
  <2>1. PICK s1 : Does(it, Now, s1) /\ Does(Expect("kRightBrace"), s1, r)
    <3>1. Now' = Now
      BY <1>1 DEF Now
    <3> QED BY <1>4, <3>1, Run2
  <2>2. Len(n0) = it.n
    <3>1. n0 = built
      BY <1>4, Cat DEF Grown, Now, St
    <3> QED BY <1>3, <3>1
  <2> HIDE DEF Now
  <2>3. \A m0, before0, ns, w : Len(m0) = it.n /\ Declared(ns, w) /\ Grown(m0, before0, Now, ns, w)
          => Gives(m0, before0, s1, "declarations")
    BY <1>3, <2>1, DoesLoop
  <2>4. PICK a, w : Is("declarations", a, w) /\ Grown(n0, before, s1, <<a>>, w)
    BY <1>4, <2>2, <2>3, NoDeclarations DEF Gives
  <2>5. Grown(n0, before, r, <<a>>, w \o <<"kRightBrace">>)
    BY <2>1, <2>4, Expected
  <2>6. Is("statements", a, w \o <<"kRightBrace">>)
    BY <2>4, ClosedIs
  <2> QED BY <2>5, <2>6 DEF Gives
<1>5. IsSeq(u)
  BY ItemSeqs
<1> HIDE DEF u, Now
<1> QED BY <1>1, <1>2, <1>4, <1>5, CallReplaced

LEMMA DeclarationReplaces == NextStmt \/ NextDeclaration => Replaces
<1> SUFFICES ASSUME NextStmt \/ NextDeclaration PROVE Replaces
  OBVIOUS
<1> DEFINE u0 == <<Loop("end of list", Top.n)>>
           u1 == <<Call("next_declaration"), Top>>
<1>1. /\ Top.do = "loop" /\ Top.what \in {"get_stmts", "parse"} /\ built' = built /\ read' = read
      /\ Then(u0) \/ Then(u1)
  BY DEF NextStmt, NextDeclaration, Looping, Doing
<1>2. \A p, r : Does(Top, p, r) <=>
        \A n0, before, ns, w :
          Len(n0) = Top.n /\ Declared(ns, w) /\ Grown(n0, before, p, ns, w)
            => Gives(n0, before, r, "declarations")
  <2> HIDE DEF Top
  <2> QED BY <1>1, DoesLoop
<1>3. Now' = Now
  BY <1>1 DEF Now
<1> HIDE DEF Now
<1>4. CASE Then(u0)
  <2>1. ASSUME NEW r, Run(u0, Now', r), NEW n0, NEW before, NEW ns, NEW w,
               Len(n0) = Top.n, Declared(ns, w), Grown(n0, before, Now, ns, w)
        PROVE  Gives(n0, before, r, "declarations")
    <3>1. Does(Loop("end of list", Top.n), Now, r)
      BY <1>3, <2>1, Run1
    <3>2. Grown(n0, before, r, <<ListOf(ns)>>, w)
      <4> HIDE DEF Top
      <4> QED BY <2>1, <3>1, EndGives
    <3> QED BY <2>1, <3>2, DeclarationsAre DEF Gives
  <2>2. IsSeq(u0)
    BY ItemSeqs
  <2> HIDE DEF u0
  <2> QED BY <1>2, <1>4, <2>1, <2>2 DEF Replaces
<1>5. CASE Then(u1)
  <2>1. ASSUME NEW r, Run(u1, Now', r), NEW n0, NEW before, NEW ns, NEW w,
               Len(n0) = Top.n, Declared(ns, w), Grown(n0, before, Now, ns, w)
        PROVE  Gives(n0, before, r, "declarations")
    <3>1. PICK s1 : Does(Call("next_declaration"), Now, s1) /\ Does(Top, s1, r)
      BY <1>3, <2>1, Run2
    <3> HIDE DEF Top
    <3>2. Adds1(Now, s1, "declaration")
      BY <3>1, Adding
    <3>3. PICK a, u : Is("declaration", a, u) /\ Grown(n0, before, s1, ns \o <<a>>, w \o u)
      BY <2>1, <3>2, OneMore
    <3>4. Declared(ns \o <<a>>, w \o u)
      BY <2>1, <3>3, MoreDeclarations
    <3> QED BY <1>2, <2>1, <3>1, <3>3, <3>4
  <2>2. IsSeq(u1)
    BY ItemSeqs
  <2> HIDE DEF u1
  <2> QED BY <1>2, <1>5, <2>1, <2>2 DEF Replaces
<1> QED BY <1>1, <1>4, <1>5

-----------------------------------------------------------------------------
(* What is promised of all that is left to do.                              *)

Goal == IF source.policy = "kStatement" THEN "declarations" ELSE "expression"

\* Whatever the items left may do from here, they end with one tree of all the tokens.
Promised == \A q : Run(todo, Now, q) => Gives(<<>>, <<>>, q, Goal)
Keeping == (status = "parsing" => Promised) /\ (status = "ok" => Is(Goal, built[1], read))

LEMMA ReplacesKeeps ==
  ASSUME Held, todo # <<>>, Promised, Replaces, source' = source
  PROVE  Promised'
<1>1. IsSeq(todo) /\ Top = todo[1]
  BY TopFits
<1>2. PICK u : IsSeq(u) /\ Then(u) /\ \A r : Run(u, Now', r) => Does(Top, Now, r)
  BY DEF Replaces
<1>3. todo' = u \o Tail(todo) /\ Goal' = Goal
  BY <1>2 DEF Then, Goal
<1>4. ASSUME NEW q, Run(todo', Now', q) PROVE Gives(<<>>, <<>>, q, Goal)
  <2>1. Run(u \o Tail(todo), Now', q)
    BY <1>3, <1>4
  <2>2. \A r : Run(u, Now', r) => Does(todo[1], Now, r)
    BY <1>1, <1>2
  <2> HIDE DEF Now
  <2>3. Run(todo, Now, q)
    BY <1>1, <1>2, <2>1, <2>2, Instead
  <2> QED BY <2>3 DEF Promised
<1> HIDE DEF Goal, Now
<1>5. \A q : Run(todo', Now', q) => Gives(<<>>, <<>>, q, Goal')
  BY <1>3, <1>4
<1> QED BY <1>5 DEF Promised

\* An error promises nothing more.
LEMMA SkipNothing ==
  ASSUME NEW s, IsSeq(s), s # <<>>, s[1].do = "skip", NEW p, NEW q
  PROVE  ~ Run(s, p, q)
<1> SUFFICES ASSUME Run(s, p, q) PROVE FALSE
  OBVIOUS
<1>1. PICK g : \A i \in 1 .. Len(s) : Does(s[i], g[i], g[i + 1])
  BY DEF Run
<1>2. 1 \in 1 .. Len(s)
  <2>1. PICK S : s \in Seq(S)
    BY DEF IsSeq
  <2>2. Len(s) \in Nat \ {0}
    BY <2>1, LenProperties, EmptySeq
  <2> QED BY <2>2
<1>3. Does(s[1], g[1], g[1 + 1])
  BY <1>1, <1>2
<1> QED BY <1>3, DoesToken

LEMMA ThrowKeeps == Throw => Promised'
<1> SUFFICES ASSUME Throw PROVE Promised'
  OBVIOUS
<1> DEFINE it == Item("skip", "", "", 0)
           s == <<it>>
<1>1. it.do = "skip"
  BY DEF Item
<1>2. todo' = s
  BY DEF Throw
<1> HIDE DEF it
<1>3. IsSeq(s) /\ s # <<>> /\ s[1] = it
  <2>1. s \in Seq({it}) /\ Len(s) = 1 /\ s[1] = it
    OBVIOUS
  <2> QED BY <2>1, EmptySeq DEF IsSeq
<1>4. s[1].do = "skip"
  BY <1>1, <1>3
<1> HIDE DEF s
<1>5. \A p, q : ~ Run(s, p, q)
  BY <1>3, <1>4, SkipNothing
<1>6. \A q : ~ Run(todo', Now', q)
  BY <1>2, <1>5
<1> QED BY <1>6 DEF Promised

LEMMA StepReplaces ==
  ASSUME Cursor, Step
  PROVE  \/ todo # <<>> /\ Replaces /\ status' = status
         \/ Throw
         \/ Skip \/ Accept \/ Overrun
<1>1. CASE Enter \/ Choose \/ Nothing
  BY <1>1, EnterReplaces, ChooseReplaces, NothingReplaces DEF Enter, Choose, Nothing, Calling, Doing
<1>2. CASE Want \/ Identifier \/ TakeName
  <2>1. todo # <<>> /\ status = "parsing"
    BY <1>2 DEF Want, Identifier, TakeName, Calling, Doing
  <2>2. status' = status
    BY <1>2 DEF Want, Identifier, TakeName, Throw
  <2> QED BY <1>2, <2>1, <2>2, WantReplaces, IdentifierReplaces, TakeNameReplaces
<1>3. CASE Optional \/ Possible \/ MakeNode
  BY <1>3, OptionalReplaces, PossibleReplaces, MakeNodeReplaces DEF Optional, Possible, MakeNode, Doing
<1>4. CASE Assigned \/ Target \/ Operator
  <2>1. todo # <<>>
    BY <1>4 DEF Assigned, Target, Operator, Calling, Doing
  <2>2. status' = status
    BY <1>4 DEF Assigned, Target, Operator, Throw
  <2> QED BY <1>4, <2>1, <2>2, AssignedReplaces, TargetReplaces, OperatorReplaces
<1>5. CASE Unary \/ Calls \/ Primary
  <2>1. todo # <<>>
    BY <1>5 DEF Unary, Calls, Primary, Calling, Looping, Doing
  <2>2. status' = status
    BY <1>5 DEF Unary, Calls, Primary, Throw
  <2> QED BY <1>5, <2>1, <2>2, UnaryReplaces, CallsReplaces, PrimaryReplaces
<1>6. CASE BeginList \/ Parameter \/ ThrowParameter \/ NextElement
  <2>1. todo # <<>>
    BY <1>6 DEF BeginList, Parameter, ThrowParameter, NextElement, Calling, Doing
  <2>2. status' = status
    BY <1>6 DEF BeginList, Parameter, ThrowParameter, NextElement, Throw
  <2> QED BY <1>6, <2>1, <2>2, BeginListReplaces, ParameterReplaces, NextElementReplaces
          DEF ThrowParameter
<1>7. CASE MakeList \/ BeginStmts \/ NextStmt \/ NextDeclaration
  <2>1. todo # <<>>
    BY <1>7 DEF MakeList, BeginStmts, NextStmt, NextDeclaration, Calling, Looping, Doing
  <2>2. status' = status
    BY <1>7 DEF MakeList, BeginStmts, NextStmt, NextDeclaration
  <2> QED BY <1>7, <2>1, <2>2, MakeListReplaces, BeginStmtsReplaces, DeclarationReplaces
<1> QED BY <1>1, <1>2, <1>3, <1>4, <1>5, <1>6, <1>7 DEF Step

\* What parse() begins with is done right by one tree.
LEMMA BeginsKept ==
  ASSUME Ending, NEW s \in Sources, SetViews(s)
  PROVE  Promised'
<1> DEFINE it == IF s.policy = "kExpression" THEN Call("next_expression") ELSE Loop("parse", 0)
           p == St(<<>>, <<>>)
<1>1. /\ built' = <<>> /\ read' = <<>> /\ todo' = <<it>> /\ source' = s
  BY DEF Ending, SetViews
<1>2. Now' = p
  BY <1>1 DEF Now
<1>3. Grown(<<>>, <<>>, p, <<>>, <<>>)
  BY Cat, WordsCat DEF Grown, St
<1> HIDE DEF p
<1>4. s.policy \in {"kStatement", "kExpression"}
  BY SourcesAssumption
<1>5. CASE s.policy = "kExpression"
  <2>1. Goal' = "expression" /\ it = Call("next_expression")
    BY <1>1, <1>5 DEF Goal
  <2>2. /\ "next_expression" \in DOMAIN SortOf /\ <<>> = TakenBy("next_expression")
        /\ Wider(SortOf["next_expression"], "expression")
    BY DEF SortOf, TakenBy, Key, Wider
  <2>3. ASSUME NEW q, Run(<<Call("next_expression")>>, p, q)
        PROVE  Gives(<<>>, <<>>, q, "expression")
    BY <1>3, <2>2, <2>3, CallGives
  <2> HIDE DEF it, Goal, Now
  <2>4. \A q : Run(todo', Now', q) => Gives(<<>>, <<>>, q, Goal')
    BY <1>1, <1>2, <2>1, <2>3
  <2> QED BY <2>4 DEF Promised
<1>6. CASE s.policy = "kStatement"
  <2>1. Goal' = "declarations" /\ it = Loop("parse", 0)
    BY <1>1, <1>6 DEF Goal
  <2> HIDE DEF it
  <2>2. it.do = "loop" /\ it.what = "parse" /\ it.n = 0
    BY <2>1 DEF Loop, Item
  <2>3. ASSUME NEW q, Run(<<it>>, p, q)
        PROVE  Gives(<<>>, <<>>, q, "declarations")
    <3>1. Does(it, p, q)
      BY <2>3, Run1
    <3>2. \A n0, before, ns, w :
            Len(n0) = it.n /\ Declared(ns, w) /\ Grown(n0, before, p, ns, w)
              => Gives(n0, before, q, "declarations")
      BY <2>2, <3>1, DoesLoop
    <3>3. Len(<<>>) = it.n
      BY <2>2, EmptySeq
    <3> QED BY <1>3, <3>2, <3>3, NoDeclarations
  <2> HIDE DEF Goal, Now
  <2>4. \A q : Run(todo', Now', q) => Gives(<<>>, <<>>, q, Goal')
    BY <1>1, <1>2, <2>1, <2>3
  <2> QED BY <2>4 DEF Promised
<1> QED BY <1>4, <1>5, <1>6

\* When nothing is left to do, there is the tree.
LEMMA EndsKept ==
  ASSUME Promised, todo = <<>>, IsSeq(built)
  PROVE  Is(Goal, built[1], read)
<1>1. Gives(<<>>, <<>>, Now, Goal)
  BY RunNothing DEF Promised
<1>2. PICK a, w : Is(Goal, a, w) /\ Grown(<<>>, <<>>, Now, <<a>>, w)
  BY <1>1 DEF Gives
<1>3. built = <<>> \o <<a>> /\ read = <<>> \o w /\ w \in Words
  BY <1>2 DEF Grown, Now, St
<1>4. built = <<a>> /\ read = w
  BY <1>3, Cat, WordsCat
<1>5. built[1] = a
  BY <1>4
<1> QED BY <1>2, <1>4, <1>5

LEMMA StepKept ==
  ASSUME IInv, status = "parsing", Promised, Step, source' = source
  PROVE  Keeping'
<1>1. Cursor /\ Held /\ IsSeq(built) /\ Ending
  BY DEF IInv, Held
<1>2. status' = status => status' # "ok"
  OBVIOUS
<1>3. CASE todo # <<>> /\ Replaces /\ status' = status
  <2>1. Promised'
    BY <1>1, <1>3, ReplacesKeeps
  <2> QED BY <1>2, <1>3, <2>1 DEF Keeping
<1>4. CASE Throw
  <2>1. Promised' /\ status' = status
    BY <1>4, ThrowKeeps DEF Throw
  <2> QED BY <1>2, <2>1 DEF Keeping
<1>5. CASE Skip
  <2>1. CASE status' = "error"
    BY <2>1 DEF Keeping
  <2>2. CASE UNCHANGED <<status, todo>>
    <3>1. IsSeq(todo) /\ todo # <<>> /\ todo[1].do = "skip"
      BY <1>1, <1>5, TopFits DEF Skip, Doing
    <3>2. \A p, q : ~ Run(todo, p, q)
      BY <3>1, SkipNothing
    <3>3. Promised'
      BY <2>2, <3>2 DEF Promised
    <3> QED BY <1>2, <2>2, <3>3 DEF Keeping
  <2> QED BY <1>5, <2>1, <2>2 DEF Skip
<1>6. CASE Accept
  <2>1. todo = <<>> /\ status' = "ok" /\ built' = built /\ read' = read /\ Goal' = Goal
    BY <1>6 DEF Accept, Goal
  <2>2. Is(Goal, built[1], read)
    BY <1>1, <2>1, EndsKept
  <2> HIDE DEF Goal
  <2>3. Is(Goal', built'[1], read')
    BY <2>1, <2>2
  <2> QED BY <2>1, <2>3 DEF Keeping
<1>7. CASE Overrun
  BY <1>7 DEF Overrun, Keeping
<1> QED BY <1>1, <1>3, <1>4, <1>5, <1>6, <1>7, StepReplaces

LEMMA AllKept == Spec => [](IInv /\ Keeping)
<1>1. Init => Keeping
  BY DEF Init, Keeping
<1>2. IInv /\ Keeping /\ [Next]_vars => Keeping'
  <2> SUFFICES ASSUME IInv, Keeping, [Next]_vars PROVE Keeping'
    OBVIOUS
  <2>1. CASE \E s \in Sources : SetViews(s)
    <3>1. PICK s \in Sources : SetViews(s)
      BY <2>1
    <3>2. Promised' /\ status' = "parsing"
      BY <3>1, BeginsKept DEF IInv, SetViews
    <3> QED BY <3>2 DEF Keeping
  <2>2. CASE Step /\ UNCHANGED source
    <3>1. status = "parsing" /\ Promised
      BY <2>2, StepParses DEF Keeping
    <3> QED BY <2>2, <3>1, StepKept
  <2>3. CASE UNCHANGED vars
    <3>1. Now' = Now /\ Goal' = Goal /\ UNCHANGED vars
      BY <2>3 DEF vars, Now, Goal
    <3>2. Promised => Promised'
      BY <3>1 DEF vars, Promised
    <3> HIDE DEF Goal
    <3>3. Is(Goal, built[1], read) => Is(Goal', built'[1], read')
      BY <3>1 DEF vars
    <3> QED BY <2>3, <3>2, <3>3 DEF vars, Keeping
  <2> QED BY <2>1, <2>2, <2>3 DEF Next, Ended
<1> QED BY <1>1, <1>2, Invariant, PTL DEF Spec

\* The tree that parse() returns reads as the tokens it took, whatever they were.
THEOREM TreesKeepTokens ==
  ASSUME YieldLaw
  PROVE  Spec => []TreeKeepsTokens
<1>1. Keeping => TreeKeepsTokens
  <2> SUFFICES ASSUME Keeping, status = "ok" PROVE Yield(built[1], <<>>) = read
    BY DEF TreeKeepsTokens
  <2>1. Is(Goal, built[1], read) /\ Goal \in Plainly
    BY DEF Keeping, Goal, Plainly, Expressive
  <2> HIDE DEF Goal
  <2> QED BY <2>1, ReadAs
<1> QED BY <1>1, AllKept, PTL

-----------------------------------------------------------------------------
(* Which token is last.                                                     *)

\* An item that is not the name of a function, nor waits for the end of file.
Tame(it) == it.do # "take" /\ (it.do \in {"expect", "opt"} => it.kind \in Inspected)
Tames(u) == IsSeq(u) /\ \A i \in 1 .. Len(u) : Tame(u[i])

LEMMA AllTame ==
  ASSUME NEW S, \A it \in S : Tame(it), NEW u \in Seq(S)
  PROVE  Tames(u)
<1>1. \A i \in 1 .. Len(u) : u[i] \in S
  BY ElementOfSeq
<1> QED BY <1>1 DEF Tames, IsSeq

LEMMA TameItems ==
  /\ \A f : Tame(Call(f))
  /\ \A k : k \in Inspected => Tame(Expect(k)) /\ Tame(Opt(k))
  /\ \A k : Tame(Unless(k))
  /\ \A l, n : Tame(Loop(l, n))
  /\ \A what, op : Tame(Make(what, op))
  /\ \A it : it.do = "loop" => Tame(it)
<1>1. /\ \A f : Call(f).do = "call"
      /\ \A k : Expect(k).kind = k /\ Opt(k).kind = k /\ Expect(k).do = "expect" /\ Opt(k).do = "opt"
      /\ \A k : Unless(k).do = "unless"
      /\ \A l, n : Loop(l, n).do = "loop"
      /\ \A what, op : Make(what, op).do = "make"
  BY DEF Call, Expect, Opt, Unless, Loop, Make, Item
<1> QED BY <1>1 DEF Tame

LEMMA TuplesTame ==
  /\ \A a : Tame(a) => Tames(<<a>>)
  /\ \A a, b : Tame(a) /\ Tame(b) => Tames(<<a, b>>)
  /\ \A a, b, c : Tame(a) /\ Tame(b) /\ Tame(c) => Tames(<<a, b, c>>)
  /\ \A a, b, c, d : Tame(a) /\ Tame(b) /\ Tame(c) /\ Tame(d) => Tames(<<a, b, c, d>>)
  /\ \A a, b, c, d, e, f : Tame(a) /\ Tame(b) /\ Tame(c) /\ Tame(d) /\ Tame(e) /\ Tame(f) =>
       Tames(<<a, b, c, d, e, f>>)
  /\ \A a, b, c, d, e, f, g, h : Tame(a) /\ Tame(b) /\ Tame(c) /\ Tame(d) /\ Tame(e) /\ Tame(f)
                                   /\ Tame(g) /\ Tame(h) =>
       Tames(<<a, b, c, d, e, f, g, h>>)
<1>1. ASSUME NEW a, Tame(a) PROVE Tames(<<a>>)
  <2>1. <<a>> \in Seq({a})
    OBVIOUS
  <2> QED BY <1>1, <2>1, AllTame
<1>2. ASSUME NEW a, NEW b, Tame(a), Tame(b)
      PROVE  Tames(<<a, b>>)
  <2>1. <<a, b>> \in Seq({a, b})
    OBVIOUS
  <2> QED BY <1>2, <2>1, AllTame
<1>3. ASSUME NEW a, NEW b, NEW c, Tame(a), Tame(b), Tame(c)
      PROVE  Tames(<<a, b, c>>)
  <2>1. <<a, b, c>> \in Seq({a, b, c})
    OBVIOUS
  <2> QED BY <1>3, <2>1, AllTame
<1>4. ASSUME NEW a, NEW b, NEW c, NEW d, Tame(a), Tame(b), Tame(c), Tame(d)
      PROVE  Tames(<<a, b, c, d>>)
  <2>1. <<a, b, c, d>> \in Seq({a, b, c, d})
    OBVIOUS
  <2> QED BY <1>4, <2>1, AllTame
<1>5. ASSUME NEW a, NEW b, NEW c, NEW d, NEW e, NEW f, Tame(a), Tame(b), Tame(c), Tame(d), Tame(e), Tame(f)
      PROVE  Tames(<<a, b, c, d, e, f>>)
  <2>1. <<a, b, c, d, e, f>> \in Seq({a, b, c, d, e, f})
    OBVIOUS
  <2> QED BY <1>5, <2>1, AllTame
<1>6. ASSUME NEW a, NEW b, NEW c, NEW d, NEW e, NEW f, NEW g, NEW h, Tame(a), Tame(b), Tame(c), Tame(d), Tame(e), Tame(f), Tame(g), Tame(h)
      PROVE  Tames(<<a, b, c, d, e, f, g, h>>)
  <2>1. <<a, b, c, d, e, f, g, h>> \in Seq({a, b, c, d, e, f, g, h})
    OBVIOUS
  <2> QED BY <1>6, <2>1, AllTame
<1> QED BY <1>1, <1>2, <1>3, <1>4, <1>5, <1>6

\* The bodies of functions but for function_decl.
LEMMA BodyTame ==
  ASSUME NEW f \in DOMAIN Body, f # "function_decl"
  PROVE  Tames(Body[f])
<1>1. CASE f = "next_expression"
  <2>1. Tame(Call("assignment"))
    BY TameItems DEF Inspected
  <2>2. Body["next_expression"] = <<Call("assignment")>>
    BY DEF Body
  <2> QED BY <1>1, <2>1, <2>2, TuplesTame
<1>2. CASE f = "assignment"
  <2>1. Tame(Call("logical_or")) /\ Tame(Call("assigned?"))
    BY TameItems DEF Inspected
  <2>2. Body["assignment"] = <<Call("logical_or"), Call("assigned?")>>
    BY DEF Body
  <2> QED BY <1>2, <2>1, <2>2, TuplesTame
<1>3. CASE f = "call"
  <2>1. Tame(Call("primary")) /\ Tame(Loop("calls", 0))
    BY TameItems DEF Inspected
  <2>2. Body["call"] = <<Call("primary"), Loop("calls", 0)>>
    BY DEF Body
  <2> QED BY <1>3, <2>1, <2>2, TuplesTame
<1>4. CASE f = "var_decl"
  <2>1. Tame(Call("identifier")) /\ Tame(Opt("kEqual")) /\ Tame(Expect("kSemicolon")) /\
        Tame(Make("Var", "kVar"))
    BY TameItems DEF Inspected
  <2>2. Body["var_decl"] = <<Call("identifier"), Opt("kEqual"), Expect("kSemicolon"),
                             Make("Var", "kVar")>>
    BY DEF Body
  <2> QED BY <1>4, <2>1, <2>2, TuplesTame
<1>5. CASE f = "get_condition"
  <2>1. Tame(Expect("kLeftParen")) /\ Tame(Call("next_expression")) /\
        Tame(Expect("kRightParen"))
    BY TameItems DEF Inspected
  <2>2. Body["get_condition"] = <<Expect("kLeftParen"), Call("next_expression"), Expect("kRightParen")>>
    BY DEF Body
  <2> QED BY <1>5, <2>1, <2>2, TuplesTame
<1>6. CASE f = "if_stmt"
  <2>1. Tame(Call("get_condition")) /\ Tame(Call("next_statement")) /\ Tame(Opt("kElse"))
        /\ Tame(Make("If", "kIf"))
    BY TameItems DEF Inspected
  <2>2. Body["if_stmt"] = <<Call("get_condition"), Call("next_statement"), Opt("kElse"),
                            Make("If", "kIf")>>
    BY DEF Body
  <2> QED BY <1>6, <2>1, <2>2, TuplesTame
<1>7. CASE f = "block_stmt"
  <2>1. Tame(Call("get_stmts")) /\ Tame(Make("Block", "kLeftBrace"))
    BY TameItems DEF Inspected
  <2>2. Body["block_stmt"] = <<Call("get_stmts"), Make("Block", "kLeftBrace")>>
    BY DEF Body
  <2> QED BY <1>7, <2>1, <2>2, TuplesTame
<1>8. CASE f = "while_stmt"
  <2>1. Tame(Call("get_condition")) /\ Tame(Call("next_statement")) /\
        Tame(Make("While", "kWhile"))
    BY TameItems DEF Inspected
  <2>2. Body["while_stmt"] = <<Call("get_condition"), Call("next_statement"), Make("While", "kWhile")>>
    BY DEF Body
  <2> QED BY <1>8, <2>1, <2>2, TuplesTame
<1>9. CASE f = "for_stmt"
  <2>1. Tame(Expect("kLeftParen")) /\ Tame(Call("initializer")) /\
        Tame(Unless("kSemicolon")) /\ Tame(Expect("kSemicolon")) /\
        Tame(Unless("kRightParen")) /\ Tame(Expect("kRightParen")) /\
        Tame(Call("next_statement")) /\ Tame(Make("For", "kFor"))
    BY TameItems DEF Inspected
  <2>2. Body["for_stmt"] = <<Expect("kLeftParen"), Call("initializer"), Unless("kSemicolon"),
                             Expect("kSemicolon"), Unless("kRightParen"), Expect("kRightParen"),
                             Call("next_statement"), Make("For", "kFor")>>
    BY DEF Body
  <2> QED BY <1>9, <2>1, <2>2, TuplesTame
<1>10. CASE f = "return_stmt"
  <2>1. Tame(Unless("kSemicolon")) /\ Tame(Expect("kSemicolon")) /\
        Tame(Make("Return", "kReturn"))
    BY TameItems DEF Inspected
  <2>2. Body["return_stmt"] = <<Unless("kSemicolon"), Expect("kSemicolon"), Make("Return", "kReturn")>>
    BY DEF Body
  <2> QED BY <1>10, <2>1, <2>2, TuplesTame
<1>11. CASE f = "print_stmt"
  <2>1. Tame(Call("next_expression")) /\ Tame(Expect("kSemicolon")) /\
        Tame(Make("Print", "kPrint"))
    BY TameItems DEF Inspected
  <2>2. Body["print_stmt"] = <<Call("next_expression"), Expect("kSemicolon"), Make("Print", "kPrint")>>
    BY DEF Body
  <2> QED BY <1>11, <2>1, <2>2, TuplesTame
<1>12. CASE f = "expr_stmt"
  <2>1. Tame(Call("next_expression")) /\ Tame(Expect("kSemicolon")) /\
        Tame(Make("Expression", ""))
    BY TameItems DEF Inspected
  <2>2. Body["expr_stmt"] = <<Call("next_expression"), Expect("kSemicolon"), Make("Expression", "")>>
    BY DEF Body
  <2> QED BY <1>12, <2>1, <2>2, TuplesTame
<1>13. f \in {"next_expression", "assignment", "call", "var_decl", "get_condition", "if_stmt",
             "block_stmt", "while_stmt", "for_stmt", "return_stmt", "print_stmt", "expr_stmt"}
  BY DEF Body
<1> QED BY <1>1, <1>2, <1>3, <1>4, <1>5, <1>6, <1>7, <1>8, <1>9, <1>10, <1>11, <1>12, <1>13


\* The step puts such items, in place of the first or before the rest.
Tamely == \E u : Tames(u) /\ Then(u)
LEMMA TamelyThen ==
  /\ Then(<<>>) => Tamely
  /\ \A a : Tame(a) /\ Then(<<a>>) => Tamely
  /\ \A a, b : Tame(a) /\ Tame(b) /\ Then(<<a, b>>) => Tamely
  /\ \A a, b, c : Tame(a) /\ Tame(b) /\ Tame(c) /\ Then(<<a, b, c>>) => Tamely
<1>1. Tames(<<>>)
  BY EmptySeq DEF Tames, IsSeq
<1> QED BY <1>1, TuplesTame DEF Tamely

LEMMA StepTame ==
  ASSUME Step
  PROVE  \/ Tamely
         \/ Top.do = "call" /\ Top.what = "function_decl" /\ Then(Body["function_decl"])
         \/ Throw \/ Skip \/ Accept \/ Overrun
<1>1. CASE Enter
  <2>1. CASE Top.what \in DOMAIN Body /\ Then(Body[Top.what])
    <3>1. CASE Top.what = "function_decl"
      BY <1>1, <2>1, <3>1 DEF Enter, Doing
    <3>2. CASE Top.what # "function_decl"
      <4>1. Tames(Body[Top.what])
        BY <2>1, <3>2, BodyTame
      <4> QED BY <2>1, <4>1 DEF Tamely
    <3> QED BY <3>1, <3>2
  <2>2. CASE Then(<<Call(Operand[Top.what]), Loop(Top.what, 0)>>)
    BY <2>2, TameItems, TamelyThen
  <2> QED BY <1>1, <2>1, <2>2 DEF Enter
<1>2. CASE Choose \/ Nothing
  <2>1. CASE Choose
    BY <2>1, TameItems, TamelyThen DEF Choose
  <2>2. CASE Nothing
    BY <2>2, TamelyThen DEF Nothing
  <2> QED BY <1>2, <2>1, <2>2
<1>3. CASE Want \/ Identifier \/ TakeName
  BY <1>3, TamelyThen DEF Want, Identifier, TakeName
<1>4. CASE Optional
  <2>1. Then(<<>>) \/ \E f : Then(<<Call(f)>>)
    BY <1>4 DEF Optional
  <2> QED BY <2>1, TameItems, TamelyThen
<1>5. CASE Possible
  <2>1. Then(<<>>) \/ Then(<<Call("next_expression")>>)
    BY <1>5 DEF Possible
  <2> QED BY <2>1, TameItems, TamelyThen
<1>6. CASE MakeNode \/ MakeList
  BY <1>6, TamelyThen DEF MakeNode, MakeList
<1>7. CASE Assigned
  <2>1. Then(<<>>) \/ Then(<<Call("assignment"), Call("assigned!")>>)
    BY <1>7 DEF Assigned
  <2> QED BY <2>1, TameItems, TamelyThen
<1>8. CASE Target
  <2>1. Throw \/ Then(<<Make("Assignment", "kEqual")>>)
    BY <1>8 DEF Target
  <2> QED BY <2>1, TameItems, TamelyThen
<1>9. CASE Operator \/ Calls
  <2>1. Top.do = "loop"
    BY <1>9 DEF Operator, Calls, Looping, Doing
  <2>2. Then(<<>>) \/ \E f, what, op : Then(<<Call(f), Make(what, op), Top>>)
    BY <1>9 DEF Operator, Calls
  <2> QED BY <2>1, <2>2, TameItems, TamelyThen
<1>10. CASE Unary
  <2>1. Then(<<Call("unary"), Make("Unary", ahead)>>) \/ Then(<<Call("call")>>)
    BY <1>10 DEF Unary
  <2> QED BY <2>1, TameItems, TamelyThen
<1>11. CASE Primary
  <2>1. \/ Throw \/ Then(<<>>)
        \/ Then(<<Call("next_expression"), Expect("kRightParen"), Make("Grouping", ahead)>>)
    BY <1>11 DEF Primary
  <2>2. "kRightParen" \in Inspected
    BY DEF Inspected
  <2> QED BY <2>1, <2>2, TameItems, TamelyThen
<1>12. CASE BeginList
  <2>1. \/ Then(<<Loop("end of list", Len(built)), Expect("kRightParen")>>)
        \/ \E f : Then(<<Call(f), Loop(Top.what, Len(built)), Expect("kRightParen")>>)
    BY <1>12 DEF BeginList
  <2>2. "kRightParen" \in Inspected
    BY DEF Inspected
  <2> QED BY <2>1, <2>2, TameItems, TamelyThen
<1>13. CASE Parameter \/ ThrowParameter
  <2>1. Throw \/ Then(<<>>) \/ Then(<<Call("throw")>>)
    BY <1>13 DEF Parameter, ThrowParameter
  <2> QED BY <2>1, TameItems, TamelyThen
<1>14. CASE NextElement
  <2>1. Top.do = "loop"
    BY <1>14 DEF NextElement, Doing
  <2>2. \/ Throw \/ Then(<<Loop("end of list", Top.n)>>)
        \/ \E f : Then(<<Call(f), Top>>)
    BY <1>14 DEF NextElement
  <2> QED BY <2>1, <2>2, TameItems, TamelyThen
<1>15. CASE BeginStmts
  <2>1. Then(<<Loop("get_stmts", Len(built)), Expect("kRightBrace")>>)
    BY <1>15 DEF BeginStmts
  <2>2. "kRightBrace" \in Inspected
    BY DEF Inspected
  <2> QED BY <2>1, <2>2, TameItems, TamelyThen
<1>16. CASE NextStmt \/ NextDeclaration
  <2>1. Top.do = "loop"
    BY <1>16 DEF NextStmt, NextDeclaration, Looping, Doing
  <2>2. \/ Then(<<Loop("end of list", Top.n)>>) \/ Then(<<Call("next_declaration"), Top>>)
    BY <1>16 DEF NextStmt, NextDeclaration
  <2> QED BY <2>1, <2>2, TameItems, TamelyThen
<1> QED BY <1>1, <1>2, <1>3, <1>4, <1>5, <1>6, <1>7, <1>8, <1>9, <1>10, <1>11, <1>12, <1>13,
           <1>14, <1>15, <1>16 DEF Step

-----------------------------------------------------------------------------
\* Only the first item may be the name of a function, a bracket coming after it,
\* and none waits for the end of file.
Stacked ==
  /\ \A i \in 1 .. Len(todo) : todo[i].do \in {"expect", "opt"} => todo[i].kind \in Inspected
  /\ \A i \in 2 .. Len(todo) : todo[i].do # "take"
  /\ todo # <<>> /\ todo[1].do = "take" => Len(todo) > 1 /\ todo[2] = Expect("kLeftParen")

LEMMA ThenStacked ==
  ASSUME Stacked, IsSeq(todo), todo # <<>>, Tamely
  PROVE  Stacked'
<1>1. PICK u : Tames(u) /\ Then(u)
  BY DEF Tamely
<1>2. /\ Len(u) \in Nat /\ Len(todo) \in Nat \ {0}
      /\ Len(todo') = Len(u) + Len(todo) - 1
      /\ \A i \in 1 .. Len(todo') :
           todo'[i] = IF i <= Len(u) THEN u[i] ELSE todo[i - Len(u) + 1]
      /\ IsSeq(todo')
  BY <1>1, Joined DEF Tames, Then
<1>3. ASSUME NEW i \in 1 .. Len(todo') PROVE Tame(todo'[i])
  <2>1. CASE i <= Len(u)
    <3>1. i \in 1 .. Len(u) /\ todo'[i] = u[i]
      BY <1>2, <2>1
    <3> QED BY <1>1, <3>1 DEF Tames
  <2>2. CASE ~ (i <= Len(u))
    <3>1. i - Len(u) + 1 \in 2 .. Len(todo) /\ todo'[i] = todo[i - Len(u) + 1]
      BY <1>2, <2>2
    <3>2. i - Len(u) + 1 \in 1 .. Len(todo)
      BY <1>2, <3>1
    <3> QED BY <3>1, <3>2 DEF Stacked, Tame
  <2> QED BY <2>1, <2>2
<1>4. todo' # <<>> => 1 \in 1 .. Len(todo')
  <2>1. PICK S : todo' \in Seq(S)
    BY <1>2 DEF IsSeq
  <2>2. todo' # <<>> => Len(todo') \in Nat \ {0}
    BY <2>1, LenProperties, EmptySeq
  <2> QED BY <2>2
<1>5. \A i \in 2 .. Len(todo') : i \in 1 .. Len(todo')
  BY <1>2
<1> QED BY <1>3, <1>4, <1>5 DEF Stacked, Tame

LEMMA DeclarationStacked ==
  ASSUME Stacked, IsSeq(todo), todo # <<>>, Then(Body["function_decl"])
  PROVE  Stacked'
<1> DEFINE a == Call("get_params")
           b == Expect("kLeftBrace")
           c == Call("get_stmts")
           d == Make("Function", "kFun")
           e == Expect("kLeftParen")
           u == <<Take, e, a, b, c, d>>
<1>1. Body["function_decl"] = u
  BY DEF Body
<1>2. Tame(a) /\ Tame(b) /\ Tame(c) /\ Tame(d) /\ Tame(e) /\ Take.do = "take" /\ e = Expect("kLeftParen")
  BY TameItems DEF Inspected, Take, Item
<1> HIDE DEF a, b, c, d, e
<1>3. /\ IsSeq(u) /\ Len(u) = 6 /\ u[1] = Take /\ u[2] = e /\ u[3] = a /\ u[4] = b /\ u[5] = c
      /\ u[6] = d
  BY ItemSeqs
<1> HIDE DEF u
<1>4. \A i \in 2 .. 6 : Tame(u[i])
  <2>1. \A i \in 2 .. 6 : i = 2 \/ i = 3 \/ i = 4 \/ i = 5 \/ i = 6
    OBVIOUS
  <2> QED BY <1>2, <1>3, <2>1
<1>5. /\ Len(u) \in Nat /\ Len(todo) \in Nat \ {0}
      /\ Len(todo') = 6 + Len(todo) - 1
      /\ \A i \in 1 .. Len(todo') : todo'[i] = IF i <= 6 THEN u[i] ELSE todo[i - 6 + 1]
  <2>1. IsSeq(u) /\ Len(u) = 6
    BY <1>3
  <2>2. /\ Len(u) \in Nat /\ Len(todo) \in Nat \ {0}
        /\ Len(u \o Tail(todo)) = Len(u) + Len(todo) - 1
        /\ \A i \in 1 .. Len(u \o Tail(todo)) :
             (u \o Tail(todo))[i] = IF i <= Len(u) THEN u[i] ELSE todo[i - Len(u) + 1]
    BY <2>1, Joined
  <2>3. todo' = u \o Tail(todo)
    BY <1>1 DEF Then
  <2> QED BY <2>1, <2>2, <2>3
<1>6. ASSUME NEW i \in 2 .. Len(todo') PROVE Tame(todo'[i])
  <2>1. CASE i <= 6
    <3>1. i \in 2 .. 6 /\ todo'[i] = u[i]
      BY <1>5, <2>1
    <3> QED BY <1>4, <3>1
  <2>2. CASE ~ (i <= 6)
    <3>1. i - 6 + 1 \in 2 .. Len(todo) /\ todo'[i] = todo[i - 6 + 1]
      BY <1>5, <2>2
    <3>2. i - 6 + 1 \in 1 .. Len(todo)
      BY <1>5, <3>1
    <3> QED BY <3>1, <3>2 DEF Stacked, Tame
  <2> QED BY <2>1, <2>2
<1>7. todo'[1] = Take /\ todo'[2] = Expect("kLeftParen") /\ Len(todo') > 1
  <2>1. 1 \in 1 .. Len(todo') /\ 2 \in 1 .. Len(todo') /\ Len(todo') > 1
    BY <1>5
  <2>2. todo'[1] = u[1] /\ todo'[2] = u[2]
    BY <1>5, <2>1
  <2> QED BY <1>2, <1>3, <2>1, <2>2
<1>8. \A i \in 1 .. Len(todo') : i = 1 \/ i \in 2 .. Len(todo')
  BY <1>5
<1> QED BY <1>2, <1>6, <1>7, <1>8 DEF Stacked, Tame

LEMMA SkipStacked ==
  /\ Throw => Stacked'
  /\ todo' = <<>> => Stacked'
<1> DEFINE it == Item("skip", "", "", 0)
           s == <<it>>
<1>1. it.do = "skip"
  BY DEF Item
<1> HIDE DEF it
<1>2. Len(s) = 1 /\ s[1] = it
  OBVIOUS
<1>3. Throw => todo' = s
  BY DEF Throw, it
<1> HIDE DEF s
<1>4. \A i \in 1 .. 1 : i = 1
  OBVIOUS
<1>5. \A i \in 2 .. 1 : FALSE
  OBVIOUS
<1>6. Throw => Stacked'
  BY <1>1, <1>2, <1>3, <1>4, <1>5 DEF Stacked
<1>7. todo' = <<>> => Stacked'
  BY EmptySeq DEF Stacked
<1> QED BY <1>6, <1>7

LEMMA StepStacked ==
  ASSUME Cursor, Stacked, Held, Step
  PROVE  Stacked'
<1>1. IsSeq(todo)
  BY DEF Held, Leads
<1>2. CASE Throw
  BY <1>2, SkipStacked
<1>3. CASE Skip
  <2>1. todo' = <<>> \/ todo' = todo
    BY <1>3 DEF Skip
  <2>2. todo' = todo => Stacked'
    BY DEF Stacked
  <2> QED BY <2>1, <2>2, SkipStacked
<1>4. CASE Accept \/ Overrun
  <2>1. todo' = <<>>
    BY <1>4 DEF Accept, Overrun
  <2> QED BY <2>1, SkipStacked
<1>5. CASE todo # <<>> /\ ~ (Throw \/ Skip \/ Accept \/ Overrun)
  BY <1>1, <1>5, StepTame, ThenStacked, DeclarationStacked
<1> QED BY <1>2, <1>3, <1>4, <1>5, StepReplaces

-----------------------------------------------------------------------------
(* The end of the tokens.                                                   *)

\* The last token is the end of file.
LastEnds == Len(read) + 1 = Len(source.kinds) => AtEnd
\* Once it is taken, for the name of a function or a parameter, parsing fails.
Spent ==
  status = "parsing" /\ ahead = Past /\ read # <<>> =>
    /\ todo # <<>>
    /\ Top = Expect("kLeftParen") \/ Calling("throw") \/ Top.do = "skip"

LEMMA LastKinds ==
  ASSUME NEW s \in Sources
  PROVE  /\ Len(s.kinds) \in Nat \ {0}
         /\ \A n \in Nat : n + 1 = Len(s.kinds) => After(s, n) \subseteq {Eof, Past}
         /\ \A n \in Nat \ {0} : n < Len(s.kinds) => Past \notin After(s, n)
<1>1. s.kinds \in Seq(SUBSET (Tokens \cup {Past})) /\ s.kinds # <<>>
  BY SourceKinds, EndAssumption
<1>2. Len(s.kinds) \in Nat \ {0}
  BY <1>1, LenProperties, EmptySeq
<1>3. ASSUME NEW n \in Nat, n + 1 = Len(s.kinds) PROVE After(s, n) \subseteq {Eof, Past}
  <2>1. n < Len(s.kinds)
    BY <1>2, <1>3
  <2>2. s.kinds[n + 1] \subseteq {Eof, Past}
    BY <1>3, EndAssumption
  <2> QED BY <2>1, <2>2 DEF After
<1>4. ASSUME NEW n \in Nat \ {0}, n < Len(s.kinds) PROVE Past \notin After(s, n)
  <2>1. n + 1 \in 2 .. Len(s.kinds)
    BY <1>2, <1>4
  <2>2. Past \notin s.kinds[n + 1]
    BY <2>1, EndAssumption
  <2> QED BY <1>4, <2>2 DEF After
<1> QED BY <1>2, <1>3, <1>4

LEMMA GetLast ==
  ASSUME Cursor, LastEnds, source \in Sources, source' = source, Advance \/ Discard
  PROVE  LastEnds' /\ (ahead' = Past => ahead = Eof) /\ read' = Append(read, ahead) /\ ahead # Past
<1> DEFINE n == Len(read) + 1
<1>1. ahead # Past /\ read' = Append(read, ahead)
  BY DEF Advance, Discard, Get
<1>2. Len(read') = n /\ n \in Nat \ {0} /\ n <= Len(source.kinds)
  <2>1. Len(read) \in Nat /\ Len(source.kinds) \in Nat /\ Len(read) < Len(source.kinds)
    BY <1>1, SourceKinds, LenProperties DEF Cursor
  <2>2. Len(read') = n
    BY GetKeeps
  <2> QED BY <2>1, <2>2
<1>3. (ahead' = Past /\ ahead = Eof) \/ \E k \in After(source, n) : ahead' = k \/ ahead' = Skimmed(k)
  BY DEF Advance, Discard, Get
<1>4. \A k : (Skimmed(k) = Past => k = Past) /\ (k \in {Eof, Past} => Skimmed(k) = k)
  BY DEF Skimmed, Other, Past
<1> HIDE DEF n
<1>5. LastEnds'
  <2> SUFFICES ASSUME n + 1 = Len(source.kinds) PROVE ahead' \in {Eof, Past}
    BY <1>2 DEF LastEnds, AtEnd
  <2>1. After(source, n) \subseteq {Eof, Past}
    BY <1>2, LastKinds
  <2> QED BY <1>3, <1>4, <2>1
<1>6. ASSUME ahead' = Past PROVE ahead = Eof
  <2>1. CASE n = Len(source.kinds)
    BY <1>1, <2>1 DEF LastEnds, AtEnd, n
  <2>2. CASE n # Len(source.kinds)
    <3>1. n < Len(source.kinds)
      <4>1. Len(source.kinds) \in Nat
        BY LastKinds
      <4> QED BY <1>2, <2>2, <4>1
    <3>2. Past \notin After(source, n)
      BY <1>2, <3>1, LastKinds
    <3> QED BY <1>3, <1>4, <1>6, <3>2
  <2> QED BY <2>1, <2>2
<1> QED BY <1>1, <1>5, <1>6

LEMMA StepLast ==
  ASSUME Cursor, LastEnds, source \in Sources, source' = source, Step
  PROVE  LastEnds' /\ (ahead' = Past /\ ahead # Past => ahead = Eof)
<1>1. CASE Advance \/ Discard
  BY <1>1, GetLast
<1>2. CASE UNCHANGED <<read, ahead>>
  BY <1>2 DEF LastEnds, AtEnd
<1> QED BY <1>1, <1>2, StepMoves DEF Moves, Throw

\* Whatever takes the end of file.
LEMMA EofTaken ==
  ASSUME Stacked, IsSeq(todo), Step, ahead = Eof, ahead' = Past, status' = "parsing"
  PROVE  \/ Throw
         \/ TakeName
         \/ Then(<<Call("throw")>>)
<1>1. Eof \notin Inspected /\ Eof # Past
  BY DEF Eof, Past, Inspected
<1>2. todo # <<>> => 1 \in 1 .. Len(todo) /\ Top = todo[1]
  <2>1. PICK S : todo \in Seq(S)
    BY DEF IsSeq
  <2>2. todo # <<>> => Len(todo) \in Nat \ {0}
    BY <2>1, LenProperties, EmptySeq
  <2> QED BY <2>1, <2>2 DEF Top
<1>3. todo # <<>> /\ Top.do \in {"expect", "opt"} => Top.kind \in Inspected
  BY <1>2 DEF Stacked
<1>4. CASE Enter \/ Nothing \/ Possible \/ MakeNode \/ BeginList \/ MakeList
  BY <1>1, <1>4 DEF Enter, Nothing, Possible, MakeNode, BeginList, MakeList
<1>5. CASE BeginStmts \/ NextStmt \/ NextDeclaration \/ Accept \/ Overrun
  BY <1>1, <1>5 DEF BeginStmts, NextStmt, NextDeclaration, Accept, Overrun
<1>6. CASE Choose
  <2>1. Eof \notin DOMAIN Chooses[Top.what]
    BY <1>6 DEF Choose, Chooses, Eof
  <2> QED BY <1>1, <1>6, <2>1 DEF Choose
<1>7. CASE Want \/ Optional
  BY <1>1, <1>3, <1>7 DEF Want, Optional, Doing
<1>8. CASE Identifier \/ Assigned \/ Target
  BY <1>1, <1>8 DEF Identifier, Assigned, Target, Inspected
<1>9. CASE Operator
  <2>1. Eof \notin Ops[Top.what]
    BY <1>1, <1>9, LevelSet DEF Operator, Ops, Inspected
  <2> QED BY <1>1, <1>9, <2>1 DEF Operator
<1>10. CASE Unary \/ Calls
  BY <1>1, <1>10 DEF Unary, Calls, Inspected
<1>11. CASE Primary
  BY <1>1, <1>11 DEF Primary, Constants, Inspected
<1>12. CASE Parameter \/ ThrowParameter \/ TakeName
  BY <1>1, <1>12 DEF Parameter, ThrowParameter, Inspected
<1>13. CASE NextElement
  BY <1>1, <1>13 DEF NextElement, Inspected
<1>14. CASE Skip
  BY <1>14 DEF Skip, AtEnd
<1> QED BY <1>4, <1>5, <1>6, <1>7, <1>8, <1>9, <1>10, <1>11, <1>12, <1>13, <1>14 DEF Step

\* When the cursor is past the tokens nothing goes on.
LEMMA StopsPast ==
  ASSUME ahead = Past, Spent, read # <<>>, Step
  PROVE  status' # "parsing"
<1>1. status = "parsing" /\ Past \notin Inspected /\ ~ Advance /\ ~ Discard /\ ~ Throw
  BY StepParses DEF Advance, Discard, Throw, Get, Past, Inspected
<1>2. todo # <<>> /\ (Top = Expect("kLeftParen") \/ Calling("throw") \/ Top.do = "skip")
  BY <1>1 DEF Spent
<1>3. CASE Top = Expect("kLeftParen")
  <2>1. Top.do = "expect" /\ Top.kind # Past
    BY <1>3 DEF Expect, Item, Past
  <2>2. Want \/ Accept \/ Overrun
    BY <2>1 DEF Step, Enter, Choose, Nothing, Identifier, TakeName, Optional, Possible,
         MakeNode, Assigned, Target, Operator, Unary, Calls, Primary, BeginList, Parameter,
         ThrowParameter, NextElement, MakeList, BeginStmts, NextStmt, NextDeclaration, Skip,
         Calling, Looping, Doing
  <2> QED BY <1>1, <1>2, <2>1, <2>2 DEF Want, Accept, Overrun
<1>4. CASE Calling("throw")
  <2>1. Top.do = "call" /\ Top.what = "throw"
    BY <1>4 DEF Calling, Doing
  <2>2. "throw" \notin DOMAIN Body \cup Levels \cup DOMAIN Chooses
    BY LevelSet DEF Body, Chooses
  <2>3. ThrowParameter \/ Accept \/ Overrun
    BY <2>1, <2>2 DEF Step, Enter, Choose, Nothing, Want, Identifier, TakeName, Optional, Possible,
         MakeNode, Assigned, Target, Operator, Unary, Calls, Primary, BeginList, Parameter,
         NextElement, MakeList, BeginStmts, NextStmt, NextDeclaration, Skip,
         Calling, Looping, Doing
  <2> QED BY <1>1, <1>2, <2>3 DEF ThrowParameter, Accept, Overrun
<1>5. CASE Top.do = "skip"
  <2>1. Skip \/ Accept \/ Overrun
    BY <1>5 DEF Step, Enter, Choose, Nothing, Want, Identifier, TakeName, Optional, Possible,
         MakeNode, Assigned, Target, Operator, Unary, Calls, Primary, BeginList, Parameter,
         ThrowParameter, NextElement, MakeList, BeginStmts, NextStmt, NextDeclaration,
         Calling, Looping, Doing
  <2> QED BY <1>2, <2>1 DEF Skip, AtEnd, Accept, Overrun
<1> QED BY <1>2, <1>3, <1>4, <1>5

LEMMA StepSpent ==
  ASSUME Cursor, LastEnds, Stacked, Spent, Held, source \in Sources, source' = source, Step
  PROVE  Spent'
<1> SUFFICES ASSUME status' = "parsing", ahead' = Past, read' # <<>>
             PROVE  todo' # <<>> /\ (Top' = Expect("kLeftParen") \/ Calling("throw")' \/ Top'.do = "skip")
  BY DEF Spent
<1>1. IsSeq(todo)
  BY DEF Held, Leads
<1>2. ahead # Past
  <2>1. CASE Advance \/ Discard
    BY <2>1 DEF Advance, Discard, Get
  <2>2. CASE UNCHANGED <<read, ahead>>
    BY <2>2, StopsPast
  <2> QED BY <2>1, <2>2, StepMoves DEF Moves, Throw
<1>3. ahead = Eof
  BY <1>2, StepLast
<1>4. CASE Throw
  <2> DEFINE it == Item("skip", "", "", 0)
  <2>1. todo' = <<it>> /\ it.do = "skip"
    BY <1>4 DEF Throw, Item
  <2> HIDE DEF it
  <2>2. <<it>> # <<>> /\ Head(<<it>>) = it
    OBVIOUS
  <2> QED BY <2>1, <2>2 DEF Top
<1>5. CASE TakeName
  <2>1. todo # <<>> /\ Top.do = "take" /\ Then(<<>>)
    BY <1>5 DEF TakeName, Doing
  <2>2. IsSeq(<<>>) /\ Len(<<>>) = 0
    BY EmptySeq DEF IsSeq
  <2>3. PICK S : todo \in Seq(S)
    BY <1>1 DEF IsSeq
  <2>4. Top = todo[1]
    BY <2>1, <2>3 DEF Top
  <2>5. Len(todo) > 1 /\ todo[2] = Expect("kLeftParen") /\ Len(todo) \in Nat
    BY <2>1, <2>3, <2>4, LenProperties DEF Stacked
  <2>6. todo' = Tail(todo)
    <3>1. Tail(todo) \in Seq(S)
      BY <2>1, <2>3, HeadTailProperties
    <3> QED BY <2>1, <3>1 DEF Then
  <2>7. todo' \in Seq(S) /\ Len(todo') = Len(todo) - 1 /\ todo'[1] = todo[2]
    BY <2>1, <2>3, <2>5, <2>6, HeadTailProperties
  <2>8. todo' # <<>> /\ Top' = todo'[1]
    BY <2>5, <2>7, EmptySeq DEF Top
  <2> QED BY <2>5, <2>7, <2>8
<1>6. CASE ~ Throw /\ Then(<<Call("throw")>>)
  <2> DEFINE it == Call("throw")
             t == Tail(todo)
  <2>1. it.do = "call" /\ it.what = "throw"
    BY DEF Call, Item
  <2>2. todo # <<>>
    BY <1>6, StepReplaces DEF Skip, Accept, Overrun, Doing
  <2>3. IsSeq(t)
    <3>1. PICK S : todo \in Seq(S)
      BY <1>1 DEF IsSeq
    <3> QED BY <2>2, <3>1, HeadTailProperties DEF IsSeq
  <2>4. todo' = <<it>> \o t
    BY <1>6 DEF Then
  <2> HIDE DEF it, t
  <2>5. todo' # <<>> /\ Head(todo') = it
    BY <2>3, <2>4, FirstAndRest
  <2> QED BY <2>1, <2>5 DEF Calling, Doing, Top
<1> QED BY <1>1, <1>2, <1>3, <1>4, <1>5, <1>6, EofTaken

-----------------------------------------------------------------------------
(* Statements are parsed up to the end.                                     *)

Program == source.policy = "kStatement"
IsParse(it) == it.do = "loop" /\ it.what = "parse"
\* The loop of parse() is left to do, or it has ended at the end.
Bottom ==
  status = "parsing" /\ Program =>
    \/ todo # <<>> /\ IsParse(todo[Len(todo)])
    \/ todo # <<>> /\ todo[1].do = "skip"
    \/ Len(todo) = 1 /\ todo[1].do = "loop" /\ todo[1].what = "end of list" /\ AtEnd
    \/ todo = <<>> /\ AtEnd

LEMMA LastStays ==
  ASSUME NEW t, IsSeq(t), Len(t) # 1, t # <<>>, NEW u, IsSeq(u)
  PROVE  LET s == u \o Tail(t) IN s # <<>> /\ s[Len(s)] = t[Len(t)]
<1> DEFINE s == u \o Tail(t)
<1>1. /\ IsSeq(s) /\ Len(u) \in Nat /\ Len(t) \in Nat \ {0} /\ Len(s) = Len(u) + Len(t) - 1
      /\ \A i \in 1 .. Len(s) : s[i] = IF i <= Len(u) THEN u[i] ELSE t[i - Len(u) + 1]
  BY Joined
<1> HIDE DEF s
<1>2. Len(s) \in 1 .. Len(s) /\ Len(s) # 0 /\ ~ (Len(s) <= Len(u)) /\ Len(s) - Len(u) + 1 = Len(t)
  <2> DEFINE k == Len(u)
             n == Len(t)
  <2>1. k \in Nat /\ n \in Nat \ {0} /\ n # 1 /\ Len(s) = k + n - 1
    BY <1>1
  <2> HIDE DEF k, n
  <2>2. Len(s) \in 1 .. Len(s) /\ Len(s) # 0 /\ ~ (Len(s) <= k) /\ Len(s) - k + 1 = n
    BY <2>1
  <2> QED BY <2>2 DEF k, n
<1>3. s # <<>>
  BY <1>2, EmptySeq
<1> QED BY <1>1, <1>2, <1>3 DEF s

LEMMA OneItem ==
  ASSUME NEW it
  PROVE  <<it>> # <<>> /\ Len(<<it>>) = 1 /\ <<it>>[1] = it /\ Head(<<it>>) = it
  OBVIOUS

LEMMA OneLeft ==
  ASSUME NEW t, IsSeq(t), Len(t) = 1
  PROVE  t # <<>> /\ Tail(t) = <<>> /\ Head(t) = t[1]
<1>1. PICK S : t \in Seq(S)
  BY DEF IsSeq
<1>2. t # <<>>
  <2>1. Len(<<>>) = 0
    BY EmptySeq
  <2> QED BY <2>1
<1>3. Tail(t) \in Seq(S) /\ Len(Tail(t)) = Len(t) - 1
  BY <1>1, <1>2, HeadTailProperties
<1>4. Tail(t) = <<>>
  <2> DEFINE r == Tail(t)
  <2>1. r \in Seq(S) /\ Len(r) = 0
    BY <1>3
  <2> HIDE DEF r
  <2>2. r = <<>>
    BY <2>1, EmptySeq
  <2> QED BY <2>2 DEF r
<1> QED BY <1>1, <1>2, <1>4

\* When one loop is left to do.
LEMMA LoopEnds ==
  ASSUME IsSeq(todo), Len(todo) = 1, todo[1].do = "loop", Step, status' = "parsing"
  PROVE  /\ IsParse(todo[1]) => NextDeclaration
         /\ todo[1].what = "end of list" => MakeList
<1>1. Top = todo[1] /\ todo # <<>>
  BY EmptySeq DEF Top, IsSeq
<1>2. Top.what \in {"parse", "end of list"} =>
        Top.what \notin Levels \cup {"calls", "get_args", "get_params", "get_stmts"}
  BY LevelSet
<1>3. ASSUME Top.what \in {"parse", "end of list"} PROVE NextDeclaration \/ MakeList \/ Accept \/ Overrun
  BY <1>1, <1>2, <1>3 DEF Step, Enter, Choose, Nothing, Want, Identifier, TakeName, Optional, Possible,
       MakeNode, Assigned, Target, Operator, Unary, Calls, Primary, BeginList, Parameter,
       ThrowParameter, NextElement, BeginStmts, NextStmt, Skip, Calling, Looping, Doing
<1>4. ~ Accept /\ ~ Overrun
  BY DEF Accept, Overrun
<1> QED BY <1>1, <1>3, <1>4 DEF IsParse, NextDeclaration, MakeList, Looping

LEMMA StepBottom ==
  ASSUME Cursor, Bottom, Held, source' = source, Step
  PROVE  Bottom'
<1> SUFFICES ASSUME status' = "parsing", Program PROVE Bottom'
  BY DEF Bottom, Program
<1>1. IsSeq(todo) /\ status = "parsing"
  BY StepParses DEF Held, Leads
<1>2. CASE Throw
  <2> DEFINE it == Item("skip", "", "", 0)
  <2>1. todo' = <<it>> /\ it.do = "skip"
    BY <1>2 DEF Throw, Item
  <2> HIDE DEF it
  <2> QED BY <2>1, OneItem DEF Bottom
<1>3. CASE Skip
  <2>1. todo' = todo /\ todo # <<>> /\ Top.do = "skip"
    BY <1>3 DEF Skip, Doing
  <2>2. Top = todo[1]
    BY <1>1 DEF Top, IsSeq
  <2> QED BY <2>1, <2>2 DEF Bottom
<1>4. CASE todo # <<>> /\ Len(todo) # 1 /\ Replaces
  <2>1. PICK u : IsSeq(u) /\ Then(u)
    BY <1>4 DEF Replaces
  <2>2. todo' # <<>> /\ todo'[Len(todo')] = todo[Len(todo)]
    BY <1>1, <1>4, <2>1, LastStays DEF Then
  <2>3. CASE IsParse(todo[Len(todo)])
    BY <2>2, <2>3 DEF Bottom
  <2>4. CASE todo[1].do = "skip"
    <3>1. Top.do = "skip"
      BY <1>1, <2>4 DEF Top, IsSeq
    <3>2. Skip \/ Accept \/ Overrun
      BY <3>1 DEF Step, Enter, Choose, Nothing, Want, Identifier, TakeName, Optional, Possible,
           MakeNode, Assigned, Target, Operator, Unary, Calls, Primary, BeginList, Parameter,
           ThrowParameter, NextElement, MakeList, BeginStmts, NextStmt, NextDeclaration,
           Calling, Looping, Doing
    <3> QED BY <1>3, <3>2 DEF Accept, Overrun
  <2> QED BY <1>1, <1>4, <2>3, <2>4 DEF Bottom
<1>5. CASE Len(todo) = 1 /\ IsParse(todo[1])
  <2>1. NextDeclaration
    BY <1>1, <1>5, LoopEnds DEF IsParse
  <2> DEFINE u1 == <<Loop("end of list", Top.n)>>
             u2 == <<Call("next_declaration"), Top>>
             none == Tail(todo)
  <2>2. Top = todo[1] /\ none = <<>>
    BY <1>1, <1>5, OneLeft DEF Top
  <2>3. (AtEnd /\ todo' = u1 \o none) \/ todo' = u2 \o none
    BY <2>1 DEF NextDeclaration, Then
  <2>4. AtEnd' = AtEnd
    BY <2>1 DEF NextDeclaration, AtEnd
  <2>5. CASE AtEnd /\ todo' = u1 \o none
    <3> DEFINE it == Loop("end of list", Top.n)
    <3>1. it.do = "loop" /\ it.what = "end of list"
      BY DEF Loop, Item
    <3>2. u1 \o <<>> = u1
      BY Cat
    <3>3. todo' = <<it>>
      BY <2>2, <2>5, <3>2
    <3> HIDE DEF it
    <3> QED BY <2>4, <2>5, <3>1, <3>3, OneItem DEF Bottom
  <2>6. CASE todo' = u2 \o none
    <3>1. u2 \o <<>> = u2 /\ Len(u2) = 2 /\ u2[2] = Top
      BY Cat, TupleSeqs
    <3>2. todo' = u2
      BY <2>2, <2>6, <3>1
    <3> HIDE DEF u2
    <3>3. Len(todo') = 2 /\ todo'[2] = Top
      BY <3>1, <3>2
    <3>4. todo' # <<>> /\ IsParse(todo'[2])
      BY <1>5, <2>2, <3>3, EmptySeq
    <3>5. IsParse(todo'[Len(todo')])
      BY <3>3, <3>4
    <3> QED BY <3>4, <3>5 DEF Bottom
  <2> QED BY <2>3, <2>5, <2>6
<1>6. CASE Len(todo) = 1 /\ todo[1].do = "loop" /\ todo[1].what = "end of list" /\ AtEnd
  <2>1. MakeList
    BY <1>1, <1>6, LoopEnds
  <2>2. todo' = <<>>
    BY <1>1, <1>6, <2>1, OneLeft, Cat DEF MakeList, Then
  <2>3. AtEnd' = AtEnd
    BY <2>1 DEF MakeList, AtEnd
  <2> QED BY <1>6, <2>2, <2>3 DEF Bottom
<1>7. CASE Len(todo) = 1 /\ todo[1].do = "skip"
  <2>1. Top.do = "skip"
    BY <1>1, <1>7 DEF Top, IsSeq
  <2>2. Skip \/ Accept \/ Overrun
    BY <2>1 DEF Step, Enter, Choose, Nothing, Want, Identifier, TakeName, Optional, Possible,
         MakeNode, Assigned, Target, Operator, Unary, Calls, Primary, BeginList, Parameter,
         ThrowParameter, NextElement, MakeList, BeginStmts, NextStmt, NextDeclaration,
         Calling, Looping, Doing
  <2> QED BY <1>3, <2>2 DEF Accept, Overrun
<1>8. ~ Accept /\ ~ Overrun
  BY DEF Accept, Overrun
<1>9. Len(todo) = 1 => \/ IsParse(todo[1]) \/ todo[1].do = "skip"
                       \/ todo[1].do = "loop" /\ todo[1].what = "end of list" /\ AtEnd
  <2> SUFFICES ASSUME Len(todo) = 1
               PROVE  \/ IsParse(todo[1]) \/ todo[1].do = "skip"
                      \/ todo[1].do = "loop" /\ todo[1].what = "end of list" /\ AtEnd
    OBVIOUS
  <2>1. todo # <<>>
    BY EmptySeq
  <2>2. todo[Len(todo)] = todo[1]
    OBVIOUS
  <2>3. \/ IsParse(todo[Len(todo)]) \/ todo[1].do = "skip"
        \/ todo[1].do = "loop" /\ todo[1].what = "end of list" /\ AtEnd
    BY <1>1, <2>1 DEF Bottom
  <2> HIDE DEF IsParse
  <2> QED BY <2>2, <2>3
<1> QED BY <1>2, <1>3, <1>4, <1>5, <1>6, <1>7, <1>8, <1>9, StepReplaces

-----------------------------------------------------------------------------
(* The invariant, and the theorems.                                         *)

Sourced == status # "new" => source \in Sources
\* A program that is accepted is followed by the end of file, but for no tokens at all.
AllTaken == status = "ok" /\ Program => AtEnd /\ (ahead = Past => read = <<>>)
Finishes == Sourced /\ LastEnds /\ Stacked /\ Spent /\ Bottom /\ AllTaken

LEMMA BeginsFinishing ==
  ASSUME Ending, NEW s \in Sources, SetViews(s)
  PROVE  Finishes'
<1> DEFINE it == IF s.policy = "kExpression" THEN Call("next_expression") ELSE Loop("parse", 0)
<1>1. /\ read' = <<>> /\ todo' = <<it>> /\ source' = s /\ ahead' \in After(s, 0)
      /\ status' = "parsing"
  BY DEF Ending, SetViews
<1>2. /\ it.do \in {"call", "loop"} /\ (s.policy = "kStatement" => IsParse(it))
  BY DEF Call, Loop, Item, IsParse
<1> HIDE DEF it
<1>3. Len(<<it>>) = 1 /\ <<it>>[1] = it /\ <<it>> # <<>> /\ Len(read') = 0
  BY <1>1, OneItem, EmptySeq
<1>4. LastEnds'
  <2>1. 0 + 1 = Len(s.kinds) => After(s, 0) \subseteq {Eof, Past}
    BY LastKinds
  <2> QED BY <1>1, <1>3, <2>1 DEF LastEnds, AtEnd
<1>5. Stacked'
  <2>1. \A i \in 1 .. 1 : i = 1
    OBVIOUS
  <2>2. \A i \in 2 .. 1 : FALSE
    OBVIOUS
  <2>3. Len(todo') = 1 /\ todo'[1] = it
    BY <1>1, <1>3
  <2> QED BY <1>2, <2>1, <2>2, <2>3 DEF Stacked
<1>6. Spent' /\ Sourced' /\ AllTaken'
  BY <1>1 DEF Spent, Sourced, AllTaken
<1>7. Bottom'
  <2>1. todo' # <<>> /\ todo'[Len(todo')] = it
    BY <1>1, <1>3
  <2>2. Program' => s.policy = "kStatement"
    BY <1>1 DEF Program
  <2> QED BY <1>2, <2>1, <2>2 DEF Bottom
<1> QED BY <1>4, <1>5, <1>6, <1>7 DEF Finishes

LEMMA StepFinishes ==
  ASSUME IInv, Finishes, Step, source' = source
  PROVE  Finishes'
<1>1. status = "parsing" /\ Cursor /\ Held
  BY StepParses DEF IInv
<1>2. source \in Sources /\ LastEnds /\ Stacked /\ Spent /\ Bottom
  BY <1>1 DEF Finishes, Sourced
<1>3. LastEnds' /\ Stacked' /\ Spent' /\ Bottom'
  BY <1>1, <1>2, StepLast, StepStacked, StepSpent, StepBottom
<1>4. Sourced'
  BY <1>2 DEF Sourced
<1>5. AllTaken'
  <2>1. CASE Accept
    <3>1. todo = <<>> /\ ahead' = ahead /\ read' = read
      BY <2>1 DEF Accept
    <3>2. ahead = Past => read = <<>>
      BY <1>1, <1>2, <3>1 DEF Spent
    <3>3. Program => AtEnd
      <4>1. Len(todo) = 0
        BY <3>1, EmptySeq
      <4> QED BY <1>1, <1>2, <3>1, <4>1 DEF Bottom
    <3> QED BY <3>1, <3>2, <3>3 DEF AllTaken, Program, AtEnd
  <2>2. CASE ~ Accept
    <3>1. status' # "ok"
      BY <1>1, <2>2, StepReplaces DEF Throw, Skip, Overrun
    <3> QED BY <3>1 DEF AllTaken
  <2> QED BY <2>1, <2>2
<1> QED BY <1>3, <1>4, <1>5 DEF Finishes

LEMMA AllFinishes == Spec => [](IInv /\ Keeping /\ Finishes)
<1>1. Init => Finishes
  <2> SUFFICES ASSUME Init PROVE Finishes
    OBVIOUS
  <2>1. Len(todo) = 0 /\ Len(read) = 0
    BY EmptySeq DEF Init
  <2> QED BY <2>1 DEF Init, Finishes, Sourced, LastEnds, AtEnd, Stacked, Spent, Bottom, AllTaken
<1>2. IInv /\ Finishes /\ [Next]_vars => Finishes'
  <2> SUFFICES ASSUME IInv, Finishes, [Next]_vars PROVE Finishes'
    OBVIOUS
  <2>1. CASE \E s \in Sources : SetViews(s)
    BY <2>1, BeginsFinishing DEF IInv
  <2>2. CASE Step /\ UNCHANGED source
    BY <2>2, StepFinishes
  <2>3. CASE UNCHANGED vars
    <3>1. Sourced' /\ LastEnds' /\ AllTaken'
      BY <2>3 DEF vars, Finishes, Sourced, LastEnds, AtEnd, AllTaken, Program
    <3>2. Stacked' /\ Spent' /\ Bottom'
      BY <2>3 DEF vars, Finishes, Stacked, Spent, Bottom, Program, AtEnd, Top, Calling, Doing
    <3> QED BY <3>1, <3>2 DEF Finishes
  <2> QED BY <2>1, <2>2, <2>3 DEF Next, Ended
<1> QED BY <1>1, <1>2, AllKept, PTL DEF Spec

LEMMA WholeDerived ==
  ASSUME DerivesLaw, NEW n, NEW u \in Words, Rewrites(<<n>>, <<>>, u)
  PROVE  Derives(<<n>>, u, TRUE)
<1>1. IsSeq(<<>>) /\ <<>> \in Words /\ <<>> \o <<>> = <<>> /\ <<n>> \o <<>> = <<n>> /\ u \o <<>> = u
  BY Cat, WordsCat
<1>2. Derives(<<>>, <<>>, TRUE) = DerivesBy(<<>>, <<>>, TRUE, Derives)
  BY <1>1, Unfolds
<1>3. DerivesBy(<<>>, <<>>, TRUE, Derives)
  BY DEF DerivesBy
<1>4. Derives(<<>> \o <<>>, <<>>, TRUE)
  BY <1>1, <1>2, <1>3
<1>5. Derives(<<n>> \o <<>>, u \o <<>>, TRUE)
  BY <1>1, <1>4 DEF Rewrites
<1> QED BY <1>1, <1>5

LEMMA ProgramDerived ==
  ASSUME DerivesLaw, NEW u \in Words, Rewrites(<<"declarations">>, <<>>, u)
  PROVE  Derives(<<"program">>, u \o <<Eof>>, TRUE)
<1>1. Rule("program", <<"declarations", Eof>>)
  BY DEF Rule, Grammar
<1>2. IsSeq(<<"declarations">>) /\ Eof \in Tokens /\ IsSeq(<<"declarations", Eof>>)
  BY Cat, TupleSeqs DEF Tokens
<1>3. Rewrites(<<"declarations">> \o <<Eof>>, <<>>, u \o <<Eof>>)
  BY <1>2, AndToken
<1>4. <<"declarations">> \o <<Eof>> = <<"declarations", Eof>> /\ u \o <<Eof>> \in Words
  BY <1>2, Tuples, WordsCat
<1>5. Rewrites(<<"declarations", Eof>>, <<>>, u \o <<Eof>>)
  BY <1>3, <1>4
<1>6. Rewrites(<<"program">>, <<>>, u \o <<Eof>>)
  BY <1>1, <1>2, <1>4, <1>5, Applied
<1> QED BY <1>4, <1>6, WholeDerived

\* Whatever parse() accepts is a program, or an expression, of the README's grammar,
\* but for the name of a function, which function_decl does not look at.
THEOREM AcceptedAreDerived ==
  ASSUME DerivesLaw
  PROVE  Spec => []AcceptedIsDerived
<1>1. IInv /\ Keeping /\ Finishes => AcceptedIsDerived
  <2> SUFFICES ASSUME IInv, Keeping, Finishes, status = "ok", Parsed # <<>>
               PROVE  Derives(Start, Parsed, TRUE)
    BY DEF AcceptedIsDerived
  <2>1. Is(Goal, built[1], read) /\ Goal \in Symbols
    BY DEF Keeping, Goal, Symbols
  <2>2. read \in Words /\ IsSeq(read)
    BY <2>1, IsWord
  <2> HIDE DEF Goal
  <2>3. Rewrites(<<Goal>>, <<>>, read)
    BY <2>1, DerivedFrom
  <2>4. CASE Program
    <3>1. Goal = "declarations" /\ Start = <<"program">>
      BY <2>4 DEF Goal, Start, Program
    <3>2. ahead = Eof
      BY <2>4 DEF Finishes, AllTaken, AtEnd, Parsed, Eof, Past
    <3>3. Parsed = read \o <<Eof>>
      BY <2>2, <2>4, <3>2, Cat DEF Parsed, Program
    <3>4. Rewrites(<<"declarations">>, <<>>, read)
      BY <2>3, <3>1
    <3>5. Derives(<<"program">>, read \o <<Eof>>, TRUE)
      BY <2>2, <3>4, ProgramDerived
    <3> QED BY <3>1, <3>3, <3>5
  <2>5. CASE ~ Program
    <3>1. Goal = "expression" /\ Start = <<"expression">> /\ Parsed = read
      BY <2>5 DEF Goal, Start, Program, Parsed
    <3>2. Rewrites(<<"expression">>, <<>>, read)
      BY <2>3, <3>1
    <3>3. Derives(<<"expression">>, read, TRUE)
      BY <2>2, <3>2, WholeDerived
    <3> QED BY <3>1, <3>3
  <2> QED BY <2>4, <2>5
<1> QED BY <1>1, AllFinishes, PTL
=============================================================================
