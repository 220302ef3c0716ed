----------------------------- MODULE ParserProofs -----------------------------
(***************************************************************************)
(* Proofs about Parser: its type invariant and what the grammar asks of its *)
(* nodes (TreeRules), for sources of any length, any nesting and any        *)
(* MaxList.                                                                 *)
(*                                                                         *)
(* None of it is inductive: it depends on what each item of `todo` takes    *)
(* off `built` and puts there.  The invariant says that `built` will have,  *)
(* before each item, a height that the item can work from and on it nodes   *)
(* of the sorts that the item wants, and one node in the end; and where an  *)
(* `or` or an `else` matters, which items stand under which, and which      *)
(* token is ahead.                                                          *)
(***************************************************************************)
EXTENDS TreeRules, SequenceTheorems, TLAPS

-----------------------------------------------------------------------------
(* Sorts of nodes.                                                          *)

\* Open obeys its equation, and says so of this node: nothing is known of Open
\* where it does not.
IsOpen(node) == OpenLaw /\ Open(node)

\* what the rules ask about a node
Kind(node) == [what |-> node.what, strength |-> Strength(node), open |-> IsOpen(node)]

\* the nodes that may be open, and those that never are
Outer == {"If", "While", "For"}

Expressions ==
  {"Literal", "Variable", "Grouping", "Unary", "Binary", "Logical", "Assignment", "Call"}

\* A sort is a set of kinds: the expressions that bind at least that tightly, the
\* statements, those that are not open, what is called by one name, what is
\* made of an operator, and what may begin a for.
Expr(k) == [what : Expressions, strength : k .. 8, open : {FALSE}]
Stmt == [what : Statements, strength : {8}, open : BOOLEAN]
Closed == [what : Statements, strength : {8}, open : {FALSE}]
Only(what) == [what : {what}, strength : {8}, open : {FALSE}]
Made(what, op) ==
  [what : {what}, strength : {Strength(Node(what, op, <<>>))},
   open : IF what \in Outer THEN BOOLEAN ELSE {FALSE}]
Maybe(sort) == sort \cup Only("null")
First == Maybe(Only("Var") \cup Only("Expression"))

\* A layout is a height and the sort at each place up to there.
Push(x, sort) ==
  [h |-> x.h + 1, at |-> [p \in 1 .. x.h + 1 |-> IF p = x.h + 1 THEN sort ELSE x.at[p]]]

Same(x, y, n) == \A p \in 1 .. n : y.at[p] = x.at[p]

\* The last n nodes turn into one of a sort.
Turns(x, y, n, sort) ==
  /\ x.h >= n /\ y.h = x.h - n + 1
  /\ Same(x, y, x.h - n)
  /\ sort \subseteq y.at[y.h]

\* Nodes of this layout.
Fits(b, x) == x.h = Len(b) /\ \A p \in 1 .. Len(b) : Kind(b[p]) \in x.at[p]

-----------------------------------------------------------------------------
(* Items.                                                                   *)

\* The functions that leave one node more than they find, and of which sort; the
\* one that only throws leaves whatever is wanted.
StmtFunctions == {"next_statement", "print_stmt", "block_stmt", "if_stmt", "while_stmt",
                  "for_stmt", "return_stmt", "expr_stmt"}
ListFunctions == {"get_args", "get_params", "get_stmts"}
Functions == DOMAIN Body \cup Levels \cup DOMAIN Chooses \cup ListFunctions
               \cup {"nothing", "identifier", "unary", "primary", "parameter", "throw"}
Result(f) ==
  CASE f \in {"next_expression", "assignment", "get_condition"} -> Expr(0)
    [] f \in Levels                        -> Expr(Rank[f])
    [] f = "unary"                         -> Expr(7)
    [] f \in {"call", "primary"}           -> Expr(8)
    [] f = "expr_stmt"                     -> Only("Expression")
    [] f \in StmtFunctions \ {"expr_stmt"} -> Stmt
    [] f = "var_decl"                      -> Only("Var")
    [] f = "function_decl"                 -> Only("Function")
    [] f = "next_declaration"              -> Stmt \cup Only("Var") \cup Only("Function")
    [] f = "initializer"                   -> First
    [] f = "nothing"                       -> Only("null")
    [] f \in {"identifier", "parameter"}   -> Only("Token")
    [] f \in ListFunctions                 -> Only("list")
    [] f = "throw"                         -> {}

\* The loops that gather what was built since they began, and those that only
\* replace the node they find.
Lists == ListFunctions \cup {"parse", "end of list"}
Repeats == Levels \cup {"calls"}
Operands(l) == IF l = "calls" THEN Expr(8) ELSE Expr(Rank[l])

\* The nodes that Arity knows, and how many children each takes.
Nodes == {"Grouping", "Unary", "Return", "Print", "Expression", "Block", "Binary", "Logical",
          "Assignment", "Call", "Var", "While", "Function", "If", "For"}

ItemOK(it) ==
  \/ it.do = "call" /\ it.what \in Functions \cup {"assigned?", "assigned!"} /\ it.n = 0
  \/ it.do \in {"expect", "take", "opt", "unless", "skip"} /\ it.n = 0
  \/ it.do = "loop" /\ it.what \in Lists /\ it.n \in Nat
  \/ it.do = "loop" /\ it.what \in Repeats /\ it.n = 0
  \/ it.do = "make" /\ it.what \in Nodes /\ it.n = 0

\* The children of a node, which are after place k, are of the sorts it may have.
Suit(what, op, sorts, k) ==
  /\ what = "Grouping" => sorts[k + 1] \subseteq Expr(0)
  /\ what = "Unary" => sorts[k + 1] \subseteq Expr(7)
  /\ what \in {"Binary", "Logical"} =>
       \E l \in Levels :
         /\ op \in Ops[l] /\ what = OpNode(l)
         /\ sorts[k + 1] \subseteq Expr(IF l = "logical_or" THEN 2 ELSE Rank[l])
         /\ sorts[k + 2] \subseteq Expr(IF l = "logical_or" THEN 1 ELSE Rank[l] + 1)
  /\ what = "Assignment" =>
       /\ \A kind \in sorts[k + 1] : kind.what = "Variable"
       /\ sorts[k + 2] \subseteq Expr(0)
  /\ what = "Call" => sorts[k + 1] \subseteq Expr(8)
  /\ what = "If" =>
       /\ sorts[k + 1] \subseteq Expr(0) /\ sorts[k + 2] \subseteq Stmt /\ sorts[k + 3] \subseteq Maybe(Stmt)
       /\ sorts[k + 2] \subseteq Closed \/ sorts[k + 3] \subseteq Only("null")
  /\ what = "While" => sorts[k + 1] \subseteq Expr(0) /\ sorts[k + 2] \subseteq Stmt
  /\ what = "For" =>
       /\ sorts[k + 1] \subseteq First /\ sorts[k + 2] \subseteq Maybe(Expr(0))
       /\ sorts[k + 3] \subseteq Maybe(Expr(0)) /\ sorts[k + 4] \subseteq Stmt

\* An item takes `built` from layout x to layout y.
Takes(it, x, y) ==
  /\ it.do = "call" /\ it.what \in Functions => Turns(x, y, 0, Result(it.what))
  /\ it.do = "call" /\ it.what = "assigned?" =>
       x.h >= 1 /\ x.at[x.h] \subseteq Expr(0) /\ Turns(x, y, 1, Expr(0))
  /\ it.do = "call" /\ it.what = "assigned!" =>
       x.h >= 2 /\ x.at[x.h] \subseteq Expr(0) /\ Turns(x, y, 2, Expr(0))
  /\ it.do = "expect" => y.h = x.h /\ Same(x, y, x.h)
  /\ it.do = "take" => Turns(x, y, 0, Only("Token"))
  /\ it.do = "unless" \/ (it.do = "opt" /\ it.kind # "kElse") => Turns(x, y, 0, Maybe(Expr(0)))
  /\ it.do = "opt" /\ it.kind = "kElse" =>
       /\ x.h >= 1 /\ x.at[x.h] \subseteq Stmt
       /\ y.h = x.h + 1 /\ Same(x, y, x.h - 1)
       /\ y.at[x.h] = Closed /\ y.at[y.h] = Maybe(Stmt)
  /\ it.do = "loop" /\ it.what \in Lists =>
       /\ x.h >= it.n /\ y.h = it.n + 1 /\ Same(x, y, it.n)
       /\ Only("list") \subseteq y.at[y.h]
  /\ it.do = "loop" /\ it.what \in Repeats =>
       x.h >= 1 /\ x.at[x.h] \subseteq Operands(it.what) /\ Turns(x, y, 1, Operands(it.what))
  /\ it.do = "make" =>
       LET n == Arity(it.what) IN
       Turns(x, y, n, Made(it.what, it.kind)) /\ Suit(it.what, it.kind, x.at, x.h - n)
  /\ it.do = "skip" => y.h = 1

\* g gives the layout before each item of s, and after the last.  No item began
\* above a height that is still to come before it.
Through(s, g) ==
  /\ \A i \in 1 .. Len(s) + 1 : g[i].h \in Nat
  /\ \A i \in 1 .. Len(s) :
       /\ Takes(s[i], g[i], g[i + 1])
       /\ \A j \in 1 .. i : s[i].n <= g[j].h

\* From layout x the items of s leave one node.
IsSeq(s) == \E S : s \in Seq(S)
Leads(s, x) ==
  /\ IsSeq(s) /\ \A i \in 1 .. Len(s) : ItemOK(s[i])
  /\ \E g : Through(s, g) /\ g[1] = x /\ g[Len(s) + 1].h = 1

LEMMA Distinct ==
  /\ {"assigned?", "assigned!"} \cap Functions = {} /\ Lists \cap Repeats = {}
  BY DEF Functions, Body, Levels, Ops, Chooses, Lists, ListFunctions, Repeats

LEMMA Arities ==
  /\ \A node \in {"Grouping", "Unary", "Return", "Print", "Expression", "Block"} : Arity(node) = 1
  /\ \A node \in {"Binary", "Logical", "Assignment", "Call", "Var", "While"} : Arity(node) = 2
  /\ \A node \in {"Function", "If"} : Arity(node) = 3
  /\ Arity("For") = 4
  /\ \A node \in Nodes : Arity(node) \in 1 .. 4
  BY DEF Arity, Nodes

-----------------------------------------------------------------------------
(* The stack of items.                                                      *)

\* A sequence put before the rest of another.
LEMMA Joined ==
  ASSUME NEW u, IsSeq(u), NEW t, IsSeq(t), t # <<>>
  PROVE  LET s == u \o Tail(t)
         IN  /\ IsSeq(s) /\ Len(u) \in Nat /\ Len(t) \in Nat \ {0}
             /\ Len(s) = Len(u) + Len(t) - 1
             /\ \A i \in 1 .. Len(s) : s[i] = IF i <= Len(u) THEN u[i] ELSE t[i - Len(u) + 1]
<1>1. PICK U, T : u \in Seq(U) /\ t \in Seq(T)
  BY DEF IsSeq
<1> DEFINE S == U \cup T
           r == Tail(t)
           s == u \o r
<1>2. u \in Seq(S) /\ t \in Seq(S)
  BY <1>1, SeqMonotonic
<1>3. /\ r \in Seq(S) /\ Len(r) = Len(t) - 1
      /\ \A i \in 1 .. Len(r) : r[i] = t[i + 1]
  BY <1>2, HeadTailProperties
<1>4. Len(u) \in Nat /\ Len(t) \in Nat /\ Len(t) # 0
  BY <1>2, LenProperties, EmptySeq
<1> HIDE DEF r, S
<1>5. /\ s \in Seq(S) /\ Len(s) = Len(u) + Len(r)
      /\ \A i \in 1 .. Len(u) + Len(r) : s[i] = IF i <= Len(u) THEN u[i] ELSE r[i - Len(u)]
  BY <1>2, <1>3, ConcatProperties
<1> HIDE DEF s
<1>6. ASSUME NEW i \in 1 .. Len(s)
      PROVE  s[i] = IF i <= Len(u) THEN u[i] ELSE t[i - Len(u) + 1]
  <2>1. CASE i <= Len(u)
    BY <1>3, <1>4, <1>5, <2>1
  <2>2. CASE ~ (i <= Len(u))
    <3>1. i - Len(u) \in 1 .. Len(r)
      BY <1>3, <1>4, <1>5, <2>2
    <3> QED BY <1>3, <1>4, <1>5, <2>2, <3>1
  <2> QED BY <2>1, <2>2
<1>7. IsSeq(s) /\ Len(s) = Len(u) + Len(t) - 1
  BY <1>3, <1>4, <1>5 DEF IsSeq
<1> QED BY <1>4, <1>6, <1>7 DEF s, r

\* The first item gives way to items that lead where it would have led, and
\* never take `built` lower than it stands now or will stand then.
LEMMA Replaced ==
  ASSUME NEW t, IsSeq(t), t # <<>>, \A i \in 1 .. Len(t) : ItemOK(t[i]),
         NEW g, Through(t, g), g[Len(t) + 1].h = 1,
         NEW u, IsSeq(u), \A i \in 1 .. Len(u) : ItemOK(u[i]),
         NEW q, Through(u, q), q[Len(u) + 1] = g[2],
         \A i \in 1 .. Len(u) + 1 : q[i].h >= g[1].h \/ q[i].h >= g[2].h
  PROVE  Leads(u \o Tail(t), q[1])
<1> DEFINE s == u \o Tail(t)
           k == Len(u)
           n == Len(t)
           G == [i \in 1 .. Len(s) + 1 |-> IF i <= k THEN q[i] ELSE g[i - k + 1]]
<1>1. /\ IsSeq(s) /\ k \in Nat /\ n \in Nat \ {0} /\ Len(s) = k + n - 1
      /\ \A i \in 1 .. Len(s) : s[i] = IF i <= k THEN u[i] ELSE t[i - k + 1]
  BY Joined
<1> HIDE DEF s
<1>2. /\ \A i \in 1 .. Len(s) : i <= k => i \in 1 .. k /\ s[i] = u[i]
      /\ \A i \in 1 .. Len(s) : ~ (i <= k) => i - k + 1 \in 2 .. n /\ s[i] = t[i - k + 1]
  BY <1>1
<1>3. /\ \A i \in 1 .. k + 1 : q[i].h \in Nat
      /\ \A i \in 1 .. n + 1 : g[i].h \in Nat
      /\ \A i \in 1 .. k : Takes(u[i], q[i], q[i + 1]) /\ \A j \in 1 .. i : u[i].n <= q[j].h
      /\ \A i \in 1 .. n : Takes(t[i], g[i], g[i + 1]) /\ \A j \in 1 .. i : t[i].n <= g[j].h
  BY DEF Through
<1>4. ASSUME NEW i \in 1 .. Len(s) PROVE ItemOK(s[i])
  <2>1. CASE i <= k
    <3>1. i \in 1 .. k /\ s[i] = u[i]
      BY <1>2, <2>1
    <3> QED BY <3>1
  <2>2. CASE ~ (i <= k)
    <3> DEFINE m == i - k + 1
    <3>1. m \in 1 .. n /\ s[i] = t[m]
      BY <1>1, <1>2, <2>2
    <3> HIDE DEF m
    <3> QED BY <3>1
  <2> QED BY <2>1, <2>2
<1>5. /\ \A i \in 1 .. k + 1 : G[i] = q[i]
      /\ \A i \in k + 1 .. Len(s) + 1 : G[i] = g[i - k + 1]
  <2>1. G[k + 1] = g[2] /\ \A i \in 1 .. k : G[i] = q[i]
    BY <1>1
  <2> QED BY <1>1, <2>1
<1> HIDE DEF G
<1>6. ASSUME NEW i \in 1 .. Len(s) + 1 PROVE G[i].h \in Nat
  <2>1. CASE i <= k
    <3>1. i \in 1 .. k + 1
      BY <1>1, <2>1
    <3> QED BY <1>3, <1>5, <3>1
  <2>2. CASE ~ (i <= k)
    <3>1. i - k + 1 \in 1 .. n + 1 /\ i \in k + 1 .. Len(s) + 1
      BY <1>1, <2>2
    <3>2. G[i] = g[i - k + 1]
      BY <1>5, <3>1
    <3> QED BY <1>3, <3>1, <3>2
  <2> QED BY <2>1, <2>2
<1>7. ASSUME NEW i \in 1 .. Len(s)
      PROVE  Takes(s[i], G[i], G[i + 1]) /\ \A j \in 1 .. i : s[i].n <= G[j].h
  <2>1. CASE i <= k
    <3>1. i \in 1 .. k /\ s[i] = u[i] /\ i \in 1 .. k + 1 /\ i + 1 \in 1 .. k + 1
      BY <1>1, <1>2, <2>1
    <3>2. \A j \in 1 .. i : G[j] = q[j]
      BY <1>1, <1>5, <2>1
    <3>3. G[i] = q[i] /\ G[i + 1] = q[i + 1]
      BY <1>5, <3>1
    <3> QED BY <1>3, <3>1, <3>2, <3>3
  <2>2. CASE ~ (i <= k)
    <3> DEFINE m == i - k + 1
    <3>1. m \in 2 .. n /\ m \in 1 .. n /\ s[i] = t[m]
      BY <1>1, <1>2, <2>2
    <3>2. G[i] = g[m] /\ G[i + 1] = g[m + 1]
      <4>1. i \in k + 1 .. Len(s) + 1 /\ i + 1 \in k + 1 .. Len(s) + 1 /\ (i + 1) - k + 1 = m + 1
        BY <1>1, <2>2
      <4> QED BY <1>5, <4>1
    <3>3. ASSUME NEW j \in 1 .. i PROVE t[m].n <= G[j].h
      <4>1. CASE j <= k
        <5>1. j \in 1 .. k + 1 /\ G[j] = q[j]
          BY <1>1, <1>5, <4>1
        <5>2. 1 \in 1 .. m /\ 2 \in 1 .. m /\ 1 \in 1 .. n + 1 /\ 2 \in 1 .. n + 1
          BY <3>1
        <5>3. t[m].n <= g[1].h /\ t[m].n <= g[2].h
          BY <1>3, <3>1, <5>2
        <5>4. t[m].n \in Nat /\ g[1].h \in Nat /\ g[2].h \in Nat /\ q[j].h \in Nat
          <6>1. ItemOK(t[m])
            BY <3>1
          <6>2. t[m].n \in Nat
            BY <6>1 DEF ItemOK
          <6> QED BY <1>3, <5>1, <5>2, <6>2
        <5>5. q[j].h >= g[1].h \/ q[j].h >= g[2].h
          BY <5>1
        <5> HIDE DEF m
        <5> QED BY <5>1, <5>3, <5>4, <5>5
      <4>2. CASE ~ (j <= k)
        <5>1. j - k + 1 \in 1 .. m /\ G[j] = g[j - k + 1]
          BY <1>1, <1>5, <4>2
        <5> QED BY <1>3, <3>1, <5>1
      <4> QED BY <4>1, <4>2
    <3> QED BY <1>3, <3>1, <3>2, <3>3
  <2> QED BY <2>1, <2>2
<1>8. Through(s, G)
  BY <1>6, <1>7 DEF Through
<1>9. G[1] = q[1] /\ G[Len(s) + 1].h = 1
  <2>1. 1 \in 1 .. k + 1 /\ Len(s) + 1 \in k + 1 .. Len(s) + 1 /\ Len(s) + 1 - k + 1 = n + 1
    BY <1>1
  <2> QED BY <1>5, <2>1
<1> QED BY <1>1, <1>4, <1>8, <1>9 DEF Leads, s

-----------------------------------------------------------------------------
(* What an item gives way to.                                               *)

\* The item takes it from layout x to layout y, above m.
Lifts(it, x, y, m) ==
  /\ ItemOK(it) /\ Takes(it, x, y)
  /\ x.h \in Nat /\ y.h \in Nat /\ it.n <= m /\ m <= x.h /\ m <= y.h

\* The items u take it from x to y and never below both.
Runs(u, x, y) ==
  /\ IsSeq(u) /\ \A i \in 1 .. Len(u) : ItemOK(u[i])
  /\ \E q : /\ Through(u, q) /\ q[1] = x /\ q[Len(u) + 1] = y
            /\ \A i \in 1 .. Len(u) + 1 : q[i].h >= x.h \/ q[i].h >= y.h

LEMMA Pushed ==
  ASSUME NEW x, x.h \in Nat, NEW sort
  PROVE  LET y == Push(x, sort)
         IN  /\ y.h = x.h + 1 /\ y.h \in Nat
             /\ \A p \in 1 .. x.h : y.at[p] = x.at[p]
             /\ y.at[x.h + 1] = sort
             /\ Same(x, y, x.h) /\ Turns(x, y, 0, sort)
<1> DEFINE y == Push(x, sort)
<1>1. y.h = x.h + 1 /\ y.h \in Nat
  BY DEF Push
<1>2. \A p \in 1 .. x.h : y.at[p] = x.at[p]
  BY DEF Push
<1>3. y.at[x.h + 1] = sort
  BY DEF Push
<1> HIDE DEF y
<1>4. Same(x, y, x.h) /\ x.h - 0 = x.h /\ x.h - 0 + 1 = x.h + 1
  BY <1>2 DEF Same
<1>5. Turns(x, y, 0, sort)
  BY <1>1, <1>3, <1>4 DEF Turns
<1> QED BY <1>1, <1>2, <1>3, <1>4, <1>5 DEF y


\* What the kinds of items take it from, and to.
LEMMA CallSteps ==
  ASSUME NEW x, x.h \in Nat, NEW m \in Nat, m <= x.h, NEW y
  PROVE  /\ \A f \in Functions : Turns(x, y, 0, Result(f)) => Lifts(Call(f), x, y, m)
         /\ x.h >= 1 /\ x.at[x.h] \subseteq Expr(0) /\ Turns(x, y, 1, Expr(0))
              => Lifts(Call("assigned?"), x, y, m)
         /\ x.h >= 2 /\ x.at[x.h] \subseteq Expr(0) /\ Turns(x, y, 2, Expr(0)) /\ m <= x.h - 1
              => Lifts(Call("assigned!"), x, y, m)
<1>1. ASSUME NEW f \in Functions, Turns(x, y, 0, Result(f)) PROVE Lifts(Call(f), x, y, m)
  <2>1. /\ Call(f).do = "call" /\ Call(f).what = f /\ Call(f).n = 0
        /\ f # "assigned?" /\ f # "assigned!"
    BY Distinct DEF Call, Item
  <2>2. ItemOK(Call(f)) /\ Takes(Call(f), x, y)
    BY <1>1, <2>1 DEF ItemOK, Takes
  <2>3. y.h = x.h + 1
    BY <1>1 DEF Turns
  <2> QED BY <2>1, <2>2, <2>3 DEF Lifts
<1>2. ASSUME x.h >= 1, x.at[x.h] \subseteq Expr(0), Turns(x, y, 1, Expr(0))
      PROVE  Lifts(Call("assigned?"), x, y, m)
  <2>1. /\ Call("assigned?").do = "call" /\ Call("assigned?").what = "assigned?"
        /\ Call("assigned?").n = 0 /\ "assigned?" \notin Functions
    BY Distinct DEF Call, Item
  <2>2. ItemOK(Call("assigned?")) /\ Takes(Call("assigned?"), x, y)
    BY <1>2, <2>1 DEF ItemOK, Takes
  <2>3. y.h = x.h
    BY <1>2 DEF Turns
  <2> QED BY <2>1, <2>2, <2>3 DEF Lifts
<1>3. ASSUME x.h >= 2, x.at[x.h] \subseteq Expr(0), Turns(x, y, 2, Expr(0)), m <= x.h - 1
      PROVE  Lifts(Call("assigned!"), x, y, m)
  <2>1. /\ Call("assigned!").do = "call" /\ Call("assigned!").what = "assigned!"
        /\ Call("assigned!").n = 0 /\ "assigned!" \notin Functions
    BY Distinct DEF Call, Item
  <2>2. ItemOK(Call("assigned!")) /\ Takes(Call("assigned!"), x, y)
    BY <1>3, <2>1 DEF ItemOK, Takes
  <2>3. y.h = x.h - 1
    BY <1>3 DEF Turns
  <2> QED BY <1>3, <2>1, <2>2, <2>3 DEF Lifts
<1> QED BY <1>1, <1>2, <1>3

LEMMA CallStep ==
  ASSUME NEW x, x.h \in Nat, NEW m \in Nat, m <= x.h, NEW y, NEW f \in Functions,
         NEW sort, sort = Result(f), Turns(x, y, 0, sort)
  PROVE  Lifts(Call(f), x, y, m)
  BY CallSteps

LEMMA TokenSteps ==
  ASSUME NEW x, x.h \in Nat, NEW m \in Nat, m <= x.h, NEW y, NEW k
  PROVE  /\ Lifts(Expect(k), x, x, m)
         /\ y.h = x.h /\ Same(x, y, x.h) => Lifts(Expect(k), x, y, m)
         /\ Turns(x, y, 0, Maybe(Expr(0))) => Lifts(Unless(k), x, y, m)
         /\ k # "kElse" /\ Turns(x, y, 0, Maybe(Expr(0))) => Lifts(Opt(k), x, y, m)
         /\ (/\ x.h >= 1 /\ x.at[x.h] \subseteq Stmt /\ y.h = x.h + 1 /\ Same(x, y, x.h - 1)
             /\ y.at[x.h] = Closed /\ y.at[y.h] = Maybe(Stmt))
              => Lifts(Opt("kElse"), x, y, m)
<1>1. ASSUME NEW z, z.h = x.h, Same(x, z, x.h) PROVE Lifts(Expect(k), x, z, m)
  BY <1>1 DEF Expect, Item, ItemOK, Takes, Lifts
<1>2. Same(x, x, x.h)
  BY DEF Same
<1>4. ASSUME Turns(x, y, 0, Maybe(Expr(0)))
      PROVE  Lifts(Unless(k), x, y, m) /\ (k # "kElse" => Lifts(Opt(k), x, y, m))
  <2>1. y.h = x.h + 1
    BY <1>4 DEF Turns
  <2> QED BY <1>4, <2>1 DEF Unless, Opt, Item, ItemOK, Takes, Lifts
<1>5. ASSUME x.h >= 1, x.at[x.h] \subseteq Stmt, y.h = x.h + 1, Same(x, y, x.h - 1),
             y.at[x.h] = Closed, y.at[y.h] = Maybe(Stmt)
      PROVE  Lifts(Opt("kElse"), x, y, m)
  BY <1>5 DEF Opt, Item, ItemOK, Takes, Lifts
<1> QED BY <1>1, <1>2, <1>4, <1>5

LEMMA TakeStep ==
  ASSUME NEW x, x.h \in Nat, NEW m \in Nat, m <= x.h, NEW y, Turns(x, y, 0, Only("Token"))
  PROVE  Lifts(Take, x, y, m)
<1>1. y.h = x.h + 1
  BY DEF Turns
<1> QED BY <1>1 DEF Take, Item, ItemOK, Takes, Lifts

LEMMA LoopSteps ==
  ASSUME NEW x, x.h \in Nat, NEW m \in Nat, m <= x.h, NEW y
  PROVE  /\ \A l \in Lists, n \in Nat :
              (/\ n <= m /\ m <= n + 1 /\ y.h = n + 1 /\ Same(x, y, n)
               /\ Only("list") \subseteq y.at[y.h])
                => Lifts(Loop(l, n), x, y, m)
         /\ \A l \in Repeats :
              x.h >= 1 /\ x.at[x.h] \subseteq Operands(l) /\ Turns(x, y, 1, Operands(l))
                => Lifts(Loop(l, 0), x, y, m)
<1>1. ASSUME NEW l \in Lists, NEW n \in Nat, n <= m, m <= n + 1, y.h = n + 1, Same(x, y, n),
             Only("list") \subseteq y.at[y.h]
      PROVE  Lifts(Loop(l, n), x, y, m)
  <2>1. Loop(l, n).do = "loop" /\ Loop(l, n).what = l /\ Loop(l, n).n = n /\ l \notin Repeats
    BY Distinct DEF Loop, Item
  <2>2. x.h >= n
    BY <1>1
  <2>3. ItemOK(Loop(l, n)) /\ Takes(Loop(l, n), x, y)
    BY <1>1, <2>1, <2>2 DEF ItemOK, Takes
  <2> QED BY <1>1, <2>1, <2>3 DEF Lifts
<1>2. ASSUME NEW l \in Repeats, x.h >= 1, x.at[x.h] \subseteq Operands(l),
             Turns(x, y, 1, Operands(l))
      PROVE  Lifts(Loop(l, 0), x, y, m)
  <2>1. Loop(l, 0).do = "loop" /\ Loop(l, 0).what = l /\ Loop(l, 0).n = 0 /\ l \notin Lists
    BY Distinct DEF Loop, Item
  <2>2. y.h = x.h
    BY <1>2 DEF Turns
  <2>3. ItemOK(Loop(l, 0)) /\ Takes(Loop(l, 0), x, y)
    BY <1>2, <2>1 DEF ItemOK, Takes
  <2> QED BY <2>1, <2>2, <2>3 DEF Lifts
<1> QED BY <1>1, <1>2

LEMMA MakeSteps ==
  ASSUME NEW x, x.h \in Nat, NEW m \in Nat, m <= x.h, NEW y, NEW node \in Nodes, NEW op,
         NEW n, n = Arity(node), m <= x.h - n + 1,
         Turns(x, y, n, Made(node, op)), Suit(node, op, x.at, x.h - n)
  PROVE  Lifts(Make(node, op), x, y, m)
<1>1. /\ Make(node, op).do = "make" /\ Make(node, op).what = node /\ Make(node, op).kind = op
      /\ Make(node, op).n = 0
  BY DEF Make, Item
<1>2. ItemOK(Make(node, op)) /\ Takes(Make(node, op), x, y)
  BY <1>1 DEF ItemOK, Takes
<1>3. n \in 1 .. 4 /\ y.h = x.h - n + 1 /\ x.h >= n
  BY Arities DEF Turns
<1> QED BY <1>1, <1>2, <1>3 DEF Lifts

\* What turns into a node of a sort, seen from where its children have been put.
LEMMA TurnsAfter ==
  ASSUME NEW x, x.h \in Nat, NEW y, NEW sort, Turns(x, y, 0, sort),
         NEW z, NEW n \in Nat, z.h = x.h + n, Same(x, z, x.h), NEW part, part \subseteq sort
  PROVE  Turns(z, y, n, part)
  BY DEF Turns, Same

\* Up to four more places.
LEMMA TwoLayers ==
  ASSUME NEW x, x.h \in Nat, NEW a, NEW b
  PROVE  LET x1 == Push(x, a) x2 == Push(x1, b)
             h == x.h
         IN  /\ x1.h = h + 1 /\ x2.h = h + 2 /\ Same(x, x1, h) /\ Same(x, x2, h)
             /\ x2.at[h + 1] = a /\ x2.at[h + 2] = b
             /\ Turns(x, x1, 0, a) /\ Turns(x1, x2, 0, b)
<1> DEFINE x1 == Push(x, a)
           x2 == Push(x1, b)
           h == x.h
<1>1. /\ x1.h = h + 1 /\ x1.h \in Nat /\ \A p \in 1 .. h : x1.at[p] = x.at[p]
      /\ x1.at[h + 1] = a /\ Turns(x, x1, 0, a)
  BY Pushed
<1> HIDE DEF x1
<1>2. /\ x2.h = h + 1 + 1 /\ x2.h \in Nat /\ \A p \in 1 .. h + 1 : x2.at[p] = x1.at[p]
      /\ x2.at[h + 1 + 1] = b /\ Turns(x1, x2, 0, b)
  BY <1>1, Pushed
<1> HIDE DEF x2, h
<1>3. /\ h \in Nat /\ h + 1 + 1 = h + 2 /\ h + 1 \in 1 .. h + 1
      /\ \A p \in 1 .. h : p \in 1 .. h + 1
  BY DEF h
<1>4. Same(x, x1, h) /\ Same(x, x2, h) /\ x2.at[h + 1] = a
  BY <1>1, <1>2, <1>3 DEF Same
<1> QED BY <1>1, <1>2, <1>3, <1>4 DEF x1, x2, h

LEMMA ThreeLayers ==
  ASSUME NEW x, x.h \in Nat, NEW a, NEW b, NEW c
  PROVE  LET x1 == Push(x, a) x2 == Push(x1, b) x3 == Push(x2, c)
             h == x.h
         IN  /\ x1.h = h + 1 /\ x2.h = h + 2 /\ x3.h = h + 3
             /\ Same(x, x1, h) /\ Same(x, x2, h) /\ Same(x, x3, h)
             /\ x1.at[h + 1] = a
             /\ x2.at[h + 1] = a /\ x2.at[h + 2] = b
             /\ x3.at[h + 1] = a /\ x3.at[h + 2] = b /\ x3.at[h + 3] = c
             /\ Turns(x, x1, 0, a) /\ Turns(x1, x2, 0, b) /\ Turns(x2, x3, 0, c)
<1> DEFINE x1 == Push(x, a)
           x2 == Push(x1, b)
           x3 == Push(x2, c)
           h == x.h
<1>1. /\ x1.h = h + 1 /\ x1.h \in Nat /\ \A p \in 1 .. h : x1.at[p] = x.at[p]
      /\ x1.at[h + 1] = a /\ Turns(x, x1, 0, a)
  BY Pushed
<1> HIDE DEF x1
<1>2. /\ x2.h = h + 1 + 1 /\ x2.h \in Nat /\ \A p \in 1 .. h + 1 : x2.at[p] = x1.at[p]
      /\ x2.at[h + 1 + 1] = b /\ Turns(x1, x2, 0, b)
  BY <1>1, Pushed
<1> HIDE DEF x2
<1>3. /\ x3.h = h + 1 + 1 + 1 /\ \A p \in 1 .. h + 1 + 1 : x3.at[p] = x2.at[p]
      /\ x3.at[h + 1 + 1 + 1] = c /\ Turns(x2, x3, 0, c)
  BY <1>2, Pushed
<1> HIDE DEF x3, h
<1>4. /\ h \in Nat /\ h + 1 + 1 = h + 2 /\ h + 1 + 1 + 1 = h + 3
      /\ h + 1 \in 1 .. h + 1 /\ h + 1 \in 1 .. h + 2 /\ h + 2 \in 1 .. h + 2
      /\ \A p \in 1 .. h : p \in 1 .. h + 1 /\ p \in 1 .. h + 2
  BY DEF h
<1>5. Same(x, x1, h) /\ Same(x, x2, h) /\ Same(x, x3, h)
  BY <1>1, <1>2, <1>3, <1>4 DEF Same
<1>6. x2.at[h + 1] = a /\ x3.at[h + 1] = a /\ x3.at[h + 2] = b
  BY <1>1, <1>2, <1>3, <1>4
<1> QED BY <1>1, <1>2, <1>3, <1>4, <1>5, <1>6 DEF x1, x2, x3, h

LEMMA LastLayer ==
  ASSUME NEW x, x.h \in Nat, NEW z, z.h = x.h + 3, Same(x, z, x.h), NEW sort
  PROVE  LET y == Push(z, sort)
             h == x.h
         IN  /\ y.h = h + 4 /\ Same(x, y, h) /\ Turns(z, y, 0, sort)
             /\ y.at[h + 1] = z.at[h + 1] /\ y.at[h + 2] = z.at[h + 2]
             /\ y.at[h + 3] = z.at[h + 3] /\ y.at[h + 4] = sort
<1> DEFINE y == Push(z, sort)
           h == x.h
<1>1. z.h \in Nat /\ z.h + 1 = h + 4
  OBVIOUS
<1>2. /\ y.h = z.h + 1 /\ \A p \in 1 .. z.h : y.at[p] = z.at[p]
      /\ y.at[z.h + 1] = sort /\ Turns(z, y, 0, sort)
  BY <1>1, Pushed
<1> HIDE DEF y
<1>3. /\ h + 1 \in 1 .. z.h /\ h + 2 \in 1 .. z.h /\ h + 3 \in 1 .. z.h
      /\ \A p \in 1 .. h : p \in 1 .. z.h
  OBVIOUS
<1>4. Same(x, y, h)
  BY <1>2, <1>3 DEF Same
<1> QED BY <1>1, <1>2, <1>3, <1>4 DEF y

LEMMA Runs0 == ASSUME NEW x, x.h \in Nat PROVE Runs(<<>>, x, x)
<1> DEFINE q == <<x>>
<1>1. q[1] = x
  OBVIOUS
<1>2. IsSeq(<<>>) /\ Len(<<>>) = 0
  BY EmptySeq DEF IsSeq
<1> HIDE DEF q
<1>3. Through(<<>>, q)
  BY <1>1, <1>2 DEF Through
<1> QED BY <1>1, <1>2, <1>3 DEF Runs

LEMMA RunsIf ==
  ASSUME NEW u, IsSeq(u), Len(u) \in Nat \ {0}, NEW q, NEW m \in {q[1].h, q[Len(u) + 1].h},
         \A i \in 1 .. Len(u) : Lifts(u[i], q[i], q[i + 1], m)
  PROVE  Runs(u, q[1], q[Len(u) + 1])
<1> DEFINE n == Len(u)
<1>1. m \in Nat /\ \A i \in 1 .. n + 1 : q[i].h \in Nat /\ q[i].h >= m
  <2>1. \A i \in 1 .. n : q[i].h \in Nat /\ q[i].h >= m
    BY DEF Lifts
  <2>2. q[n + 1].h \in Nat /\ q[n + 1].h >= m
    <3>1. n \in 1 .. n /\ Lifts(u[n], q[n], q[n + 1], m)
      OBVIOUS
    <3> QED BY <3>1 DEF Lifts
  <2>3. 1 \in 1 .. n /\ m \in Nat
    BY <2>1, <2>2
  <2> QED BY <2>1, <2>2, <2>3
<1>2. ASSUME NEW i \in 1 .. n, NEW j \in 1 .. i PROVE u[i].n <= q[j].h
  <2>1. u[i].n <= m /\ u[i].n \in Nat
    BY DEF Lifts, ItemOK
  <2>2. j \in 1 .. n + 1
    BY <1>2
  <2> QED BY <1>1, <2>1, <2>2
<1>3. Through(u, q) /\ \A i \in 1 .. n : ItemOK(u[i])
  BY <1>1, <1>2 DEF Through, Lifts
<1>4. \A i \in 1 .. n + 1 : q[i].h >= q[1].h \/ q[i].h >= q[n + 1].h
  BY <1>1
<1> QED BY <1>3, <1>4 DEF Runs

\* Items that follow one another, each from where the last one left.
LEMMA Runs1 ==
  ASSUME NEW a, NEW x0, NEW x1, NEW m \in {x0.h, x1.h}, Lifts(a, x0, x1, m)
  PROVE  Runs(<<a>>, x0, x1)
<1> DEFINE u == <<a>>
           q == <<x0, x1>>
<1>1. /\ u \in Seq({a}) /\ Len(u) = 1
      /\ u[1] = a
  OBVIOUS
<1>2. q[1] = x0 /\ q[2] = x1
  OBVIOUS
<1> HIDE DEF u, q
<1>3. IsSeq(u)
  BY <1>1 DEF IsSeq
<1>4. \A i \in 1 .. 1 : Lifts(u[i], q[i], q[i + 1], m)
  BY <1>1, <1>2
<1>5. m \in {q[1].h, q[Len(u) + 1].h} /\ Len(u) \in Nat \ {0} /\ Len(u) + 1 = 2
  BY <1>1, <1>2
<1>6. Runs(u, q[1], q[Len(u) + 1])
  BY <1>3, <1>4, <1>5, <1>1, RunsIf
<1> QED BY <1>2, <1>5, <1>6 DEF u

LEMMA Runs2 ==
  ASSUME NEW a, NEW b, NEW x0, NEW x1, NEW x2, NEW m \in {x0.h, x2.h}, Lifts(a, x0, x1, m),
         Lifts(b, x1, x2, m)
  PROVE  Runs(<<a, b>>, x0, x2)
<1> DEFINE u == <<a, b>>
           q == <<x0, x1, x2>>
<1>1. /\ u \in Seq({a, b}) /\ Len(u) = 2
      /\ u[1] = a /\ u[2] = b
  OBVIOUS
<1>2. q[1] = x0 /\ q[2] = x1 /\ q[3] = x2
  OBVIOUS
<1> HIDE DEF u, q
<1>3. IsSeq(u)
  BY <1>1 DEF IsSeq
<1>4. \A i \in 1 .. 2 : Lifts(u[i], q[i], q[i + 1], m)
  BY <1>1, <1>2
<1>5. m \in {q[1].h, q[Len(u) + 1].h} /\ Len(u) \in Nat \ {0} /\ Len(u) + 1 = 3
  BY <1>1, <1>2
<1>6. Runs(u, q[1], q[Len(u) + 1])
  BY <1>3, <1>4, <1>5, <1>1, RunsIf
<1> QED BY <1>2, <1>5, <1>6 DEF u

LEMMA Runs3 ==
  ASSUME NEW a, NEW b, NEW c, NEW x0, NEW x1, NEW x2, NEW x3, NEW m \in {x0.h, x3.h},
         Lifts(a, x0, x1, m), Lifts(b, x1, x2, m), Lifts(c, x2, x3, m)
  PROVE  Runs(<<a, b, c>>, x0, x3)
<1> DEFINE u == <<a, b, c>>
           q == <<x0, x1, x2, x3>>
<1>1. /\ u \in Seq({a, b, c}) /\ Len(u) = 3
      /\ u[1] = a /\ u[2] = b /\ u[3] = c
  OBVIOUS
<1>2. q[1] = x0 /\ q[2] = x1 /\ q[3] = x2 /\ q[4] = x3
  OBVIOUS
<1> HIDE DEF u, q
<1>3. IsSeq(u)
  BY <1>1 DEF IsSeq
<1>4. \A i \in 1 .. 3 : Lifts(u[i], q[i], q[i + 1], m)
  BY <1>1, <1>2
<1>5. m \in {q[1].h, q[Len(u) + 1].h} /\ Len(u) \in Nat \ {0} /\ Len(u) + 1 = 4
  BY <1>1, <1>2
<1>6. Runs(u, q[1], q[Len(u) + 1])
  BY <1>3, <1>4, <1>5, <1>1, RunsIf
<1> QED BY <1>2, <1>5, <1>6 DEF u

LEMMA Runs4 ==
  ASSUME NEW a, NEW b, NEW c, NEW d, NEW x0, NEW x1, NEW x2, NEW x3, NEW x4,
         NEW m \in {x0.h, x4.h}, Lifts(a, x0, x1, m), Lifts(b, x1, x2, m),
         Lifts(c, x2, x3, m), Lifts(d, x3, x4, m)
  PROVE  Runs(<<a, b, c, d>>, x0, x4)
<1> DEFINE u == <<a, b, c, d>>
           q == <<x0, x1, x2, x3, x4>>
<1>1. /\ u \in Seq({a, b, c, d}) /\ Len(u) = 4
      /\ u[1] = a /\ u[2] = b /\ u[3] = c /\ u[4] = d
  OBVIOUS
<1>2. q[1] = x0 /\ q[2] = x1 /\ q[3] = x2 /\ q[4] = x3 /\ q[5] = x4
  OBVIOUS
<1> HIDE DEF u, q
<1>3. IsSeq(u)
  BY <1>1 DEF IsSeq
<1>4. \A i \in 1 .. 4 : Lifts(u[i], q[i], q[i + 1], m)
  BY <1>1, <1>2
<1>5. m \in {q[1].h, q[Len(u) + 1].h} /\ Len(u) \in Nat \ {0} /\ Len(u) + 1 = 5
  BY <1>1, <1>2
<1>6. Runs(u, q[1], q[Len(u) + 1])
  BY <1>3, <1>4, <1>5, <1>1, RunsIf
<1> QED BY <1>2, <1>5, <1>6 DEF u

LEMMA Runs6 ==
  ASSUME NEW a, NEW b, NEW c, NEW d, NEW e, NEW f, NEW x0, NEW x1, NEW x2, NEW x3, NEW x4,
         NEW x5, NEW x6, NEW m \in {x0.h, x6.h}, Lifts(a, x0, x1, m), Lifts(b, x1, x2, m),
         Lifts(c, x2, x3, m), Lifts(d, x3, x4, m), Lifts(e, x4, x5, m), Lifts(f, x5, x6, m)
  PROVE  Runs(<<a, b, c, d, e, f>>, x0, x6)
<1> DEFINE u == <<a, b, c, d, e, f>>
           q == <<x0, x1, x2, x3, x4, x5, x6>>
<1>1. /\ u \in Seq({a, b, c, d, e, f}) /\ Len(u) = 6
      /\ u[1] = a /\ u[2] = b /\ u[3] = c /\ u[4] = d /\ u[5] = e /\ u[6] = f
  OBVIOUS
<1>2. /\ q[1] = x0 /\ q[2] = x1 /\ q[3] = x2 /\ q[4] = x3 /\ q[5] = x4
      /\ q[6] = x5 /\ q[7] = x6
  OBVIOUS
<1> HIDE DEF u, q
<1>3. IsSeq(u)
  BY <1>1 DEF IsSeq
<1>4. \A i \in 1 .. 6 : Lifts(u[i], q[i], q[i + 1], m)
  BY <1>1, <1>2
<1>5. m \in {q[1].h, q[Len(u) + 1].h} /\ Len(u) \in Nat \ {0} /\ Len(u) + 1 = 7
  BY <1>1, <1>2
<1>6. Runs(u, q[1], q[Len(u) + 1])
  BY <1>3, <1>4, <1>5, <1>1, RunsIf
<1> QED BY <1>2, <1>5, <1>6 DEF u

LEMMA Runs8 ==
  ASSUME NEW a, NEW b, NEW c, NEW d, NEW e, NEW f, NEW g, NEW h, NEW x0, NEW x1, NEW x2,
         NEW x3, NEW x4, NEW x5, NEW x6, NEW x7, NEW x8, NEW m \in {x0.h, x8.h},
         Lifts(a, x0, x1, m), Lifts(b, x1, x2, m), Lifts(c, x2, x3, m), Lifts(d, x3, x4, m),
         Lifts(e, x4, x5, m), Lifts(f, x5, x6, m), Lifts(g, x6, x7, m), Lifts(h, x7, x8, m)
  PROVE  Runs(<<a, b, c, d, e, f, g, h>>, x0, x8)
<1> DEFINE u == <<a, b, c, d, e, f, g, h>>
           q == <<x0, x1, x2, x3, x4, x5, x6, x7, x8>>
<1>1. /\ u \in Seq({a, b, c, d, e, f, g, h}) /\ Len(u) = 8
      /\ u[1] = a /\ u[2] = b /\ u[3] = c /\ u[4] = d /\ u[5] = e /\ u[6] = f /\ u[7] = g /\ u[8] = h
  OBVIOUS
<1>2. /\ q[1] = x0 /\ q[2] = x1 /\ q[3] = x2 /\ q[4] = x3 /\ q[5] = x4
      /\ q[6] = x5 /\ q[7] = x6 /\ q[8] = x7 /\ q[9] = x8
  OBVIOUS
<1> HIDE DEF u, q
<1>3. IsSeq(u)
  BY <1>1 DEF IsSeq
<1>4. \A i \in 1 .. 8 : Lifts(u[i], q[i], q[i + 1], m)
  BY <1>1, <1>2
<1>5. m \in {q[1].h, q[Len(u) + 1].h} /\ Len(u) \in Nat \ {0} /\ Len(u) + 1 = 9
  BY <1>1, <1>2
<1>6. Runs(u, q[1], q[Len(u) + 1])
  BY <1>3, <1>4, <1>5, <1>1, RunsIf
<1> QED BY <1>2, <1>5, <1>6 DEF u


-----------------------------------------------------------------------------
(* How sorts and results relate.                                            *)

LEMMA TighterFits ==
  \A j, k \in 0 .. 9 : j <= k => Expr(k) \subseteq Expr(j)
<1>1. ASSUME NEW j \in 0 .. 9, NEW k \in 0 .. 9, j <= k PROVE Expr(k) \subseteq Expr(j)
  <2>1. \A s \in k .. 8 : s \in j .. 8
    BY <1>1
  <2> QED BY <2>1 DEF Expr
<1> QED BY <1>1

LEMMA LevelSet ==
  Levels = {"logical_or", "logical_and", "equality", "comparison", "term", "factor"}
  BY DEF Levels, Ops

LEMMA Ranks == \A l \in Levels : Rank[l] \in 1 .. 6
  BY LevelSet DEF Rank

\* The levels share no operators.
LEMMA OneLevel ==
  ASSUME NEW l \in Levels, NEW m \in Levels, NEW op, op \in Ops[l], op \in Ops[m]
  PROVE  l = m
  BY LevelSet DEF Ops

LEMMA StrengthOf ==
  ASSUME NEW what, NEW op, NEW kids
  PROVE  /\ what = "Assignment" => Strength(Node(what, op, kids)) = 0
         /\ \A l \in Levels : what = OpNode(l) /\ op \in Ops[l] =>
              Strength(Node(what, op, kids)) = Rank[l]
         /\ what = "Unary" => Strength(Node(what, op, kids)) = 7
         /\ what \notin {"Assignment", "Binary", "Logical", "Unary"} =>
              Strength(Node(what, op, kids)) = 8
<1> DEFINE node == Node(what, op, kids)
<1>1. node.what = what /\ node.op = op
  BY DEF Node
<1> HIDE DEF node
<1>2. what = "Assignment" => Strength(node) = 0
  BY <1>1 DEF Strength
<1>3. ASSUME NEW l \in Levels, what = OpNode(l), op \in Ops[l] PROVE Strength(node) = Rank[l]
  <2>1. what \in {"Binary", "Logical"}
    BY <1>3 DEF OpNode
  <2>2. (CHOOSE m \in Levels : op \in Ops[m]) = l
    BY <1>3, OneLevel
  <2> QED BY <1>1, <2>1, <2>2 DEF Strength
<1>4. what = "Unary" => Strength(node) = 7
  BY <1>1 DEF Strength
<1>5. what \notin {"Assignment", "Binary", "Logical", "Unary"} => Strength(node) = 8
  BY <1>1 DEF Strength
<1> QED BY <1>2, <1>3, <1>4, <1>5 DEF node

LEMMA MadeSorts ==
  ASSUME NEW op
  PROVE  /\ \A what \in {"Grouping", "Call"} : Made(what, op) \subseteq Expr(8)
         /\ Made("Unary", op) \subseteq Expr(7)
         /\ \A l \in Levels : op \in Ops[l] => Made(OpNode(l), op) \subseteq Expr(Rank[l])
         /\ Made("Assignment", op) \subseteq Expr(0)
         /\ \A what \in Statements : Made(what, op) \subseteq Stmt
         /\ \A what \in {"Var", "Function", "Expression"} : Made(what, op) = Only(what)
<1>1. ASSUME NEW what \in Expressions, NEW k, Strength(Node(what, op, <<>>)) \in k .. 8
      PROVE  Made(what, op) \subseteq Expr(k)
  <2>1. what \notin Outer
    BY DEF Expressions, Outer
  <2>2. Made(what, op) = [what : {what}, strength : {Strength(Node(what, op, <<>>))},
                          open : {FALSE}]
    BY <2>1 DEF Made
  <2>3. {Strength(Node(what, op, <<>>))} \subseteq k .. 8 /\ {what} \subseteq Expressions
    BY <1>1
  <2> DEFINE bound == k .. 8
             own == {Strength(Node(what, op, <<>>))}
  <2> HIDE DEF bound, own
  <2>4. [what : {what}, strength : own, open : {FALSE}]
          \subseteq [what : Expressions, strength : bound, open : {FALSE}]
    BY <2>3 DEF bound, own
  <2> QED BY <2>2, <2>4 DEF Expr, bound, own
<1>2. ASSUME NEW what \in {"Grouping", "Call"} PROVE Made(what, op) \subseteq Expr(8)
  <2>1. what \in Expressions /\ Strength(Node(what, op, <<>>)) = 8
    BY StrengthOf DEF Expressions
  <2> QED BY <1>1, <2>1
<1>3. Made("Unary", op) \subseteq Expr(7)
  <2>1. "Unary" \in Expressions /\ Strength(Node("Unary", op, <<>>)) = 7
    BY StrengthOf DEF Expressions
  <2> QED BY <1>1, <2>1
<1>4. ASSUME NEW l \in Levels, op \in Ops[l] PROVE Made(OpNode(l), op) \subseteq Expr(Rank[l])
  <2>1. OpNode(l) \in Expressions /\ Rank[l] \in 1 .. 6
    BY Ranks DEF OpNode, Expressions
  <2>2. Strength(Node(OpNode(l), op, <<>>)) = Rank[l]
    BY <1>4, StrengthOf
  <2> QED BY <1>1, <2>1, <2>2
<1>5. Made("Assignment", op) \subseteq Expr(0)
  <2>1. "Assignment" \in Expressions /\ Strength(Node("Assignment", op, <<>>)) = 0
    BY StrengthOf DEF Expressions
  <2> QED BY <1>1, <2>1
<1>6. ASSUME NEW what \in Statements PROVE Made(what, op) \subseteq Stmt
  <2>1. Strength(Node(what, op, <<>>)) = 8
    BY StrengthOf DEF Statements
  <2> QED BY <2>1 DEF Made, Stmt
<1>7. ASSUME NEW what \in {"Var", "Function", "Expression"} PROVE Made(what, op) = Only(what)
  <2>1. Strength(Node(what, op, <<>>)) = 8
    BY StrengthOf
  <2> QED BY <2>1 DEF Made, Only, Outer
<1> QED BY <1>2, <1>3, <1>4, <1>5, <1>6, <1>7

LEMMA Between ==
  /\ Closed \subseteq Stmt /\ Only("Expression") \subseteq Closed
  /\ \A sort, part : part \subseteq sort => part \subseteq Maybe(sort)
  /\ \A sort : Only("null") \subseteq Maybe(sort)
  /\ \A sort, part : part \subseteq sort => Maybe(part) \subseteq Maybe(sort)
<1>1. \A what : Only(what) = [what : {what}, strength : {8}, open : {FALSE}]
  BY DEF Only
<1>2. Closed \subseteq Stmt /\ Only("Expression") \subseteq Closed
  BY <1>1 DEF Closed, Stmt, Statements
<1> QED BY <1>2 DEF Maybe

\* What each function leaves is what the functions it calls leave.
LEMMA Results ==
  /\ Result("next_expression") = Expr(0) /\ Result("assignment") = Expr(0)
  /\ Result("get_condition") = Expr(0)
  /\ \A l \in Levels : Result(l) = Expr(Rank[l])
  /\ Result("unary") = Expr(7) /\ Result("call") = Expr(8) /\ Result("primary") = Expr(8)
  /\ Result("expr_stmt") = Only("Expression")
  /\ \A f \in StmtFunctions \ {"expr_stmt"} : Result(f) = Stmt
  /\ Result("var_decl") = Only("Var") /\ Result("function_decl") = Only("Function")
  /\ Result("next_declaration") = Stmt \cup Only("Var") \cup Only("Function")
  /\ Result("initializer") = First /\ Result("nothing") = Only("null")
  /\ Result("identifier") = Only("Token") /\ Result("parameter") = Only("Token")
  /\ \A f \in ListFunctions : Result(f) = Only("list")
  /\ Result("throw") = {}
<1> USE LevelSet DEF StmtFunctions, ListFunctions
<1>1. /\ Result("next_expression") = Expr(0) /\ Result("assignment") = Expr(0)
      /\ Result("get_condition") = Expr(0)
  BY DEF Result
<1>2. \A l \in Levels : Result(l) = Expr(Rank[l])
  BY DEF Result
<1>3. Result("unary") = Expr(7) /\ Result("call") = Expr(8) /\ Result("primary") = Expr(8)
  BY DEF Result
<1>4. Result("expr_stmt") = Only("Expression")
  BY DEF Result
<1>5. \A f \in StmtFunctions \ {"expr_stmt"} : Result(f) = Stmt
  BY DEF Result
<1>6. /\ Result("var_decl") = Only("Var") /\ Result("function_decl") = Only("Function")
      /\ Result("next_declaration") = Stmt \cup Only("Var") \cup Only("Function")
  BY DEF Result
<1>7. /\ Result("initializer") = First /\ Result("nothing") = Only("null")
      /\ Result("identifier") = Only("Token") /\ Result("parameter") = Only("Token")
  BY DEF Result
<1>8. (\A f \in ListFunctions : Result(f) = Only("list")) /\ Result("throw") = {}
  BY DEF Result
<1> QED BY <1>1, <1>2, <1>3, <1>4, <1>5, <1>6, <1>7, <1>8

LEMMA Called ==
  /\ {"next_expression", "assignment", "get_condition", "unary", "call", "primary", "expr_stmt",
      "var_decl", "function_decl", "next_declaration", "initializer", "nothing", "identifier",
      "parameter", "throw", "get_args", "get_params", "get_stmts"} \subseteq Functions
  /\ Levels \subseteq Functions /\ StmtFunctions \subseteq Functions
  /\ {"next_statement", "print_stmt", "block_stmt", "if_stmt", "while_stmt", "for_stmt",
      "return_stmt", "expr_stmt"} \subseteq StmtFunctions
  /\ {"get_args", "get_params", "get_stmts"} \subseteq ListFunctions
  /\ {"get_args", "get_params", "get_stmts", "parse", "end of list"} \subseteq Lists
  /\ "calls" \in Repeats /\ Levels \subseteq Repeats
  BY DEF Functions, Body, Chooses, StmtFunctions, ListFunctions, Lists, Repeats

-----------------------------------------------------------------------------
(* What the functions without a choice come to.                             *)

\* A node made last of what a function has pushed.
LEMMA MakesLast ==
  ASSUME NEW x, x.h \in Nat, NEW y, NEW sort, Turns(x, y, 0, sort),
         NEW node \in Nodes, NEW op, Made(node, op) \subseteq sort,
         NEW n, n = Arity(node), NEW z, z.h = x.h + n, Same(x, z, x.h),
         Suit(node, op, z.at, x.h)
  PROVE  Lifts(Make(node, op), z, y, x.h)
<1>1. n \in 1 .. 4
  BY Arities
<1>2. Turns(z, y, n, Made(node, op))
  BY <1>1, TurnsAfter
<1>3. z.h \in Nat /\ x.h <= z.h /\ z.h - n = x.h /\ x.h <= z.h - n + 1
  BY <1>1
<1> QED BY <1>2, <1>3, MakeSteps

LEMMA NextExpressionRuns ==
  ASSUME NEW x, x.h \in Nat, NEW y, Turns(x, y, 0, Result("next_expression"))
  PROVE  Runs(Body["next_expression"], x, y)
<1>1. Body["next_expression"] = <<Call("assignment")>>
  BY DEF Body
<1>2. "assignment" \in Functions /\ Result("assignment") = Result("next_expression")
  BY Called, Results
<1>3. Lifts(Call("assignment"), x, y, x.h)
  BY <1>2, CallStep
<1> QED BY <1>1, <1>3, Runs1

LEMMA AssignmentRuns ==
  ASSUME NEW x, x.h \in Nat, NEW y, Turns(x, y, 0, Result("assignment"))
  PROVE  Runs(Body["assignment"], x, y)
<1> DEFINE h == x.h
           x1 == Push(x, Expr(1))
<1>1. Body["assignment"] = <<Call("logical_or"), Call("assigned?")>>
  BY DEF Body
<1>2. x1.h = h + 1 /\ Same(x, x1, h) /\ Turns(x, x1, 0, Expr(1)) /\ x1.at[h + 1] = Expr(1)
  BY Pushed
<1> HIDE DEF x1
<1>3. "logical_or" \in Functions /\ Result("logical_or") = Expr(1)
  <2>1. "logical_or" \in Levels /\ Rank["logical_or"] = 1
    BY LevelSet DEF Rank
  <2> QED BY <2>1, Called, Results
<1>4. Lifts(Call("logical_or"), x, x1, h)
  BY <1>2, <1>3, CallStep
<1>5. Turns(x1, y, 1, Expr(0)) /\ Expr(1) \subseteq Expr(0)
  BY <1>2, Results, TurnsAfter, TighterFits
<1>6. Lifts(Call("assigned?"), x1, y, h)
  BY <1>2, <1>5, CallSteps
<1> QED BY <1>1, <1>4, <1>6, Runs2

LEMMA CallRuns ==
  ASSUME NEW x, x.h \in Nat, NEW y, Turns(x, y, 0, Result("call"))
  PROVE  Runs(Body["call"], x, y)
<1> DEFINE h == x.h
           x1 == Push(x, Expr(8))
<1>1. Body["call"] = <<Call("primary"), Loop("calls", 0)>>
  BY DEF Body
<1>2. x1.h = h + 1 /\ Same(x, x1, h) /\ Turns(x, x1, 0, Expr(8)) /\ x1.at[h + 1] = Expr(8)
  BY Pushed
<1> HIDE DEF x1
<1>6. "primary" \in Functions /\ Result("primary") = Expr(8)
  BY Called, Results
<1>3. Lifts(Call("primary"), x, x1, h)
  BY <1>2, <1>6, CallStep
<1>4. Turns(x1, y, 1, Expr(8))
  BY <1>2, Results, TurnsAfter
<1>7. "calls" \in Repeats /\ Operands("calls") = Expr(8)
  BY Called DEF Operands
<1>5. Lifts(Loop("calls", 0), x1, y, h)
  BY <1>2, <1>4, <1>7, LoopSteps
<1> QED BY <1>1, <1>3, <1>5, Runs2

LEMMA GetConditionRuns ==
  ASSUME NEW x, x.h \in Nat, NEW y, Turns(x, y, 0, Result("get_condition"))
  PROVE  Runs(Body["get_condition"], x, y)
<1>1. Body["get_condition"] =
        <<Expect("kLeftParen"), Call("next_expression"), Expect("kRightParen")>>
  BY DEF Body
<1>2. Lifts(Expect("kLeftParen"), x, x, x.h)
  BY TokenSteps
<1>6. "next_expression" \in Functions /\ Result("next_expression") = Result("get_condition")
  BY Called, Results
<1>3. Lifts(Call("next_expression"), x, y, x.h)
  BY <1>6, CallStep
<1>4. y.h \in Nat /\ x.h <= y.h
  BY DEF Turns
<1>5. Lifts(Expect("kRightParen"), y, y, x.h)
  BY <1>4, TokenSteps
<1> QED BY <1>1, <1>2, <1>3, <1>5, Runs3

LEMMA VarDeclRuns ==
  ASSUME NEW x, x.h \in Nat, NEW y, Turns(x, y, 0, Result("var_decl"))
  PROVE  Runs(Body["var_decl"], x, y)
<1> DEFINE h == x.h
           x1 == Push(x, Only("Token"))
           x2 == Push(x1, Maybe(Expr(0)))
<1>1. Body["var_decl"] =
        <<Call("identifier"), Opt("kEqual"), Expect("kSemicolon"), Make("Var", "kVar")>>
  BY DEF Body
<1>2. /\ x1.h = h + 1 /\ Same(x, x1, h)
      /\ x2.h = h + 2 /\ Same(x, x2, h)
      /\ Turns(x, x1, 0, Only("Token")) /\ Turns(x1, x2, 0, Maybe(Expr(0)))
      /\ x2.at[h + 1] = Only("Token") /\ x2.at[h + 2] = Maybe(Expr(0))
  BY TwoLayers
<1> HIDE DEF x1, x2
<1>3. /\ "identifier" \in Functions /\ Result("identifier") = Only("Token")
  BY Called, Results
<1>4. Lifts(Call("identifier"), x, x1, h)
  BY <1>2, <1>3, CallStep
<1>5. Lifts(Opt("kEqual"), x1, x2, h)
  BY <1>2, TokenSteps
<1>6. Lifts(Expect("kSemicolon"), x2, x2, h)
  BY <1>2, TokenSteps
<1>7. Lifts(Make("Var", "kVar"), x2, y, h)
  <2>1. Made("Var", "kVar") \subseteq Result("var_decl") /\ Arity("Var") = 2 /\ "Var" \in Nodes
    BY MadeSorts, Results, Called, Arities DEF Nodes, Statements
  <2>2. Suit("Var", "kVar", x2.at, h)
    BY <1>2 DEF Suit
  <2> QED BY <1>2, <2>1, <2>2, MakesLast
<1> QED BY <1>1, <1>4, <1>5, <1>6, <1>7, Runs4

LEMMA FunctionDeclRuns ==
  ASSUME NEW x, x.h \in Nat, NEW y, Turns(x, y, 0, Result("function_decl"))
  PROVE  Runs(Body["function_decl"], x, y)
<1> DEFINE h == x.h
           x1 == Push(x, Only("Token"))
           x2 == Push(x1, Only("list"))
           x3 == Push(x2, Only("list"))
<1>1. Body["function_decl"] =
        <<Take, Expect("kLeftParen"), Call("get_params"), Expect("kLeftBrace"),
          Call("get_stmts"), Make("Function", "kFun")>>
  BY DEF Body
<1>2. /\ x1.h = h + 1 /\ Same(x, x1, h)
      /\ x2.h = h + 2 /\ Same(x, x2, h)
      /\ x3.h = h + 3 /\ Same(x, x3, h)
      /\ Turns(x, x1, 0, Only("Token")) /\ Turns(x1, x2, 0, Only("list")) /\ Turns(x2, x3, 0, Only("list"))
      /\ x3.at[h + 1] = Only("Token") /\ x3.at[h + 2] = Only("list") /\ x3.at[h + 3] = Only("list")
  BY ThreeLayers
<1> HIDE DEF x1, x2, x3
<1>3. /\ "get_params" \in Functions /\ Result("get_params") = Only("list")
      /\ "get_stmts" \in Functions /\ Result("get_stmts") = Only("list")
  BY Called, Results
<1>4. Lifts(Take, x, x1, h)
  BY <1>2, TakeStep
<1>5. Lifts(Expect("kLeftParen"), x1, x1, h)
  BY <1>2, TokenSteps
<1>6. Lifts(Call("get_params"), x1, x2, h)
  BY <1>2, <1>3, CallStep
<1>7. Lifts(Expect("kLeftBrace"), x2, x2, h)
  BY <1>2, TokenSteps
<1>8. Lifts(Call("get_stmts"), x2, x3, h)
  BY <1>2, <1>3, CallStep
<1>9. Lifts(Make("Function", "kFun"), x3, y, h)
  <2>1. Made("Function", "kFun") \subseteq Result("function_decl") /\ Arity("Function") = 3 /\ "Function" \in Nodes
    BY MadeSorts, Results, Called, Arities DEF Nodes, Statements
  <2>2. Suit("Function", "kFun", x3.at, h)
    BY <1>2 DEF Suit
  <2> QED BY <1>2, <2>1, <2>2, MakesLast
<1> QED BY <1>1, <1>4, <1>5, <1>6, <1>7, <1>8, <1>9, Runs6

LEMMA BlockStmtRuns ==
  ASSUME NEW x, x.h \in Nat, NEW y, Turns(x, y, 0, Result("block_stmt"))
  PROVE  Runs(Body["block_stmt"], x, y)
<1> DEFINE h == x.h
           x1 == Push(x, Only("list"))
<1>1. Body["block_stmt"] =
        <<Call("get_stmts"), Make("Block", "kLeftBrace")>>
  BY DEF Body
<1>2. /\ x1.h = h + 1 /\ Same(x, x1, h)
      /\ Turns(x, x1, 0, Only("list"))
      /\ x1.at[h + 1] = Only("list")
  BY Pushed
<1> HIDE DEF x1
<1>3. /\ "get_stmts" \in Functions /\ Result("get_stmts") = Only("list")
  BY Called, Results
<1>4. Lifts(Call("get_stmts"), x, x1, h)
  BY <1>2, <1>3, CallStep
<1>5. Lifts(Make("Block", "kLeftBrace"), x1, y, h)
  <2>1. Made("Block", "kLeftBrace") \subseteq Result("block_stmt") /\ Arity("Block") = 1 /\ "Block" \in Nodes
    BY MadeSorts, Results, Called, Arities DEF Nodes, Statements
  <2>2. Suit("Block", "kLeftBrace", x1.at, h)
    BY <1>2 DEF Suit
  <2> QED BY <1>2, <2>1, <2>2, MakesLast
<1> QED BY <1>1, <1>4, <1>5, Runs2

LEMMA WhileStmtRuns ==
  ASSUME NEW x, x.h \in Nat, NEW y, Turns(x, y, 0, Result("while_stmt"))
  PROVE  Runs(Body["while_stmt"], x, y)
<1> DEFINE h == x.h
           x1 == Push(x, Expr(0))
           x2 == Push(x1, Stmt)
<1>1. Body["while_stmt"] =
        <<Call("get_condition"), Call("next_statement"), Make("While", "kWhile")>>
  BY DEF Body
<1>2. /\ x1.h = h + 1 /\ Same(x, x1, h)
      /\ x2.h = h + 2 /\ Same(x, x2, h)
      /\ Turns(x, x1, 0, Expr(0)) /\ Turns(x1, x2, 0, Stmt)
      /\ x2.at[h + 1] = Expr(0) /\ x2.at[h + 2] = Stmt
  BY TwoLayers
<1> HIDE DEF x1, x2
<1>3. /\ "get_condition" \in Functions /\ Result("get_condition") = Expr(0)
      /\ "next_statement" \in Functions /\ Result("next_statement") = Stmt
  BY Called, Results
<1>4. Lifts(Call("get_condition"), x, x1, h)
  BY <1>2, <1>3, CallStep
<1>5. Lifts(Call("next_statement"), x1, x2, h)
  BY <1>2, <1>3, CallStep
<1>6. Lifts(Make("While", "kWhile"), x2, y, h)
  <2>1. Made("While", "kWhile") \subseteq Result("while_stmt") /\ Arity("While") = 2 /\ "While" \in Nodes
    BY MadeSorts, Results, Called, Arities DEF Nodes, Statements
  <2>2. Suit("While", "kWhile", x2.at, h)
    BY <1>2 DEF Suit
  <2> QED BY <1>2, <2>1, <2>2, MakesLast
<1> QED BY <1>1, <1>4, <1>5, <1>6, Runs3

LEMMA ForStmtRuns ==
  ASSUME NEW x, x.h \in Nat, NEW y, Turns(x, y, 0, Result("for_stmt"))
  PROVE  Runs(Body["for_stmt"], x, y)
<1> DEFINE h == x.h
           x1 == Push(x, First)
           x2 == Push(x1, Maybe(Expr(0)))
           x3 == Push(x2, Maybe(Expr(0)))
           x4 == Push(x3, Stmt)
<1>1. Body["for_stmt"] =
        <<Expect("kLeftParen"), Call("initializer"), Unless("kSemicolon"),
          Expect("kSemicolon"), Unless("kRightParen"), Expect("kRightParen"),
          Call("next_statement"), Make("For", "kFor")>>
  BY DEF Body
<1>2. /\ x1.h = h + 1 /\ Same(x, x1, h)
      /\ x2.h = h + 2 /\ Same(x, x2, h)
      /\ x3.h = h + 3 /\ Same(x, x3, h)
      /\ x4.h = h + 4 /\ Same(x, x4, h)
      /\ Turns(x, x1, 0, First) /\ Turns(x1, x2, 0, Maybe(Expr(0))) /\ Turns(x2, x3, 0, Maybe(Expr(0))) /\ Turns(x3, x4, 0, Stmt)
      /\ x4.at[h + 1] = First /\ x4.at[h + 2] = Maybe(Expr(0)) /\ x4.at[h + 3] = Maybe(Expr(0)) /\ x4.at[h + 4] = Stmt
  BY ThreeLayers, LastLayer
<1> HIDE DEF x1, x2, x3, x4
<1>3. /\ "initializer" \in Functions /\ Result("initializer") = First
      /\ "next_statement" \in Functions /\ Result("next_statement") = Stmt
  BY Called, Results
<1>4. Lifts(Expect("kLeftParen"), x, x, h)
  BY <1>2, TokenSteps
<1>5. Lifts(Call("initializer"), x, x1, h)
  BY <1>2, <1>3, CallStep
<1>6. Lifts(Unless("kSemicolon"), x1, x2, h)
  BY <1>2, TokenSteps
<1>7. Lifts(Expect("kSemicolon"), x2, x2, h)
  BY <1>2, TokenSteps
<1>8. Lifts(Unless("kRightParen"), x2, x3, h)
  BY <1>2, TokenSteps
<1>9. Lifts(Expect("kRightParen"), x3, x3, h)
  BY <1>2, TokenSteps
<1>10. Lifts(Call("next_statement"), x3, x4, h)
  BY <1>2, <1>3, CallStep
<1>11. Lifts(Make("For", "kFor"), x4, y, h)
  <2>1. Made("For", "kFor") \subseteq Result("for_stmt") /\ Arity("For") = 4 /\ "For" \in Nodes
    BY MadeSorts, Results, Called, Arities DEF Nodes, Statements
  <2>2. Suit("For", "kFor", x4.at, h)
    BY <1>2 DEF Suit
  <2> QED BY <1>2, <2>1, <2>2, MakesLast
<1> QED BY <1>1, <1>4, <1>5, <1>6, <1>7, <1>8, <1>9, <1>10, <1>11, Runs8

LEMMA ReturnStmtRuns ==
  ASSUME NEW x, x.h \in Nat, NEW y, Turns(x, y, 0, Result("return_stmt"))
  PROVE  Runs(Body["return_stmt"], x, y)
<1> DEFINE h == x.h
           x1 == Push(x, Maybe(Expr(0)))
<1>1. Body["return_stmt"] =
        <<Unless("kSemicolon"), Expect("kSemicolon"), Make("Return", "kReturn")>>
  BY DEF Body
<1>2. /\ x1.h = h + 1 /\ Same(x, x1, h)
      /\ Turns(x, x1, 0, Maybe(Expr(0)))
      /\ x1.at[h + 1] = Maybe(Expr(0))
  BY Pushed
<1> HIDE DEF x1
<1>3. Lifts(Unless("kSemicolon"), x, x1, h)
  BY <1>2, TokenSteps
<1>4. Lifts(Expect("kSemicolon"), x1, x1, h)
  BY <1>2, TokenSteps
<1>5. Lifts(Make("Return", "kReturn"), x1, y, h)
  <2>1. Made("Return", "kReturn") \subseteq Result("return_stmt") /\ Arity("Return") = 1 /\ "Return" \in Nodes
    BY MadeSorts, Results, Called, Arities DEF Nodes, Statements
  <2>2. Suit("Return", "kReturn", x1.at, h)
    BY <1>2 DEF Suit
  <2> QED BY <1>2, <2>1, <2>2, MakesLast
<1> QED BY <1>1, <1>3, <1>4, <1>5, Runs3

LEMMA PrintStmtRuns ==
  ASSUME NEW x, x.h \in Nat, NEW y, Turns(x, y, 0, Result("print_stmt"))
  PROVE  Runs(Body["print_stmt"], x, y)
<1> DEFINE h == x.h
           x1 == Push(x, Expr(0))
<1>1. Body["print_stmt"] =
        <<Call("next_expression"), Expect("kSemicolon"), Make("Print", "kPrint")>>
  BY DEF Body
<1>2. /\ x1.h = h + 1 /\ Same(x, x1, h)
      /\ Turns(x, x1, 0, Expr(0))
      /\ x1.at[h + 1] = Expr(0)
  BY Pushed
<1> HIDE DEF x1
<1>3. /\ "next_expression" \in Functions /\ Result("next_expression") = Expr(0)
  BY Called, Results
<1>4. Lifts(Call("next_expression"), x, x1, h)
  BY <1>2, <1>3, CallStep
<1>5. Lifts(Expect("kSemicolon"), x1, x1, h)
  BY <1>2, TokenSteps
<1>6. Lifts(Make("Print", "kPrint"), x1, y, h)
  <2>1. Made("Print", "kPrint") \subseteq Result("print_stmt") /\ Arity("Print") = 1 /\ "Print" \in Nodes
    BY MadeSorts, Results, Called, Arities DEF Nodes, Statements
  <2>2. Suit("Print", "kPrint", x1.at, h)
    BY <1>2 DEF Suit
  <2> QED BY <1>2, <2>1, <2>2, MakesLast
<1> QED BY <1>1, <1>4, <1>5, <1>6, Runs3

LEMMA ExprStmtRuns ==
  ASSUME NEW x, x.h \in Nat, NEW y, Turns(x, y, 0, Result("expr_stmt"))
  PROVE  Runs(Body["expr_stmt"], x, y)
<1> DEFINE h == x.h
           x1 == Push(x, Expr(0))
<1>1. Body["expr_stmt"] =
        <<Call("next_expression"), Expect("kSemicolon"), Make("Expression", "")>>
  BY DEF Body
<1>2. /\ x1.h = h + 1 /\ Same(x, x1, h)
      /\ Turns(x, x1, 0, Expr(0))
      /\ x1.at[h + 1] = Expr(0)
  BY Pushed
<1> HIDE DEF x1
<1>3. /\ "next_expression" \in Functions /\ Result("next_expression") = Expr(0)
  BY Called, Results
<1>4. Lifts(Call("next_expression"), x, x1, h)
  BY <1>2, <1>3, CallStep
<1>5. Lifts(Expect("kSemicolon"), x1, x1, h)
  BY <1>2, TokenSteps
<1>6. Lifts(Make("Expression", ""), x1, y, h)
  <2>1. Made("Expression", "") \subseteq Result("expr_stmt") /\ Arity("Expression") = 1 /\ "Expression" \in Nodes
    BY MadeSorts, Results, Called, Arities DEF Nodes, Statements
  <2>2. Suit("Expression", "", x1.at, h)
    BY <1>2 DEF Suit
  <2> QED BY <1>2, <2>1, <2>2, MakesLast
<1> QED BY <1>1, <1>4, <1>5, <1>6, Runs3

LEMMA IfStmtRuns ==
  ASSUME NEW x, x.h \in Nat, NEW y, Turns(x, y, 0, Result("if_stmt"))
  PROVE  Runs(Body["if_stmt"], x, y)
<1> DEFINE h == x.h
           x1 == Push(x, Expr(0))
           x2 == Push(x1, Stmt)
           c2 == Push(x1, Closed)
           c3 == Push(c2, Maybe(Stmt))
<1>1. Body["if_stmt"] =
        <<Call("get_condition"), Call("next_statement"), Opt("kElse"), Make("If", "kIf")>>
  BY DEF Body
<1>2. /\ x1.h = h + 1 /\ Turns(x, x1, 0, Expr(0))
      /\ x2.h = h + 2 /\ Turns(x1, x2, 0, Stmt) /\ Same(x1, x2, h + 1) /\ x2.at[h + 2] = Stmt
  <2>1. x1.h = h + 1 /\ x1.h \in Nat /\ Turns(x, x1, 0, Expr(0))
    BY Pushed
  <2> HIDE DEF x1
  <2>2. x2.h = h + 1 + 1 /\ Turns(x1, x2, 0, Stmt) /\ Same(x1, x2, h + 1) /\ x2.at[h + 1 + 1] = Stmt
    BY <2>1, Pushed
  <2>3. h + 1 + 1 = h + 2
    OBVIOUS
  <2> HIDE DEF x2, h
  <2> QED BY <2>1, <2>2, <2>3
<1>3. /\ c3.h = h + 3 /\ Same(x, c3, h)
      /\ c3.at[h + 1] = Expr(0) /\ c3.at[h + 2] = Closed /\ c3.at[h + 3] = Maybe(Stmt)
      /\ Same(x1, c3, h + 1)
  <2>1. /\ c3.h = h + 3 /\ Same(x, c3, h)
        /\ c3.at[h + 1] = Expr(0) /\ c3.at[h + 2] = Closed /\ c3.at[h + 3] = Maybe(Stmt)
    BY ThreeLayers DEF x1, c2, c3
  <2>2. x1.h = h + 1 /\ x1.h \in Nat
    BY Pushed
  <2>3. Same(x1, c3, x1.h)
    <3> HIDE DEF x1
    <3> QED BY <2>2, TwoLayers DEF c2, c3
  <2> QED BY <2>1, <2>2, <2>3
<1> HIDE DEF x1, x2, c2, c3
<1>8. /\ "get_condition" \in Functions /\ Result("get_condition") = Expr(0)
      /\ "next_statement" \in Functions /\ Result("next_statement") = Stmt
  BY Called, Results
<1>4. Lifts(Call("get_condition"), x, x1, h)
  BY <1>2, <1>8, CallStep
<1>5. Lifts(Call("next_statement"), x1, x2, h)
  BY <1>2, <1>8, CallStep
<1>6. Lifts(Opt("kElse"), x2, c3, h)
  <2>1. Same(x2, c3, h + 1)
    BY <1>2, <1>3 DEF Same
  <2>2. x2.h \in Nat /\ x2.h >= 1 /\ c3.h = x2.h + 1 /\ x2.h - 1 = h + 1 /\ h <= x2.h
    BY <1>2, <1>3
  <2>3. c3.at[x2.h] = Closed /\ c3.at[c3.h] = Maybe(Stmt) /\ x2.at[x2.h] \subseteq Stmt
    BY <1>2, <1>3
  <2> QED BY <2>1, <2>2, <2>3, TokenSteps
<1>7. Lifts(Make("If", "kIf"), c3, y, h)
  <2>1. Made("If", "kIf") \subseteq Result("if_stmt") /\ Arity("If") = 3 /\ "If" \in Nodes
    BY MadeSorts, Results, Called, Arities DEF Nodes, Statements
  <2>2. Suit("If", "kIf", c3.at, h)
    BY <1>3, Between DEF Suit
  <2> QED BY <1>3, <2>1, <2>2, MakesLast
<1> QED BY <1>1, <1>4, <1>5, <1>6, <1>7, Runs4

LEMMA BodyRuns ==
  ASSUME NEW x, x.h \in Nat, NEW f \in DOMAIN Body, NEW y, Turns(x, y, 0, Result(f))
  PROVE  Runs(Body[f], x, y)
<1>1. f \in {"next_expression", "assignment", "call", "var_decl", "function_decl",
            "get_condition", "if_stmt", "block_stmt", "while_stmt", "for_stmt",
            "return_stmt", "print_stmt", "expr_stmt"}
  BY DEF Body
<1> QED BY <1>1, NextExpressionRuns, AssignmentRuns, CallRuns, VarDeclRuns,
           FunctionDeclRuns, GetConditionRuns, IfStmtRuns, BlockStmtRuns,
           WhileStmtRuns, ForStmtRuns, ReturnStmtRuns, PrintStmtRuns,
           ExprStmtRuns

-----------------------------------------------------------------------------
(* The nodes built, and what is left to do.                                 *)

NearestIf(node) == node.what = "If" /\ node.kids[3] # Null => ~ IsOpen(node.kids[2])

Sound(node) ==
  /\ Binds(node) /\ Declares(node) /\ NearestIf(node)
  /\ node.what = "null" => node = Null

AllSound(b) == \A i \in 1 .. Len(b) : Sound(b[i])

Held == IsSeq(built) /\ AllSound(built) /\ \E x : Fits(built, x) /\ Leads(todo, x)

\* The item on top takes it from x to y, and the rest leads on from there.
Ready(x, y) ==
  /\ Fits(built, x) /\ x.h \in Nat /\ y.h \in Nat /\ Takes(Top, x, y)
  /\ \A u, z : Runs(u, z, y) /\ z.h \in {x.h, y.h} => Leads(u \o Tail(todo), z)

\* What the first of some items may be replaced by.
LEMMA FirstLeads ==
  ASSUME NEW t, t # <<>>, NEW x, x.h \in Nat, Leads(t, x)
  PROVE  /\ IsSeq(t) /\ Len(t) \in Nat \ {0} /\ Head(t) = t[1]
         /\ ItemOK(t[1]) /\ t[1].n \in Nat /\ t[1].n <= x.h
         /\ \E y : /\ y.h \in Nat /\ Takes(t[1], x, y)
                  /\ \A u, z : Runs(u, z, y) /\ z.h \in {x.h, y.h} => Leads(u \o Tail(t), z)
<1>1. IsSeq(t)
  BY DEF Leads
<1>2. PICK S : t \in Seq(S)
  BY <1>1 DEF IsSeq
<1>3. Len(t) \in Nat \ {0} /\ Head(t) = t[1]
  BY <1>2, LenProperties, EmptySeq, HeadTailProperties
<1>4. PICK g : Through(t, g) /\ g[1] = x /\ g[Len(t) + 1].h = 1
  BY DEF Leads
<1>5. 1 \in 1 .. Len(t) /\ 1 \in 1 .. 1 /\ 1 + 1 = 2 /\ 2 \in 1 .. Len(t) + 1
  BY <1>3
<1>6. ItemOK(t[1]) /\ Takes(t[1], x, g[2]) /\ t[1].n <= x.h /\ g[2].h \in Nat
  BY <1>4, <1>5 DEF Leads, Through
<1>7. t[1].n \in Nat
  BY <1>6 DEF ItemOK
<1>8. ASSUME NEW u, NEW z, Runs(u, z, g[2]), z.h \in {x.h, g[2].h}
      PROVE  Leads(u \o Tail(t), z)
  <2>1. PICK q : /\ Through(u, q) /\ q[1] = z /\ q[Len(u) + 1] = g[2]
                 /\ \A i \in 1 .. Len(u) + 1 : q[i].h >= z.h \/ q[i].h >= g[2].h
    BY <1>8 DEF Runs
  <2>2. \A i \in 1 .. Len(u) + 1 : q[i].h >= g[1].h \/ q[i].h >= g[2].h
    BY <1>4, <1>8, <2>1
  <2>3. IsSeq(u) /\ \A i \in 1 .. Len(u) : ItemOK(u[i])
    BY <1>8 DEF Runs
  <2>4. \A i \in 1 .. Len(t) : ItemOK(t[i])
    BY DEF Leads
  <2>5. Leads(u \o Tail(t), q[1])
    BY <1>1, <1>4, <2>1, <2>2, <2>3, <2>4, Replaced
  <2> QED BY <2>1, <2>5
<1> QED BY <1>1, <1>3, <1>6, <1>7, <1>8

LEMMA TopFits ==
  ASSUME Held, todo # <<>>
  PROVE  /\ Len(built) \in Nat /\ ItemOK(Top) /\ Top.n \in Nat /\ Top.n <= Len(built)
         /\ IsSeq(todo) /\ Len(todo) \in Nat \ {0} /\ Top = todo[1]
         /\ \E x, y : Ready(x, y) /\ x.h = Len(built)
<1>1. Len(built) \in Nat
  BY LenProperties DEF Held, IsSeq
<1>2. PICK x : Fits(built, x) /\ Leads(todo, x)
  BY DEF Held
<1>3. x.h = Len(built)
  BY <1>2 DEF Fits
<1>4. /\ IsSeq(todo) /\ Len(todo) \in Nat \ {0} /\ Top = todo[1]
      /\ ItemOK(Top) /\ Top.n \in Nat /\ Top.n <= x.h
      /\ \E y : /\ y.h \in Nat /\ Takes(Top, x, y)
               /\ \A u, z : Runs(u, z, y) /\ z.h \in {x.h, y.h} => Leads(u \o Tail(todo), z)
  BY <1>1, <1>2, <1>3, FirstLeads DEF Top
<1>5. \E y : Ready(x, y)
  BY <1>1, <1>2, <1>3, <1>4 DEF Ready
<1> QED BY <1>1, <1>3, <1>4, <1>5

LEMMA GivesWay ==
  ASSUME NEW x, NEW y, Ready(x, y), NEW u, Then(u), NEW z, Runs(u, z, y), z.h \in {x.h, y.h},
         IsSeq(built'), AllSound(built'), Fits(built', z)
  PROVE  Held'
<1>1. Leads(u \o Tail(todo), z)
  BY DEF Ready
<1>2. todo' = u \o Tail(todo)
  BY DEF Then
<1>3. Leads(todo', z)
  BY <1>1, <1>2
<1> QED BY <1>3 DEF Held

\* Nothing is made: the items lead from here to where the first one did.
LEMMA Expands ==
  ASSUME Held, NEW x, NEW y, Ready(x, y), NEW u, Then(u), built' = built,
         Runs(u, x, y)
  PROVE  Held'
<1>1. Fits(built, x) /\ IsSeq(built) /\ AllSound(built)
  BY DEF Ready, Held
<1>2. Fits(built', x) /\ IsSeq(built') /\ AllSound(built')
  BY <1>1
<1> QED BY <1>2, GivesWay

\* Nothing is made and nothing is left of the first item.
LEMMA Passes ==
  ASSUME Held, NEW x, NEW y, Ready(x, y), Then(<<>>), built' = built,
         Fits(built, y)
  PROVE  Held'
<1>1. y.h \in Nat /\ IsSeq(built) /\ AllSound(built)
  BY DEF Ready, Held
<1>2. Fits(built', y) /\ IsSeq(built') /\ AllSound(built')
  BY <1>1
<1>3. Runs(<<>>, y, y)
  BY <1>1, Runs0
<1> QED BY <1>2, <1>3, GivesWay

LEMMA AppendedIs ==
  ASSUME NEW b, IsSeq(b), NEW e
  PROVE  /\ IsSeq(Append(b, e)) /\ Len(b) \in Nat /\ Len(Append(b, e)) = Len(b) + 1
         /\ \A i \in 1 .. Len(b) : Append(b, e)[i] = b[i]
         /\ Append(b, e)[Len(b) + 1] = e
<1>1. PICK S : b \in Seq(S)
  BY DEF IsSeq
<1>2. b \in Seq(S \cup {e}) /\ e \in S \cup {e}
  BY <1>1, SeqMonotonic
<1> QED BY <1>2, AppendProperties, LenProperties DEF IsSeq

\* A node of the sort that is wanted is put on b.
LEMMA Topped ==
  ASSUME NEW b, IsSeq(b), AllSound(b), NEW e, Sound(e), NEW sort, Kind(e) \in sort,
         NEW y, y.h = Len(b) + 1, \A p \in 1 .. Len(b) : Kind(b[p]) \in y.at[p],
         sort \subseteq y.at[y.h]
  PROVE  IsSeq(Append(b, e)) /\ AllSound(Append(b, e)) /\ Fits(Append(b, e), y)
<1> DEFINE n == Len(b)
           c == Append(b, e)
<1>1. /\ IsSeq(c) /\ n \in Nat /\ Len(c) = n + 1
      /\ \A i \in 1 .. n : c[i] = b[i]
      /\ c[n + 1] = e
  BY AppendedIs
<1> HIDE DEF c
<1>2. ASSUME NEW i \in 1 .. Len(c) PROVE Sound(c[i]) /\ Kind(c[i]) \in y.at[i]
  <2>1. CASE i \in 1 .. n
    BY <1>1, <2>1 DEF AllSound
  <2>2. CASE i = n + 1
    BY <1>1, <2>2
  <2> QED BY <1>1, <2>1, <2>2
<1>3. AllSound(c) /\ Fits(c, y)
  BY <1>1, <1>2 DEF AllSound, Fits
<1> QED BY <1>1, <1>3 DEF c

\* A node is made, and nothing is left of the first item.
LEMMA Adds ==
  ASSUME Held, NEW x, NEW y, Ready(x, y), Then(<<>>), NEW e, built' = Append(built, e),
         Sound(e), NEW sort, Kind(e) \in sort, Turns(x, y, 0, sort)
  PROVE  Held'
<1>1. y.h \in Nat /\ IsSeq(built) /\ AllSound(built) /\ Fits(built, x)
  BY DEF Ready, Held
<1>2. Len(built) \in Nat
  BY <1>1, AppendedIs
<1>3. /\ y.h = Len(built) + 1 /\ sort \subseteq y.at[y.h]
      /\ \A p \in 1 .. Len(built) : Kind(built[p]) \in y.at[p]
  <2>1. x.h - 0 = x.h /\ x.h - 0 + 1 = x.h + 1 /\ x.h = Len(built)
    BY <1>1, <1>2 DEF Fits
  <2> QED BY <1>1, <2>1 DEF Fits, Turns, Same
<1>4. IsSeq(built') /\ AllSound(built') /\ Fits(built', y)
  BY <1>1, <1>3, Topped
<1>5. Runs(<<>>, y, y)
  BY <1>1, Runs0
<1> QED BY <1>4, <1>5, GivesWay

\* The last n nodes, taken off.
LEMMA Taken ==
  ASSUME NEW b, IsSeq(b), NEW n \in Nat, n <= Len(b)
  PROVE  LET k == Len(b) - n
             s == SubSeq(b, 1, k)
             r == SubSeq(b, k + 1, Len(b))
         IN  /\ Len(b) \in Nat /\ k \in Nat /\ IsSeq(s) /\ Len(s) = k
             /\ \A i \in 1 .. k : s[i] = b[i]
             /\ Len(r) = n
             /\ \A i \in 1 .. n : r[i] = b[k + i]
<1> DEFINE k == Len(b) - n
           s == SubSeq(b, 1, k)
           r == SubSeq(b, k + 1, Len(b))
<1>1. PICK S : b \in Seq(S)
  BY DEF IsSeq
<1>2. Len(b) \in Nat /\ k \in 0 .. Len(b)
  BY <1>1, LenProperties
<1>3. s \in Seq(S) /\ Len(s) = k /\ \A i \in 1 .. k : s[i] = b[i]
  <2>1. CASE k = 0
    <3>1. s = <<>>
      BY <1>1, <2>1, SubSeqProperties
    <3> QED BY <2>1, <3>1, EmptySeq
  <2>2. CASE k # 0
    <3>1. 1 \in 1 .. Len(b) /\ k \in 1 .. Len(b)
      BY <1>2, <2>2
    <3> QED BY <1>1, <1>2, <3>1, SubSeqProperties
  <2> QED BY <2>1, <2>2
<1>4. Len(r) = n /\ \A i \in 1 .. n : r[i] = b[k + i]
  <2>1. CASE n = 0
    <3>1. k + 1 > Len(b) /\ k + 1 = Len(b) + 1
      BY <1>2, <2>1
    <3>2. r = <<>>
      BY <1>1, <1>2, <3>1, SubSeqProperties
    <3> QED BY <2>1, <3>2, EmptySeq
  <2>2. CASE n # 0
    <3>1. k + 1 \in 1 .. Len(b) /\ Len(b) \in 1 .. Len(b) /\ Len(b) - (k + 1) + 1 = n
      BY <1>2, <2>2
    <3>2. Len(r) = Len(b) - (k + 1) + 1 /\ \A i \in 1 .. Len(b) - (k + 1) + 1 : r[i] = b[k + 1 + i - 1]
      BY <1>1, <1>2, <3>1, SubSeqProperties
    <3>3. \A i \in 1 .. n : k + 1 + i - 1 = k + i
      BY <1>2
    <3> HIDE DEF r
    <3> QED BY <3>1, <3>2, <3>3
  <2> QED BY <2>1, <2>2
<1>5. k \in Nat
  BY <1>2
<1> HIDE DEF k, s, r
<1>6. IsSeq(s)
  BY <1>3 DEF IsSeq
<1> QED BY <1>2, <1>3, <1>4, <1>5, <1>6 DEF k, s, r

\* They become the children of one node.
LEMMA Gathers ==
  ASSUME Held, NEW x, NEW y, Ready(x, y), Then(<<>>), NEW n \in Nat, n <= Len(built),
         NEW what, NEW op, built' = Reduced(what, op, n),
         NEW e, e = Node(what, op, SubSeq(built, Len(built) - n + 1, Len(built))),
         Sound(e), NEW sort, Kind(e) \in sort, Turns(x, y, n, sort)
  PROVE  Held'
<1> DEFINE k == Len(built) - n
           s == SubSeq(built, 1, k)
<1>1. y.h \in Nat /\ IsSeq(built) /\ AllSound(built) /\ Fits(built, x)
  BY DEF Ready, Held
<1>2. Len(built) \in Nat /\ k \in Nat /\ IsSeq(s) /\ Len(s) = k /\ \A i \in 1 .. k : s[i] = built[i]
  BY <1>1, Taken
<1>3. built' = Append(s, e)
  BY DEF Reduced
<1> HIDE DEF s
<1>4. \A i \in 1 .. k : i \in 1 .. Len(built)
  BY <1>2
<1>5. AllSound(s)
  BY <1>1, <1>2, <1>4 DEF AllSound
<1>6. /\ y.h = k + 1 /\ sort \subseteq y.at[y.h]
      /\ \A p \in 1 .. k : Kind(s[p]) \in y.at[p]
  <2>1. x.h = Len(built)
    BY <1>1 DEF Fits
  <2>2. y.h = k + 1 /\ Same(x, y, k) /\ sort \subseteq y.at[y.h]
    BY <2>1 DEF Turns
  <2>3. \A p \in 1 .. k : Kind(s[p]) \in x.at[p]
    BY <1>1, <1>2, <1>4 DEF Fits
  <2> QED BY <2>2, <2>3 DEF Same
<1>7. y.h = Len(s) + 1 /\ \A p \in 1 .. Len(s) : Kind(s[p]) \in y.at[p]
  BY <1>2, <1>6
<1>8. IsSeq(built') /\ AllSound(built') /\ Fits(built', y)
  BY <1>2, <1>3, <1>5, <1>6, <1>7, Topped
<1>9. Runs(<<>>, y, y)
  BY <1>1, Runs0
<1> QED BY <1>8, <1>9, GivesWay

\* An error leaves nothing built, and one thing to do.
LEMMA Thrown == Throw => Held'
<1> SUFFICES ASSUME Throw PROVE Held'
  OBVIOUS
<1> DEFINE it == Item("skip", "", "", 0)
           s == <<it>>
           x == [h |-> 0, at |-> <<>>]
           y == [h |-> 1, at |-> <<>>]
           g == <<x, y>>
<1>1. todo' = s /\ built' = <<>>
  BY DEF Throw
<1>2. it.do = "skip" /\ it.n = 0
  BY DEF Item
<1> HIDE DEF it
<1>3. s \in Seq({it}) /\ Len(s) = 1 /\ s[1] = it
  OBVIOUS
<1>4. g[1] = x /\ g[2] = y /\ x.h = 0 /\ y.h = 1
  OBVIOUS
<1> HIDE DEF s, g, x, y
<1>5. ItemOK(it) /\ Takes(it, x, y)
  BY <1>2, <1>4 DEF ItemOK, Takes
<1>6. Through(s, g)
  <2>1. \A i \in 1 .. 2 : g[i].h \in Nat
    BY <1>4
  <2> QED BY <1>2, <1>3, <1>4, <1>5, <2>1 DEF Through
<1>7. Leads(s, x)
  BY <1>3, <1>4, <1>5, <1>6 DEF Leads, IsSeq
<1>8. IsSeq(<<>>) /\ Len(<<>>) = 0
  BY EmptySeq DEF IsSeq
<1>9. AllSound(<<>>) /\ Fits(<<>>, x)
  BY <1>4, <1>8 DEF AllSound, Fits
<1> QED BY <1>1, <1>7, <1>8, <1>9 DEF Held

-----------------------------------------------------------------------------
(* The nodes made are sound, and of their sort.                             *)

\* What is open is made of its last part: an if that has no else, or a statement
\* that ends in one that is open.
LEMMA Opens ==
  ASSUME NEW e
  PROVE  /\ IsOpen(e) \in BOOLEAN
         /\ IsOpen(e) => /\ e.what \in Outer
                         /\ e.what = "If" => e.kids[3] = Null \/ IsOpen(e.kids[3])
                         /\ e.what = "While" => IsOpen(e.kids[2])
                         /\ e.what = "For" => IsOpen(e.kids[4])
<1>1. IsOpen(e) \in BOOLEAN
  BY DEF IsOpen
<1>2. ASSUME IsOpen(e)
      PROVE  /\ e.what \in Outer
             /\ e.what = "If" => e.kids[3] = Null \/ IsOpen(e.kids[3])
             /\ e.what = "While" => IsOpen(e.kids[2])
             /\ e.what = "For" => IsOpen(e.kids[4])
  <2>1. OpenLaw /\ Open(e)
    BY <1>2 DEF IsOpen
  <2>2. Open(e) = OpenBy(e, Open)
    BY <2>1 DEF OpenLaw
  <2>3. \/ e.what = "If" /\ (e.kids[3] = Null \/ Open(e.kids[3]))
        \/ e.what = "While" /\ Open(e.kids[2])
        \/ e.what = "For" /\ Open(e.kids[4])
    BY <2>1, <2>2 DEF OpenBy
  <2> QED BY <2>1, <2>3 DEF IsOpen, Outer
<1> QED BY <1>1, <1>2

LEMMA Leaves ==
  ASSUME NEW op
  PROVE  /\ Sound(Node("Token", op, <<>>)) /\ Kind(Node("Token", op, <<>>)) \in Only("Token")
         /\ Sound(Null) /\ Kind(Null) \in Only("null") /\ Null.what = "null"
         /\ \A what \in {"Literal", "Variable"} :
              Sound(Node(what, op, <<>>)) /\ Kind(Node(what, op, <<>>)) \in Expr(8)
         /\ \A kids : Sound(Node("list", op, kids)) /\ Kind(Node("list", op, kids)) \in Only("list")
<1>1. ASSUME NEW what \in {"Token", "null", "Literal", "Variable", "list"}, NEW kids,
             what = "null" => Node(what, op, kids) = Null
      PROVE  /\ Sound(Node(what, op, kids))
             /\ Kind(Node(what, op, kids)) = [what |-> what, strength |-> 8, open |-> FALSE]
  <2> DEFINE e == Node(what, op, kids)
  <2>1. e.what = what /\ Strength(e) = 8
    BY StrengthOf DEF Node
  <2> HIDE DEF e
  <2>2. Sound(e)
    BY <1>1, <2>1 DEF Sound, Binds, Declares, NearestIf, e
  <2>3. IsOpen(e) = FALSE
    BY <1>1, <2>1, Opens DEF Outer
  <2> QED BY <2>1, <2>2, <2>3 DEF Kind, e
<1>2. Null.what = "null"
  BY DEF Null, Node
<1>3. Sound(Null) /\ Kind(Null) = [what |-> "null", strength |-> 8, open |-> FALSE]
  <2>1. Strength(Null) = 8
    BY <1>2 DEF Strength
  <2>2. IsOpen(Null) = FALSE
    BY <1>2, Opens DEF Outer
  <2> QED BY <1>2, <2>1, <2>2 DEF Sound, Binds, Declares, NearestIf, Kind
<1>4. \A what \in {"Literal", "Variable"} :
        [what |-> what, strength |-> 8, open |-> FALSE] \in Expr(8)
  BY DEF Expr, Expressions
<1>5. \A what : [what |-> what, strength |-> 8, open |-> FALSE] \in Only(what)
  BY DEF Only
<1>6. Sound(Node("Token", op, <<>>)) /\ Kind(Node("Token", op, <<>>)) \in Only("Token")
  BY <1>1, <1>5
<1>7. \A what \in {"Literal", "Variable"} :
        Sound(Node(what, op, <<>>)) /\ Kind(Node(what, op, <<>>)) \in Expr(8)
  BY <1>1, <1>4
<1>8. \A kids : Sound(Node("list", op, kids)) /\ Kind(Node("list", op, kids)) \in Only("list")
  BY <1>1, <1>5
<1> QED BY <1>2, <1>3, <1>5, <1>6, <1>7, <1>8

LEMMA KindOf ==
  ASSUME NEW e
  PROVE  /\ Kind(e).what = e.what /\ Kind(e).strength = Strength(e) /\ Kind(e).open = IsOpen(e)
         /\ \A k : Kind(e) \in Expr(k) => e.what \in Expressions /\ Strength(e) \in k .. 8
         /\ Kind(e) \in Stmt => e.what \in Statements /\ Strength(e) = 8
         /\ Kind(e) \in Closed => e.what \in Statements /\ ~ IsOpen(e)
         /\ \A what : Kind(e) \in Only(what) => e.what = what
  BY DEF Kind, Expr, Stmt, Closed, Only

\* Children of suitable kinds make a sound node.
LEMMA SuitedIsSound ==
  ASSUME NEW what \in Nodes, NEW op, NEW sorts, NEW k \in Nat, Suit(what, op, sorts, k),
         NEW kids, Len(kids) = Arity(what),
         \A i \in 1 .. Arity(what) : Kind(kids[i]) \in sorts[k + i] /\ Sound(kids[i])
  PROVE  Sound(Node(what, op, kids)) /\ Kind(Node(what, op, kids)) \in Made(what, op)
<1> DEFINE e == Node(what, op, kids)
<1>1. e.what = what /\ e.op = op /\ e.kids = kids
  BY DEF Node
<1> HIDE DEF e
<1>2. Kind(e) \in Made(what, op)
  <2>1. Strength(e) = Strength(Node(what, op, <<>>))
    BY DEF Strength, Node, e
  <2>2. IsOpen(e) \in BOOLEAN /\ (what \notin Outer => IsOpen(e) = FALSE)
    BY <1>1, Opens
  <2> QED BY <1>1, <2>1, <2>2 DEF Kind, Made
<1>3. what \in {"Binary", "Logical"} =>
        LET loose == IF op = "kOr" THEN 2 ELSE 1 IN
        /\ Strength(kids[loose]) >= Strength(e)
        /\ Strength(kids[3 - loose]) > Strength(e)
  <2> SUFFICES ASSUME what \in {"Binary", "Logical"}
               PROVE  LET loose == IF op = "kOr" THEN 2 ELSE 1 IN
                      /\ Strength(kids[loose]) >= Strength(e)
                      /\ Strength(kids[3 - loose]) > Strength(e)
    OBVIOUS
  <2>1. PICK l \in Levels :
          /\ op \in Ops[l] /\ what = OpNode(l)
          /\ sorts[k + 1] \subseteq Expr(IF l = "logical_or" THEN 2 ELSE Rank[l])
          /\ sorts[k + 2] \subseteq Expr(IF l = "logical_or" THEN 1 ELSE Rank[l] + 1)
    BY DEF Suit
  <2>2. Strength(e) = Rank[l] /\ Rank[l] \in 1 .. 6
    BY <2>1, StrengthOf, Ranks DEF e
  <2>3. Arity(what) = 2
    BY Arities
  <2>4. Kind(kids[1]) \in sorts[k + 1] /\ Kind(kids[2]) \in sorts[k + 2]
    BY <2>3
  <2>5. /\ op = "kOr" <=> l = "logical_or"
        /\ l = "logical_or" => Rank[l] = 1
    <3>1. "logical_or" \in Levels /\ Ops["logical_or"] = {"kOr"} /\ Rank["logical_or"] = 1
      BY LevelSet DEF Ops, Rank
    <3> QED BY <2>1, <3>1, OneLevel
  <2>6. CASE l = "logical_or"
    <3>1. Strength(kids[1]) \in 2 .. 8 /\ Strength(kids[2]) \in 1 .. 8
      BY <2>1, <2>4, <2>6, KindOf
    <3> QED BY <2>2, <2>5, <2>6, <3>1
  <2>7. CASE l # "logical_or"
    <3>1. Strength(kids[1]) \in Rank[l] .. 8 /\ Strength(kids[2]) \in Rank[l] + 1 .. 8
      BY <2>1, <2>4, <2>7, KindOf
    <3> QED BY <2>2, <2>5, <2>7, <3>1
  <2> QED BY <2>6, <2>7
<1>4. Binds(e)
  <2>1. what = "Unary" => Strength(kids[1]) >= 7
    <3>1. what = "Unary" => Kind(kids[1]) \in Expr(7)
      BY Arities DEF Suit
    <3> QED BY <3>1, KindOf
  <2>2. what = "Call" => Strength(kids[1]) = 8
    <3>1. what = "Call" => Kind(kids[1]) \in Expr(8)
      BY Arities DEF Suit
    <3>2. what = "Call" => Strength(kids[1]) \in 8 .. 8
      BY <3>1, KindOf
    <3> QED BY <3>2
  <2>3. what = "Assignment" => kids[1].what = "Variable"
    <3>1. what = "Assignment" => Kind(kids[1]).what = "Variable"
      BY Arities DEF Suit
    <3> QED BY <3>1, KindOf
  <2> QED BY <1>1, <1>3, <2>1, <2>2, <2>3 DEF Binds
<1>5. Declares(e)
  <2>1. \A d : \/ Kind(d) \in Expr(0) \/ Kind(d) \in Stmt \/ Kind(d) \in Only("null")
                 => d.what \notin {"Function", "Var"}
    BY KindOf DEF Expressions, Statements
  <2>2. \A d, sort : Kind(d) \in Maybe(sort) => Kind(d) \in sort \/ Kind(d) \in Only("null")
    BY DEF Maybe
  <2>3. ASSUME what \in {"If", "While"}, NEW i \in 1 .. Arity(what)
        PROVE  kids[i].what \notin {"Function", "Var"}
    <3>1. Kind(kids[i]) \in sorts[k + i] /\ i \in 1 .. 3 /\ (what = "While" => i \in 1 .. 2)
      BY <2>3, Arities
    <3>2. Kind(kids[i]) \in Expr(0) \/ Kind(kids[i]) \in Stmt \/ Kind(kids[i]) \in Maybe(Stmt)
      BY <2>3, <3>1 DEF Suit
    <3> QED BY <2>1, <2>2, <3>2
  <2>4. ASSUME what = "For"
        PROVE  /\ \A i \in 2 .. 4 : kids[i].what \notin {"Function", "Var"}
               /\ kids[1].what \in {"null", "Var", "Expression"}
    <3>1. \A i \in 1 .. 4 : Kind(kids[i]) \in sorts[k + i]
      BY <2>4, Arities
    <3>2. Kind(kids[1]) \in First
      BY <2>4, <3>1 DEF Suit
    <3>3. ASSUME NEW i \in 2 .. 4 PROVE Kind(kids[i]) \in Maybe(Expr(0)) \/ Kind(kids[i]) \in Stmt
      BY <2>4, <3>1 DEF Suit
    <3>4. kids[1].what \in {"null", "Var", "Expression"}
      BY <3>2, KindOf DEF First, Maybe
    <3> QED BY <2>1, <2>2, <3>3, <3>4
  <2>5. Arity("For") = 4
    BY Arities
  <2> QED BY <1>1, <2>3, <2>4, <2>5 DEF Declares
<1>6. NearestIf(e)
  <2> SUFFICES ASSUME what = "If", kids[3] # Null PROVE ~ IsOpen(kids[2])
    BY <1>1 DEF NearestIf
  <2>1. /\ Kind(kids[2]) \in sorts[k + 2] /\ Kind(kids[3]) \in sorts[k + 3] /\ Sound(kids[3])
        /\ sorts[k + 2] \subseteq Closed \/ sorts[k + 3] \subseteq Only("null")
    BY Arities DEF Suit
  <2>2. Kind(kids[3]) \notin Only("null")
    BY <2>1, KindOf DEF Sound
  <2> QED BY <2>1, <2>2, KindOf
<1>7. what # "null"
  BY DEF Nodes
<1> QED BY <1>1, <1>2, <1>4, <1>5, <1>6, <1>7 DEF Sound, e

-----------------------------------------------------------------------------
(* What is held, action by action.                                          *)

LEMMA TurnsWeaker ==
  ASSUME NEW x, NEW y, NEW n, NEW sort, Turns(x, y, n, sort), NEW part, part \subseteq sort
  PROVE  Turns(x, y, n, part)
  BY DEF Turns

LEMMA SortsOf ==
  ASSUME NEW it, NEW x, NEW y, Takes(it, x, y)
  PROVE  /\ it.do = "call" /\ it.what \in Functions => Turns(x, y, 0, Result(it.what))
         /\ it.do = "call" /\ it.what = "assigned?" =>
              x.h >= 1 /\ x.at[x.h] \subseteq Expr(0) /\ Turns(x, y, 1, Expr(0))
         /\ it.do = "call" /\ it.what = "assigned!" =>
              x.h >= 2 /\ x.at[x.h] \subseteq Expr(0) /\ Turns(x, y, 2, Expr(0))
         /\ it.do = "expect" => y.h = x.h /\ Same(x, y, x.h)
         /\ it.do = "take" => Turns(x, y, 0, Only("Token"))
         /\ it.do = "unless" => Turns(x, y, 0, Maybe(Expr(0)))
         /\ it.do = "opt" /\ it.kind # "kElse" => Turns(x, y, 0, Maybe(Expr(0)))
         /\ it.do = "loop" /\ it.what \in Repeats =>
              x.h >= 1 /\ x.at[x.h] \subseteq Operands(it.what) /\ Turns(x, y, 1, Operands(it.what))
         /\ it.do = "make" => /\ Turns(x, y, Arity(it.what), Made(it.what, it.kind))
                              /\ Suit(it.what, it.kind, x.at, x.h - Arity(it.what))
  BY DEF Takes

\* Where the sort on top is one that turns into itself.
LEMMA Settles ==
  ASSUME NEW x, NEW y, Ready(x, y), NEW sort, x.h >= 1, x.at[x.h] \subseteq sort,
         Turns(x, y, 1, sort)
  PROVE  Fits(built, y)
<1>1. x.h = Len(built) /\ x.h \in Nat /\ \A p \in 1 .. x.h : Kind(built[p]) \in x.at[p]
  BY DEF Ready, Fits
<1>2. y.h = x.h /\ sort \subseteq y.at[x.h] /\ \A p \in 1 .. x.h - 1 : y.at[p] = x.at[p]
  BY <1>1 DEF Turns, Same
<1>3. ASSUME NEW p \in 1 .. x.h PROVE Kind(built[p]) \in y.at[p]
  <2>1. CASE p = x.h
    BY <1>1, <1>2, <2>1
  <2>2. CASE p # x.h
    <3>1. p \in 1 .. x.h - 1
      BY <1>1, <2>2
    <3> QED BY <1>1, <1>2, <3>1
  <2> QED BY <2>1, <2>2
<1> QED BY <1>1, <1>2, <1>3 DEF Fits

\* A layout that says more of the node at place p.
Refine(x, p, sort) == [h |-> x.h, at |-> [i \in 1 .. x.h |-> IF i = p THEN sort ELSE x.at[i]]]

LEMMA Refined ==
  ASSUME NEW x, NEW p, NEW sort, x.h \in Nat, p \in 1 .. x.h
  PROVE  LET z == Refine(x, p, sort)
         IN  /\ z.h = x.h /\ z.at[p] = sort
             /\ \A i \in 1 .. x.h : i # p => z.at[i] = x.at[i]
             /\ Fits(built, x) /\ Kind(built[p]) \in sort => Fits(built, z)
<1> DEFINE z == Refine(x, p, sort)
<1>1. /\ z.h = x.h /\ z.at[p] = sort
      /\ \A i \in 1 .. x.h : i # p => z.at[i] = x.at[i]
  BY DEF Refine
<1> HIDE DEF z
<1>2. ASSUME Fits(built, x), Kind(built[p]) \in sort PROVE Fits(built, z)
  <2>1. x.h = Len(built) /\ \A i \in 1 .. x.h : Kind(built[i]) \in x.at[i]
    BY <1>2 DEF Fits
  <2>2. \A i \in 1 .. x.h : Kind(built[i]) \in z.at[i]
    BY <1>1, <1>2, <2>1
  <2> QED BY <1>1, <2>1, <2>2 DEF Fits
<1> QED BY <1>1, <1>2 DEF z

LEMMA Chosen ==
  \A f \in DOMAIN Chooses :
    /\ f \in Functions /\ Otherwise[f] \in Functions /\ Result(Otherwise[f]) \subseteq Result(f)
    /\ \A k \in DOMAIN Chooses[f] :
         Chooses[f][k] \in Functions /\ Result(Chooses[f][k]) \subseteq Result(f)
<1> DEFINE leaf == {"print_stmt", "block_stmt", "if_stmt", "while_stmt", "for_stmt", "return_stmt"}
<1>1. DOMAIN Chooses = {"next_declaration", "next_statement", "initializer"}
  BY DEF Chooses
<1>2. {"next_declaration", "next_statement", "initializer", "expr_stmt", "var_decl",
       "function_decl", "nothing"} \cup leaf \subseteq Functions
  BY DEF Functions, Body, Chooses
<1>3. leaf \cup {"next_statement"} \subseteq StmtFunctions \ {"expr_stmt"}
  BY DEF StmtFunctions
<1>4. /\ \A f \in leaf : Result(f) = Stmt
      /\ Result("next_statement") = Stmt
      /\ Result("expr_stmt") \subseteq Stmt
  BY <1>3, Results, Between
<1>5. /\ Result("var_decl") \subseteq Result("next_declaration")
      /\ Result("function_decl") \subseteq Result("next_declaration")
      /\ Result("next_statement") \subseteq Result("next_declaration")
  BY <1>4, Results
<1>6. /\ Result("var_decl") \subseteq Result("initializer")
      /\ Result("nothing") \subseteq Result("initializer")
      /\ Result("expr_stmt") \subseteq Result("initializer")
  BY Results DEF First, Maybe
<1>7. \A f \in DOMAIN Chooses :
        /\ f \in Functions /\ Otherwise[f] \in Functions
        /\ Result(Otherwise[f]) \subseteq Result(f)
  BY <1>1, <1>2, <1>4, <1>5, <1>6 DEF Otherwise
<1>8. /\ \A k \in DOMAIN Chooses["next_declaration"] :
           Chooses["next_declaration"][k] \in {"var_decl", "function_decl"}
      /\ \A k \in DOMAIN Chooses["next_statement"] : Chooses["next_statement"][k] \in leaf
      /\ \A k \in DOMAIN Chooses["initializer"] :
           Chooses["initializer"][k] \in {"var_decl", "nothing"}
  BY DEF Chooses
<1>9. ASSUME NEW f \in DOMAIN Chooses, NEW k \in DOMAIN Chooses[f]
      PROVE  Chooses[f][k] \in Functions /\ Result(Chooses[f][k]) \subseteq Result(f)
  <2> DEFINE g == Chooses[f][k]
  <2>1. \/ f = "next_declaration" /\ g \in {"var_decl", "function_decl"}
        \/ f = "next_statement" /\ g \in leaf
        \/ f = "initializer" /\ g \in {"var_decl", "nothing"}
    BY <1>1, <1>8
  <2> HIDE DEF g
  <2>2. g \in Functions /\ Result(g) \subseteq Result(f)
    BY <1>2, <1>4, <1>5, <1>6, <2>1
  <2> QED BY <2>2 DEF g
<1> QED BY <1>7, <1>9

LEMMA LevelsCall ==
  \A l \in Levels :
    /\ l \in Functions /\ l \in Repeats /\ Rank[l] \in 1 .. 6
    /\ Result(l) = Expr(Rank[l]) /\ Operands(l) = Expr(Rank[l])
    /\ Operand[l] \in Functions /\ Result(Operand[l]) = Expr(Rank[l] + 1)
    /\ RightOperand(l) \in Functions
    /\ Result(RightOperand(l)) = Expr(IF l = "logical_or" THEN 1 ELSE Rank[l] + 1)
    /\ OpNode(l) \in Nodes /\ Arity(OpNode(l)) = 2 /\ OpNode(l) \in {"Binary", "Logical"}
<1> TAKE l \in Levels
<1>1. l \in Functions /\ l \in Repeats /\ Rank[l] \in 1 .. 6 /\ Result(l) = Expr(Rank[l])
  BY Called, Ranks, Results
<1>2. Operands(l) = Expr(Rank[l])
  BY LevelSet DEF Operands
<1>3. \/ Operand[l] \in Levels /\ Rank[Operand[l]] = Rank[l] + 1
      \/ Operand[l] = "unary" /\ Rank[l] + 1 = 7
  BY LevelSet DEF Operand, Rank
<1>4. Operand[l] \in Functions /\ Result(Operand[l]) = Expr(Rank[l] + 1)
  BY <1>3, Called, Results
<1>5. /\ RightOperand(l) \in Functions
      /\ Result(RightOperand(l)) = Expr(IF l = "logical_or" THEN 1 ELSE Rank[l] + 1)
  <2>1. CASE l = "logical_or"
    <3>1. RightOperand(l) = l /\ Rank[l] = 1
      BY <2>1 DEF RightOperand, Rank
    <3> QED BY <1>1, <2>1, <3>1
  <2>2. CASE l # "logical_or"
    BY <1>4, <2>2 DEF RightOperand
  <2> QED BY <2>1, <2>2
<1>6. OpNode(l) \in Nodes /\ Arity(OpNode(l)) = 2 /\ OpNode(l) \in {"Binary", "Logical"}
  BY Arities DEF OpNode, Nodes
<1> QED BY <1>1, <1>2, <1>4, <1>5, <1>6

\* One call that leaves what is wanted.
LEMMA CallsOn ==
  ASSUME Held, NEW x, NEW y, Ready(x, y), built' = built, NEW f \in Functions, Then(<<Call(f)>>),
         NEW sort, Turns(x, y, 0, sort), Result(f) \subseteq sort
  PROVE  Held'
<1>1. x.h \in Nat
  BY DEF Ready
<1>2. Lifts(Call(f), x, y, x.h)
  BY <1>1, TurnsWeaker, CallStep
<1>3. Runs(<<Call(f)>>, x, y)
  BY <1>2, Runs1
<1> QED BY <1>3, Expands

LEMMA EnterHeld == Held /\ Enter => Held'
<1> SUFFICES ASSUME Held, Enter PROVE Held'
  OBVIOUS
<1> DEFINE f == Top.what
<1>1. todo # <<>> /\ Top.do = "call" /\ built' = built
  BY DEF Enter, Doing
<1>2. PICK x, y : Ready(x, y)
  BY <1>1, TopFits
<1>3. x.h \in Nat /\ Takes(Top, x, y)
  BY <1>2 DEF Ready
<1>4. CASE f \in DOMAIN Body /\ Then(Body[f])
  <2>1. f \in Functions
    BY <1>4 DEF Functions
  <2>2. Turns(x, y, 0, Result(f))
    BY <1>1, <1>3, <2>1, SortsOf
  <2>3. Runs(Body[f], x, y)
    BY <1>3, <1>4, <2>2, BodyRuns
  <2> QED BY <1>1, <1>2, <1>4, <2>3, Expands
<1>5. CASE f \in Levels /\ Then(<<Call(Operand[f]), Loop(f, 0)>>)
  <2> DEFINE x1 == Push(x, Expr(Rank[f] + 1))
             l == f
  <2>1. /\ l \in Functions /\ l \in Repeats /\ Rank[l] \in 1 .. 6 /\ Result(l) = Expr(Rank[l])
        /\ Operands(l) = Expr(Rank[l])
        /\ Operand[l] \in Functions /\ Result(Operand[l]) = Expr(Rank[l] + 1)
    BY <1>5, LevelsCall
  <2>2. Turns(x, y, 0, Operands(l))
    BY <1>1, <1>3, <2>1, SortsOf
  <2>3. /\ x1.h = x.h + 1 /\ Same(x, x1, x.h) /\ x1.at[x1.h] = Expr(Rank[l] + 1)
        /\ Turns(x, x1, 0, Expr(Rank[l] + 1))
    BY <1>3, Pushed
  <2>4. Expr(Rank[l] + 1) \subseteq Operands(l)
    <3>1. Rank[l] \in 0 .. 9 /\ Rank[l] + 1 \in 0 .. 9 /\ Rank[l] <= Rank[l] + 1
      BY <2>1
    <3> QED BY <2>1, <3>1, TighterFits
  <2> HIDE DEF x1, l
  <2>5. Lifts(Call(Operand[l]), x, x1, x.h)
    BY <1>3, <2>1, <2>3, CallStep
  <2>6. Turns(x1, y, 1, Operands(l))
    BY <1>3, <2>2, <2>3, TurnsAfter
  <2>7. Lifts(Loop(l, 0), x1, y, x.h)
    BY <1>3, <2>1, <2>3, <2>4, <2>6, LoopSteps
  <2>8. Runs(<<Call(Operand[l]), Loop(l, 0)>>, x, y)
    BY <2>5, <2>7, Runs2
  <2> QED BY <1>1, <1>2, <1>5, <2>8, Expands DEF l
<1> QED BY <1>4, <1>5 DEF Enter

LEMMA ChooseHeld == Held /\ Choose => Held'
<1> SUFFICES ASSUME Held, Choose PROVE Held'
  OBVIOUS
<1>1. /\ todo # <<>> /\ Top.do = "call" /\ built' = built /\ Top.what \in DOMAIN Chooses
  BY DEF Choose, Doing
<1>2. PICK x, y : Ready(x, y)
  BY <1>1, TopFits
<1>3. Turns(x, y, 0, Result(Top.what))
  BY <1>1, <1>2, Chosen, SortsOf DEF Ready
<1>4. PICK f \in Functions : Then(<<Call(f)>>) /\ Result(f) \subseteq Result(Top.what)
  BY <1>1, Chosen DEF Choose
<1> QED BY <1>1, <1>2, <1>3, <1>4, CallsOn

LEMMA NothingHeld == Held /\ Nothing => Held'
<1> SUFFICES ASSUME Held, Nothing PROVE Held'
  OBVIOUS
<1>1. /\ todo # <<>> /\ Top.do = "call" /\ Top.what = "nothing"
      /\ Then(<<>>) /\ built' = Append(built, Null)
  BY DEF Nothing, Calling, Doing
<1>2. PICK x, y : Ready(x, y)
  BY <1>1, TopFits
<1>3. "nothing" \in Functions /\ Result("nothing") = Only("null")
  BY Called, Results
<1>4. Turns(x, y, 0, Only("null"))
  BY <1>1, <1>2, <1>3, SortsOf DEF Ready
<1> QED BY <1>1, <1>2, <1>4, Leaves, Adds

LEMMA WantHeld == Held /\ Want => Held'
<1> SUFFICES ASSUME Held, Want PROVE Held'
  OBVIOUS
<1>1. todo # <<>> /\ Top.do = "expect"
  BY DEF Want, Doing
<1>2. PICK x, y : Ready(x, y)
  BY <1>1, TopFits
<1>3. y.h = x.h /\ Same(x, y, x.h)
  BY <1>1, <1>2, SortsOf DEF Ready
<1>4. Fits(built, y)
  BY <1>2, <1>3 DEF Ready, Fits, Same
<1>5. CASE Then(<<>>) /\ built' = built
  BY <1>2, <1>4, <1>5, Passes
<1> QED BY <1>5, Thrown DEF Want

LEMMA IdentifierHeld == Held /\ Identifier => Held'
<1> SUFFICES ASSUME Held, Identifier PROVE Held'
  OBVIOUS
<1>1. todo # <<>> /\ Top.do = "call" /\ Top.what = "identifier"
  BY DEF Identifier, Calling, Doing
<1>2. PICK x, y : Ready(x, y)
  BY <1>1, TopFits
<1>3. "identifier" \in Functions /\ Result("identifier") = Only("Token")
  BY Called, Results
<1>4. Turns(x, y, 0, Only("Token"))
  BY <1>1, <1>2, <1>3, SortsOf DEF Ready
<1>5. CASE Then(<<>>) /\ built' = Append(built, Node("Token", ahead, <<>>))
  BY <1>2, <1>4, <1>5, Leaves, Adds
<1> QED BY <1>5, Thrown DEF Identifier

LEMMA TakeNameHeld == Held /\ TakeName => Held'
<1> SUFFICES ASSUME Held, TakeName PROVE Held'
  OBVIOUS
<1>1. /\ todo # <<>> /\ Top.do = "take" /\ Then(<<>>)
      /\ built' = Append(built, Node("Token", ahead, <<>>))
  BY DEF TakeName, Doing
<1>2. PICK x, y : Ready(x, y)
  BY <1>1, TopFits
<1>3. Turns(x, y, 0, Only("Token"))
  BY <1>1, <1>2, SortsOf DEF Ready
<1> QED BY <1>1, <1>2, <1>3, Leaves, Adds

LEMMA PossibleHeld == Held /\ Possible => Held'
<1> SUFFICES ASSUME Held, Possible PROVE Held'
  OBVIOUS
<1>1. todo # <<>> /\ Top.do = "unless"
  BY DEF Possible, Doing
<1>2. PICK x, y : Ready(x, y)
  BY <1>1, TopFits
<1>3. Turns(x, y, 0, Maybe(Expr(0)))
  BY <1>1, <1>2, SortsOf DEF Ready
<1>4. CASE Then(<<>>) /\ built' = Append(built, Null)
  BY <1>2, <1>3, <1>4, Leaves, Between, Adds
<1>5. CASE Then(<<Call("next_expression")>>) /\ built' = built
  <2>1. "next_expression" \in Functions /\ Result("next_expression") \subseteq Maybe(Expr(0))
    BY Called, Results, Between
  <2> QED BY <1>2, <1>3, <1>5, <2>1, CallsOn
<1> QED BY <1>4, <1>5 DEF Possible

LEMMA MakeNodeHeld == Held /\ MakeNode => Held'
<1> SUFFICES ASSUME Held, MakeNode PROVE Held'
  OBVIOUS
<1> DEFINE n == Arity(Top.what)
           k == Len(built) - n
           kids == SubSeq(built, k + 1, Len(built))
           e == Node(Top.what, Top.kind, kids)
<1>1. todo # <<>> /\ Top.do = "make" /\ Then(<<>>) /\ built' = Reduced(Top.what, Top.kind, n)
  BY DEF MakeNode, Doing
<1>2. ItemOK(Top) /\ Len(built) \in Nat
  BY <1>1, TopFits
<1>3. Top.what \in Nodes
  BY <1>1, <1>2 DEF ItemOK
<1>4. n \in 1 .. 4
  BY <1>3, Arities
<1>5. PICK x, y : Ready(x, y) /\ x.h = Len(built)
  BY <1>1, TopFits
<1>6. Turns(x, y, n, Made(Top.what, Top.kind)) /\ Suit(Top.what, Top.kind, x.at, x.h - n)
  BY <1>1, <1>5, SortsOf DEF Ready
<1> HIDE DEF n
<1>7. n \in Nat /\ n <= Len(built)
  BY <1>4, <1>5, <1>6 DEF Turns
<1>8. /\ IsSeq(built) /\ AllSound(built) /\ Fits(built, x)
  BY <1>5 DEF Held, Ready
<1>9. k \in Nat /\ Len(kids) = n /\ \A i \in 1 .. n : kids[i] = built[k + i]
  BY <1>7, <1>8, Taken
<1> HIDE DEF kids
<1>10. ASSUME NEW i \in 1 .. n PROVE Kind(kids[i]) \in x.at[k + i] /\ Sound(kids[i])
  <2>1. k + i \in 1 .. Len(built)
    BY <1>2, <1>7, <1>9
  <2>2. kids[i] = built[k + i]
    BY <1>9
  <2> QED BY <1>8, <2>1, <2>2 DEF Fits, AllSound
<1>11. Suit(Top.what, Top.kind, x.at, k)
  BY <1>5, <1>6
<1> HIDE DEF k
<1>12. Sound(e) /\ Kind(e) \in Made(Top.what, Top.kind)
  BY <1>3, <1>9, <1>10, <1>11, SuitedIsSound DEF n
<1> HIDE DEF e
<1>13. e = Node(Top.what, Top.kind, SubSeq(built, Len(built) - n + 1, Len(built)))
  BY DEF e, kids, k
<1> QED BY <1>1, <1>5, <1>6, <1>7, <1>12, <1>13, Gathers

\* The last node says more than its place does: it is not open.
LEMMA ElseHeld ==
  ASSUME Held, Doing("opt"), Top.kind = "kElse", built' = built,
         ~ IsOpen(built[Len(built)]), Then(<<Call("next_statement")>>)
  PROVE  Held'
<1>1. todo # <<>> /\ Top.do = "opt"
  BY DEF Doing
<1>2. PICK x, y : Ready(x, y) /\ x.h = Len(built)
  BY <1>1, TopFits
<1> DEFINE h == x.h
           z == Refine(x, h, Closed)
<1>3. /\ x.h >= 1 /\ x.at[x.h] \subseteq Stmt /\ y.h = x.h + 1 /\ Same(x, y, x.h - 1)
      /\ y.at[x.h] = Closed /\ y.at[y.h] = Maybe(Stmt) /\ x.h \in Nat /\ Fits(built, x)
  BY <1>1, <1>2 DEF Ready, Takes
<1>4. h \in 1 .. h /\ Kind(built[h]) \in Closed
  <2>1. h \in 1 .. h
    BY <1>3
  <2>2. Kind(built[h]) \in Stmt
    BY <1>2, <1>3, <2>1 DEF Fits
  <2>3. Kind(built[h]).open = FALSE
    BY <1>2, KindOf, Opens
  <2> QED BY <2>1, <2>2, <2>3 DEF Stmt, Closed
<1>5. /\ z.h = h /\ z.at[h] = Closed /\ Fits(built, z)
      /\ \A i \in 1 .. h : i # h => z.at[i] = x.at[i]
  BY <1>3, <1>4, Refined
<1> HIDE DEF z
<1>6. Same(z, y, h)
  <2>1. ASSUME NEW i \in 1 .. h PROVE y.at[i] = z.at[i]
    <3>1. i = h \/ (i # h /\ i \in 1 .. h - 1)
      BY <1>3
    <3> QED BY <1>3, <1>5, <3>1 DEF Same
  <2> QED BY <2>1 DEF Same
<1>7. Turns(z, y, 0, Maybe(Stmt))
  BY <1>3, <1>5, <1>6 DEF Turns
<1>8. "next_statement" \in Functions /\ Result("next_statement") = Stmt
  BY Called, Results
<1>9. Turns(z, y, 0, Stmt)
  BY <1>7, Between, TurnsWeaker
<1>10. Lifts(Call("next_statement"), z, y, h)
  BY <1>3, <1>5, <1>8, <1>9, CallStep
<1>11. Runs(<<Call("next_statement")>>, z, y)
  BY <1>5, <1>10, Runs1
<1>12. IsSeq(built') /\ AllSound(built') /\ Fits(built', z) /\ z.h \in {x.h, y.h}
  BY <1>5 DEF Held
<1> QED BY <1>2, <1>11, <1>12, GivesWay

LEMMA HeadAndTail ==
  ASSUME NEW t, IsSeq(t), t # <<>>
  PROVE  <<t[1]>> \o Tail(t) = t /\ IsSeq(Tail(t)) /\ <<>> \o Tail(t) = Tail(t)
<1>1. PICK S : t \in Seq(S)
  BY DEF IsSeq
<1>2. Tail(t) \in Seq(S) /\ Head(t) = t[1] /\ t[1] \in S
  BY <1>1, HeadTailProperties
<1>3. <<t[1]>> \o Tail(t) = t
  BY <1>1, <1>2
<1>4. <<>> \o Tail(t) = Tail(t)
  BY <1>2, ConcatEmptySeq
<1> QED BY <1>2, <1>3, <1>4 DEF IsSeq

\* Without an else, the if may be made of whatever statement comes before.
LEMMA NoElseHeld ==
  ASSUME Held, Doing("opt"), Top.kind = "kElse", Then(<<>>), built' = Append(built, Null),
         Tail(todo) # <<>>, Tail(todo)[1].do = "make", Tail(todo)[1].what = "If"
  PROVE  Held'
<1> DEFINE t == Tail(todo)
           it == t[1]
<1>1. todo # <<>> /\ Top.do = "opt"
  BY DEF Doing
<1>2. PICK x, y : Ready(x, y) /\ x.h = Len(built)
  BY <1>1, TopFits
<1> DEFINE z == Push(x, Only("null"))
<1>3. /\ x.h >= 1 /\ x.at[x.h] \subseteq Stmt /\ y.h = x.h + 1 /\ Same(x, y, x.h - 1)
      /\ x.h \in Nat /\ y.h \in Nat /\ Fits(built, x)
  BY <1>1, <1>2 DEF Ready, Takes
<1>4. IsSeq(todo)
  BY <1>1, TopFits
<1>5. Leads(t, y)
  <2>1. Runs(<<>>, y, y)
    BY <1>3, Runs0
  <2>2. Leads(<<>> \o t, y)
    BY <1>2, <2>1 DEF Ready
  <2> QED BY <1>1, <1>4, <2>2, HeadAndTail
<1>6. todo' = t
  BY <1>1, <1>4, HeadAndTail DEF Then
<1> HIDE DEF t
<1>7. PICK w : /\ w.h \in Nat /\ Takes(it, y, w)
               /\ \A u, v : Runs(u, v, w) /\ v.h \in {y.h, w.h} => Leads(u \o Tail(t), v)
  BY <1>3, <1>5, FirstLeads DEF t
<1>8. /\ Turns(y, w, 3, Made("If", it.kind)) /\ Suit("If", it.kind, y.at, y.h - 3)
      /\ ItemOK(it) /\ it.n = 0 /\ it.do = "make" /\ it.what = "If"
  <2>1. Arity("If") = 3
    BY Arities
  <2>2. ItemOK(it)
    BY <1>3, <1>5, FirstLeads DEF t
  <2> QED BY <1>7, <2>1, <2>2, SortsOf DEF t, ItemOK
<1>9. /\ z.h = x.h + 1 /\ z.at[x.h + 1] = Only("null")
      /\ \A p \in 1 .. x.h : z.at[p] = x.at[p]
      /\ Turns(x, z, 0, Only("null"))
  BY <1>3, Pushed
<1> HIDE DEF z, it
<1>10. x.h >= 2 /\ y.h - 3 = x.h - 2 /\ w.h = x.h - 1 /\ Same(y, w, x.h - 2)
  BY <1>3, <1>8 DEF Turns
<1>11. \A p \in 1 .. x.h - 1 : y.at[p] = z.at[p]
  BY <1>3, <1>9 DEF Same
<1>12. Turns(z, w, 3, Made("If", it.kind))
  <2>1. Same(z, w, x.h - 2)
    BY <1>3, <1>10, <1>11 DEF Same
  <2>2. z.h - 3 = x.h - 2 /\ z.h >= 3 /\ w.h = z.h - 3 + 1
    BY <1>3, <1>9, <1>10
  <2> QED BY <1>8, <2>1, <2>2 DEF Turns
<1>13. Suit("If", it.kind, z.at, z.h - 3)
  <2> DEFINE k == x.h - 2
  <2>1. z.h - 3 = k /\ k + 1 = x.h - 1 /\ k + 2 = x.h /\ k + 3 = x.h + 1 /\ x.h - 1 \in 1 .. x.h - 1
    <3>1. \A h \in Nat : h >= 2 =>
            /\ (h + 1) - 3 = h - 2 /\ (h - 2) + 1 = h - 1 /\ (h - 2) + 2 = h /\ (h - 2) + 3 = h + 1
            /\ h - 1 \in 1 .. h - 1
      OBVIOUS
    <3>2. x.h \in Nat /\ x.h >= 2 /\ z.h = x.h + 1
      BY <1>3, <1>9, <1>10
    <3> QED BY ONLY <3>1, <3>2
  <2>2. y.at[k + 1] \subseteq Expr(0)
    BY <1>8, <1>10 DEF Suit
  <2> HIDE DEF k
  <2>3. z.at[k + 1] \subseteq Expr(0)
    BY <1>11, <2>1, <2>2
  <2>4. z.at[k + 2] \subseteq Stmt
    <3>1. x.h \in 1 .. x.h
      BY <1>3
    <3>2. z.at[x.h] = x.at[x.h]
      BY <1>9, <3>1
    <3> QED BY <1>3, <2>1, <3>2
  <2>5. z.at[k + 3] \subseteq Only("null") /\ z.at[k + 3] \subseteq Maybe(Stmt)
    BY <1>9, <2>1, Between
  <2> QED BY <2>1, <2>3, <2>4, <2>5 DEF Suit
<1>14. Lifts(it, z, w, w.h)
  <2>1. Takes(it, z, w)
    BY <1>8, <1>12, <1>13, Arities DEF Takes
  <2> QED BY <1>3, <1>7, <1>8, <1>9, <1>10, <2>1 DEF Lifts
<1>15. Runs(<<it>>, z, w)
  BY <1>14, Runs1
<1>16. Leads(t, z)
  <2>1. Leads(<<it>> \o Tail(t), z)
    BY <1>3, <1>7, <1>9, <1>15
  <2>2. IsSeq(t) /\ t # <<>>
    BY <1>5 DEF Leads, t
  <2> QED BY <2>1, <2>2, HeadAndTail DEF it
<1>17. IsSeq(built') /\ AllSound(built') /\ Fits(built', z)
  <2>1. IsSeq(built) /\ AllSound(built) /\ Len(built) \in Nat
    BY <1>2, <1>3 DEF Held
  <2>2. \A p \in 1 .. Len(built) : Kind(built[p]) \in z.at[p]
    BY <1>2, <1>3, <1>9 DEF Fits
  <2>3. z.h = Len(built) + 1 /\ Only("null") \subseteq z.at[z.h]
    BY <1>2, <1>9
  <2> QED BY <2>1, <2>2, <2>3, Leaves, Topped
<1> QED BY <1>6, <1>16, <1>17 DEF Held

LEMMA OptionalHeld ==
  ASSUME Held, Optional,
         Top.kind = "kElse" => /\ ahead = "kElse" => ~ IsOpen(built[Len(built)])
                               /\ Tail(todo) # <<>> /\ Tail(todo)[1].do = "make"
                               /\ Tail(todo)[1].what = "If"
  PROVE  Held'
<1>1. todo # <<>> /\ Top.do = "opt" /\ Doing("opt")
  BY DEF Optional, Doing
<1>2. CASE Top.kind = "kElse"
  <2>1. CASE ahead = "kElse"
    <3>1. Then(<<Call("next_statement")>>) /\ built' = built
      BY <1>2, <2>1 DEF Optional
    <3> QED BY <1>1, <1>2, <2>1, <3>1, ElseHeld
  <2>2. CASE ahead # "kElse"
    <3>1. Then(<<>>) /\ built' = Append(built, Null)
      BY <1>2, <2>2 DEF Optional
    <3> QED BY <1>1, <1>2, <3>1, NoElseHeld
  <2> QED BY <2>1, <2>2
<1>3. CASE Top.kind # "kElse"
  <2>1. PICK x, y : Ready(x, y)
    BY <1>1, TopFits
  <2>2. Turns(x, y, 0, Maybe(Expr(0)))
    BY <1>1, <1>3, <2>1, SortsOf DEF Ready
  <2>3. CASE Then(<<>>) /\ built' = Append(built, Null)
    BY <2>1, <2>2, <2>3, Leaves, Between, Adds
  <2>4. CASE Then(<<Call("next_expression")>>) /\ built' = built
    <3>1. "next_expression" \in Functions /\ Result("next_expression") \subseteq Maybe(Expr(0))
      BY Called, Results, Between
    <3> QED BY <2>1, <2>2, <2>4, <3>1, CallsOn
  <2> QED BY <1>3, <2>3, <2>4 DEF Optional
<1> QED BY <1>2, <1>3

LEMMA AssignedHeld == Held /\ Assigned => Held'
<1> SUFFICES ASSUME Held, Assigned PROVE Held'
  OBVIOUS
<1>1. todo # <<>> /\ Top.do = "call" /\ Top.what = "assigned?" /\ built' = built
  BY DEF Assigned, Calling, Doing
<1>2. PICK x, y : Ready(x, y)
  BY <1>1, TopFits
<1>3. x.h \in Nat /\ x.h >= 1 /\ x.at[x.h] \subseteq Expr(0) /\ Turns(x, y, 1, Expr(0))
  BY <1>1, <1>2, SortsOf DEF Ready
<1>4. CASE Then(<<>>)
  BY <1>1, <1>2, <1>3, <1>4, Settles, Passes
<1>5. CASE Then(<<Call("assignment"), Call("assigned!")>>)
  <2> DEFINE x1 == Push(x, Expr(0))
  <2>1. /\ x1.h = x.h + 1 /\ Same(x, x1, x.h) /\ x1.at[x1.h] = Expr(0)
        /\ Turns(x, x1, 0, Expr(0))
    BY <1>3, Pushed
  <2> HIDE DEF x1
  <2>2. "assignment" \in Functions /\ Result("assignment") = Expr(0)
    BY Called, Results
  <2>3. Lifts(Call("assignment"), x, x1, x.h)
    BY <1>3, <2>1, <2>2, CallStep
  <2>4. Turns(x1, y, 2, Expr(0))
    BY <1>3, <2>1 DEF Turns, Same
  <2>5. Lifts(Call("assigned!"), x1, y, x.h)
    BY <1>3, <2>1, <2>4, CallSteps
  <2>6. Runs(<<Call("assignment"), Call("assigned!")>>, x, y)
    BY <2>3, <2>5, Runs2
  <2> QED BY <1>1, <1>2, <1>5, <2>6, Expands
<1> QED BY <1>4, <1>5 DEF Assigned

\* The target is known to be a name once it has been looked at.
LEMMA TargetHeld == Held /\ Target => Held'
<1> SUFFICES ASSUME Held, Target PROVE Held'
  OBVIOUS
<1>1. todo # <<>> /\ Top.do = "call" /\ Top.what = "assigned!"
  BY DEF Target, Calling, Doing
<1>2. PICK x, y : Ready(x, y) /\ x.h = Len(built)
  BY <1>1, TopFits
<1>3. /\ x.h \in Nat /\ x.h >= 2 /\ x.at[x.h] \subseteq Expr(0) /\ Turns(x, y, 2, Expr(0))
      /\ Fits(built, x)
  BY <1>1, <1>2, SortsOf DEF Ready
<1>4. CASE /\ Then(<<Make("Assignment", "kEqual")>>) /\ built' = built
           /\ built[Len(built) - 1].what = "Variable"
  <2> DEFINE h == x.h
             z == Refine(x, h - 1, {Kind(built[h - 1])})
  <2>1. h - 1 \in 1 .. h /\ h \in 1 .. h /\ h # h - 1
    BY <1>3
  <2>2. /\ z.h = h /\ z.at[h - 1] = {Kind(built[h - 1])} /\ Fits(built, z)
        /\ \A i \in 1 .. h : i # h - 1 => z.at[i] = x.at[i]
    <3> DEFINE p == h - 1
               sort == {Kind(built[p])}
    <3>1. x.h \in Nat /\ p \in 1 .. x.h /\ Kind(built[p]) \in sort /\ Fits(built, x)
      BY <1>3, <2>1
    <3> HIDE DEF p, sort
    <3>2. LET r == Refine(x, p, sort)
          IN  /\ r.h = x.h /\ r.at[p] = sort /\ Fits(built, r)
              /\ \A i \in 1 .. x.h : i # p => r.at[i] = x.at[i]
      BY <3>1, Refined
    <3> QED BY <3>2 DEF p, sort
  <2> HIDE DEF z
  <2>3. Turns(z, y, 2, Expr(0))
    <3>1. \A i \in 1 .. h - 2 : i \in 1 .. h /\ i # h - 1
      BY <1>3
    <3> QED BY <1>3, <2>2, <3>1 DEF Turns, Same
  <2>4. Turns(z, y, 2, Made("Assignment", "kEqual"))
    BY <2>3, MadeSorts, TurnsWeaker
  <2>5. Suit("Assignment", "kEqual", z.at, h - 2)
    <3>1. h - 2 + 1 = h - 1 /\ h - 2 + 2 = h
      BY <1>3
    <3>2. \A kind \in z.at[h - 1] : kind.what = "Variable"
      BY <1>2, <1>4, <2>2, KindOf
    <3>3. z.at[h] \subseteq Expr(0)
      BY <1>3, <2>1, <2>2
    <3> HIDE DEF h
    <3> QED BY <3>1, <3>2, <3>3 DEF Suit
  <2>6. "Assignment" \in Nodes /\ Arity("Assignment") = 2
    BY Arities DEF Nodes
  <2>7. y.h = h - 1 /\ y.h \in Nat /\ h - 1 = z.h - 2 + 1
    BY <1>3, <2>2 DEF Turns
  <2>8. Lifts(Make("Assignment", "kEqual"), z, y, y.h)
    BY <1>3, <2>2, <2>4, <2>5, <2>6, <2>7, MakeSteps
  <2>9. Runs(<<Make("Assignment", "kEqual")>>, z, y)
    BY <2>8, Runs1
  <2>10. IsSeq(built') /\ AllSound(built') /\ Fits(built', z) /\ z.h \in {x.h, y.h}
    BY <1>4, <2>2 DEF Held
  <2> QED BY <1>2, <1>4, <2>9, <2>10, GivesWay
<1> QED BY <1>4, Thrown DEF Target

\* One turn of a loop that makes a node of the one it finds and another.
LEMMA RepeatRuns ==
  ASSUME NEW x, x.h \in Nat, x.h >= 1, NEW y, NEW it, ItemOK(it), it.do = "loop",
         it.what \in Repeats, it.n = 0, NEW sort, sort = Operands(it.what), Turns(x, y, 1, sort),
         NEW f \in Functions, NEW node \in Nodes, Arity(node) = 2, NEW op,
         Made(node, op) \subseteq sort, NEW z, z.h = x.h, Same(x, z, x.h - 1),
         NEW x1, x1 = Push(z, Result(f)), Suit(node, op, x1.at, x.h - 1)
  PROVE  Runs(<<Call(f), Make(node, op), it>>, z, y)
<1> DEFINE h == x.h
           x2 == Refine(z, h, sort)
<1>1. h \in Nat /\ h \in 1 .. h /\ z.h = h /\ h + 1 \in Nat /\ h + 1 - 2 = h - 1
      /\ h + 1 - 2 + 1 = h /\ h - 1 + 1 = h /\ \A p \in 1 .. h - 1 : p \in 1 .. h /\ p # h
  OBVIOUS
<1>2. /\ x1.h = h + 1 /\ \A p \in 1 .. h : x1.at[p] = z.at[p]
      /\ x1.at[h + 1] = Result(f) /\ Turns(z, x1, 0, Result(f))
  BY <1>1, Pushed
<1>3. x2.h = h /\ x2.at[h] = sort /\ \A p \in 1 .. h : p # h => x2.at[p] = z.at[p]
  BY <1>1, Refined
<1>4. y.h = h /\ sort \subseteq y.at[y.h] /\ \A p \in 1 .. h - 1 : y.at[p] = x.at[p]
  BY <1>1 DEF Turns, Same
<1>5. \A p \in 1 .. h - 1 : z.at[p] = x.at[p]
  BY DEF Same
<1> HIDE DEF x2
<1>7. Lifts(Call(f), z, x1, h)
  BY <1>1, <1>2, CallStep
<1>8. Lifts(Make(node, op), x1, x2, h)
  <2>1. Same(x1, x2, h - 1)
    BY <1>1, <1>2, <1>3 DEF Same
  <2>2. x1.h >= 2 /\ x1.h - 2 = h - 1 /\ x2.h = x1.h - 2 + 1
    BY <1>1, <1>2, <1>3
  <2>3. Turns(x1, x2, 2, Made(node, op))
    BY <1>3, <2>1, <2>2 DEF Turns
  <2>4. Suit(node, op, x1.at, x1.h - 2) /\ h <= x1.h /\ h <= x1.h - 2 + 1 /\ x1.h \in Nat
    BY <1>1, <1>2, <2>2
  <2> QED BY <1>1, <2>3, <2>4, MakeSteps
<1>9. Lifts(it, x2, y, h)
  <2>1. Same(x2, y, h - 1)
    BY <1>1, <1>3, <1>4, <1>5 DEF Same
  <2>2. Turns(x2, y, 1, sort)
    BY <1>1, <1>3, <1>4, <2>1 DEF Turns
  <2>3. it.what \notin Lists
    BY Distinct
  <2>4. Takes(it, x2, y)
    BY <1>1, <1>3, <2>2, <2>3 DEF Takes
  <2> QED BY <1>1, <1>3, <1>4, <2>4 DEF Lifts
<1> QED BY <1>1, <1>7, <1>8, <1>9, Runs3

\* The left operand of an `or` is no `or`: the loop has not turned before.
LEMMA OperatorHeld ==
  ASSUME Held, Operator,
         Top.what = "logical_or" /\ ahead = "kOr" => Strength(built[Len(built)]) > 1
  PROVE  Held'
<1> DEFINE l == Top.what
           left == Expr(IF l = "logical_or" THEN 2 ELSE Rank[l])
           right == Expr(IF l = "logical_or" THEN 1 ELSE Rank[l] + 1)
<1>1. /\ todo # <<>> /\ built' = built /\ Top.do = "loop" /\ l \in Levels
  BY DEF Operator, Doing
<1>2. PICK x, y : Ready(x, y) /\ x.h = Len(built)
  BY <1>1, TopFits
<1>3. /\ l \in Repeats /\ Rank[l] \in 1 .. 6 /\ Operands(l) = Expr(Rank[l])
      /\ RightOperand(l) \in Functions /\ Result(RightOperand(l)) = right
      /\ OpNode(l) \in Nodes /\ Arity(OpNode(l)) = 2 /\ OpNode(l) \in {"Binary", "Logical"}
  BY <1>1, LevelsCall
<1>4. /\ x.h \in Nat /\ x.h >= 1 /\ x.at[x.h] \subseteq Expr(Rank[l])
      /\ Turns(x, y, 1, Expr(Rank[l])) /\ Fits(built, x)
  BY <1>1, <1>2, <1>3, SortsOf DEF Ready
<1>5. CASE Then(<<>>)
  BY <1>1, <1>2, <1>4, <1>5, Settles, Passes
<1>6. CASE ahead \in Ops[l] /\ Then(<<Call(RightOperand(l)), Make(OpNode(l), ahead), Top>>)
  <2> DEFINE h == x.h
             z == Refine(x, h, left)
             e == built[h]
  <2>1. h \in Nat /\ h \in 1 .. h /\ h - 1 + 1 = h /\ h - 1 + 2 = h + 1
        /\ \A p \in 1 .. h - 1 : p \in 1 .. h /\ p # h
    BY <1>4
  <2>2. Kind(e) \in Expr(Rank[l])
    BY <1>2, <1>4, <2>1 DEF Fits
  <2>3. Kind(e) \in left
    <3>1. CASE l = "logical_or"
      <4>1. ahead = "kOr" /\ Rank[l] = 1
        BY <1>6, <3>1 DEF Ops, Rank
      <4>2. Strength(e) > 1
        BY <1>2, <3>1, <4>1
      <4>3. Strength(e) \in 2 .. 8
        BY <2>2, <4>1, <4>2, KindOf
      <4> QED BY <2>2, <3>1, <4>3 DEF Expr, Kind
    <3>2. CASE l # "logical_or"
      BY <2>2, <3>2
    <3> QED BY <3>1, <3>2
  <2> HIDE DEF e
  <2>4. /\ z.h = h /\ z.at[h] = left /\ Fits(built, z)
        /\ \A p \in 1 .. h : p # h => z.at[p] = x.at[p]
    BY <1>4, <2>1, <2>3, Refined DEF e
  <2> HIDE DEF z, h
  <2>5. Same(x, z, h - 1)
    BY <2>1, <2>4 DEF Same
  <2> DEFINE f == RightOperand(l)
             x1 == Push(z, Result(f))
  <2>6. Suit(OpNode(l), ahead, x1.at, h - 1)
    <3>1. x1.at[h - 1 + 1] = left /\ x1.at[h - 1 + 2] = right
      BY <1>3, <2>1, <2>4, Pushed
    <3> HIDE DEF x1
    <3> QED BY <1>1, <1>3, <1>6, <3>1 DEF Suit
  <2>7. Made(OpNode(l), ahead) \subseteq Expr(Rank[l])
    BY <1>1, <1>6, MadeSorts
  <2>8. ItemOK(Top) /\ Top.n = 0
    <3>1. ItemOK(Top) /\ l \notin Lists
      BY <1>1, <1>3, TopFits, Distinct
    <3> QED BY <1>1, <3>1 DEF ItemOK
  <2>9. Runs(<<Call(f), Make(OpNode(l), ahead), Top>>, z, y)
    <3> DEFINE node == OpNode(l)
    <3>1. node \in Nodes /\ Arity(node) = 2 /\ f \in Functions /\ z.h = x.h
          /\ Suit(node, ahead, x1.at, x.h - 1) /\ x1 = Push(z, Result(f)) /\ Same(x, z, x.h - 1)
          /\ Made(node, ahead) \subseteq Expr(Rank[l])
      BY <1>3, <2>4, <2>5, <2>6, <2>7 DEF h
    <3> HIDE DEF node, f, x1
    <3>2. Runs(<<Call(f), Make(node, ahead), Top>>, z, y)
      BY <1>1, <1>3, <1>4, <2>8, <3>1, RepeatRuns
    <3> QED BY <3>2 DEF node
  <2>10. IsSeq(built') /\ AllSound(built') /\ Fits(built', z) /\ z.h \in {x.h, y.h}
    BY <1>1, <2>4 DEF Held, h
  <2> QED BY <1>2, <1>6, <2>9, <2>10, GivesWay
<1> QED BY <1>5, <1>6 DEF Operator

LEMMA UnaryHeld == Held /\ Unary => Held'
<1> SUFFICES ASSUME Held, Unary PROVE Held'
  OBVIOUS
<1>1. todo # <<>> /\ Top.do = "call" /\ Top.what = "unary" /\ built' = built
  BY DEF Unary, Calling, Doing
<1>2. PICK x, y : Ready(x, y)
  BY <1>1, TopFits
<1>3. /\ "unary" \in Functions /\ Result("unary") = Expr(7)
      /\ "call" \in Functions /\ Result("call") \subseteq Expr(7)
  <2>1. Expr(8) \subseteq Expr(7)
    BY TighterFits
  <2> QED BY <2>1, Called, Results
<1>4. x.h \in Nat /\ Turns(x, y, 0, Expr(7))
  BY <1>1, <1>2, <1>3, SortsOf DEF Ready
<1>5. CASE Then(<<Call("call")>>)
  BY <1>1, <1>2, <1>3, <1>4, <1>5, CallsOn
<1>6. CASE Then(<<Call("unary"), Make("Unary", ahead)>>)
  <2> DEFINE h == x.h
             x1 == Push(x, Expr(7))
  <2>1. x1.h = h + 1 /\ Same(x, x1, h) /\ Turns(x, x1, 0, Expr(7)) /\ x1.at[h + 1] = Expr(7)
    BY <1>4, Pushed
  <2> HIDE DEF x1
  <2>2. Lifts(Call("unary"), x, x1, h)
    BY <1>3, <1>4, <2>1, CallStep
  <2>3. "Unary" \in Nodes /\ Arity("Unary") = 1 /\ Made("Unary", ahead) \subseteq Expr(7)
    BY Arities, MadeSorts DEF Nodes
  <2>4. Suit("Unary", ahead, x1.at, h)
    BY <2>1 DEF Suit
  <2>5. Lifts(Make("Unary", ahead), x1, y, h)
    BY <1>4, <2>1, <2>3, <2>4, MakesLast
  <2>6. Runs(<<Call("unary"), Make("Unary", ahead)>>, x, y)
    BY <2>2, <2>5, Runs2
  <2> QED BY <1>1, <1>2, <1>6, <2>6, Expands
<1> QED BY <1>5, <1>6 DEF Unary

LEMMA CallsHeld == Held /\ Calls => Held'
<1> SUFFICES ASSUME Held, Calls PROVE Held'
  OBVIOUS
<1>1. todo # <<>> /\ built' = built /\ Top.do = "loop" /\ Top.what = "calls"
  BY DEF Calls, Looping, Doing
<1>2. PICK x, y : Ready(x, y) /\ x.h = Len(built)
  BY <1>1, TopFits
<1>3. "calls" \in Repeats /\ Operands("calls") = Expr(8) /\ "get_args" \in Functions
  BY Called DEF Operands
<1>4. /\ x.h \in Nat /\ x.h >= 1 /\ x.at[x.h] \subseteq Expr(8)
      /\ Turns(x, y, 1, Expr(8)) /\ Fits(built, x)
  BY <1>1, <1>2, <1>3, SortsOf DEF Ready
<1>5. CASE Then(<<>>)
  BY <1>1, <1>2, <1>4, <1>5, Settles, Passes
<1>6. CASE Then(<<Call("get_args"), Make("Call", "kLeftParen"), Top>>)
  <2> DEFINE h == x.h
  <2>1. h \in 1 .. h /\ h - 1 + 1 = h /\ Same(x, x, h - 1)
    BY <1>4 DEF Same
  <2> DEFINE x1 == Push(x, Result("get_args"))
  <2>2. Suit("Call", "kLeftParen", x1.at, h - 1) /\ x1 = Push(x, Result("get_args"))
    <3>1. x1.at[h - 1 + 1] \subseteq Expr(8)
      BY <1>4, <2>1, Pushed
    <3> QED BY <3>1 DEF Suit
  <2> HIDE DEF x1
  <2>3. "Call" \in Nodes /\ Arity("Call") = 2 /\ Made("Call", "kLeftParen") \subseteq Expr(8)
    BY Arities, MadeSorts DEF Nodes
  <2>4. ItemOK(Top) /\ Top.n = 0
    <3>1. ItemOK(Top) /\ Top.what \notin Lists
      BY <1>1, <1>3, TopFits, Distinct
    <3> QED BY <1>1, <3>1 DEF ItemOK
  <2>5. Runs(<<Call("get_args"), Make("Call", "kLeftParen"), Top>>, x, y)
    BY <1>1, <1>3, <1>4, <2>1, <2>2, <2>3, <2>4, RepeatRuns
  <2> QED BY <1>1, <1>2, <1>6, <2>5, Expands
<1> QED BY <1>5, <1>6 DEF Calls

LEMMA PrimaryHeld == Held /\ Primary => Held'
<1> SUFFICES ASSUME Held, Primary PROVE Held'
  OBVIOUS
<1>1. todo # <<>> /\ Top.do = "call" /\ Top.what = "primary"
  BY DEF Primary, Calling, Doing
<1>2. PICK x, y : Ready(x, y)
  BY <1>1, TopFits
<1>3. "primary" \in Functions /\ Result("primary") = Expr(8)
  BY Called, Results
<1>4. x.h \in Nat /\ Turns(x, y, 0, Expr(8))
  BY <1>1, <1>2, <1>3, SortsOf DEF Ready
<1>5. ASSUME NEW what \in {"Literal", "Variable"}, Then(<<>>),
             built' = Append(built, Node(what, ahead, <<>>))
      PROVE  Held'
  <2> DEFINE e == Node(what, ahead, <<>>)
  <2>1. Sound(e) /\ Kind(e) \in Expr(8)
    BY Leaves
  <2> HIDE DEF e
  <2>2. built' = Append(built, e)
    BY <1>5 DEF e
  <2> QED BY <1>2, <1>4, <1>5, <2>1, <2>2, Adds
<1>6. CASE /\ Then(<<Call("next_expression"), Expect("kRightParen"), Make("Grouping", ahead)>>)
           /\ built' = built
  <2> DEFINE h == x.h
             x1 == Push(x, Expr(0))
  <2>1. x1.h = h + 1 /\ Same(x, x1, h) /\ Turns(x, x1, 0, Expr(0)) /\ x1.at[h + 1] = Expr(0)
    BY <1>4, Pushed
  <2> HIDE DEF x1
  <2>2. "next_expression" \in Functions /\ Result("next_expression") = Expr(0)
    BY Called, Results
  <2>3. Lifts(Call("next_expression"), x, x1, h)
    BY <1>4, <2>1, <2>2, CallStep
  <2>4. Lifts(Expect("kRightParen"), x1, x1, h)
    BY <1>4, <2>1, TokenSteps
  <2>5. "Grouping" \in Nodes /\ Arity("Grouping") = 1 /\ Made("Grouping", ahead) \subseteq Expr(8)
    BY Arities, MadeSorts DEF Nodes
  <2>6. Suit("Grouping", ahead, x1.at, h)
    BY <2>1 DEF Suit
  <2>7. Lifts(Make("Grouping", ahead), x1, y, h)
    BY <1>4, <2>1, <2>5, <2>6, MakesLast
  <2>8. Runs(<<Call("next_expression"), Expect("kRightParen"), Make("Grouping", ahead)>>, x, y)
    BY <2>3, <2>4, <2>7, Runs3
  <2> QED BY <1>2, <1>6, <2>8, Expands
<1>7. CASE /\ Then(<<>>)
           /\ built' = Append(built, Node(IF ahead \in Constants THEN "Literal" ELSE "Variable",
                                          ahead, <<>>))
  BY <1>5, <1>7
<1> QED BY <1>6, <1>7, Thrown DEF Primary

\* A list begins at the height that `built` has.
LEMMA ListRuns ==
  ASSUME NEW x, x.h \in Nat, NEW y, Turns(x, y, 0, Only("list")), NEW l \in Lists, NEW k
  PROVE  /\ Runs(<<Loop(l, x.h), Expect(k)>>, x, y)
         /\ \A f \in Functions : Runs(<<Call(f), Loop(l, x.h), Expect(k)>>, x, y)
<1> DEFINE h == x.h
<1>1. y.h = h + 1 /\ y.h \in Nat /\ h <= h + 1 /\ Same(x, y, h) /\ Only("list") \subseteq y.at[y.h]
  BY DEF Turns
<1>2. Lifts(Loop(l, h), x, y, h)
  BY <1>1, LoopSteps
<1>3. Lifts(Expect(k), y, y, h)
  BY <1>1, TokenSteps
<1>4. Runs(<<Loop(l, h), Expect(k)>>, x, y)
  BY <1>2, <1>3, Runs2
<1>5. ASSUME NEW f \in Functions PROVE Runs(<<Call(f), Loop(l, h), Expect(k)>>, x, y)
  <2> DEFINE x1 == Push(x, Result(f))
  <2>1. x1.h = h + 1 /\ Same(x, x1, h) /\ Turns(x, x1, 0, Result(f))
    BY Pushed
  <2> HIDE DEF x1
  <2>2. Lifts(Call(f), x, x1, h)
    BY <2>1, CallStep
  <2>3. Same(x1, y, h) /\ x1.h \in Nat /\ h <= x1.h
    BY <1>1, <2>1 DEF Same
  <2>4. Lifts(Loop(l, h), x1, y, h)
    BY <1>1, <2>3, LoopSteps
  <2> QED BY <1>3, <2>2, <2>4, Runs3
<1> QED BY <1>4, <1>5

\* And goes on from any greater one.
LEMMA ElementRuns ==
  ASSUME NEW x, x.h \in Nat, NEW n \in Nat, x.h >= n, NEW y, y.h = n + 1, Same(x, y, n),
         Only("list") \subseteq y.at[y.h],
         NEW it, ItemOK(it), it.do = "loop", it.what \in Lists, it.n = n
  PROVE  /\ \A f \in Functions : Runs(<<Call(f), it>>, x, y)
         /\ Runs(<<Loop("end of list", n)>>, x, y)
<1> DEFINE h == x.h
           m == IF h >= n + 1 THEN n + 1 ELSE h
<1>1. m \in Nat /\ n <= m /\ m <= h /\ m <= n + 1 /\ m \in {x.h, y.h} /\ h + 1 \in Nat /\ m <= h + 1
      /\ \A p \in 1 .. n : p \in 1 .. h
  OBVIOUS
<1> HIDE DEF m
<1>2. ASSUME NEW f \in Functions PROVE Runs(<<Call(f), it>>, x, y)
  <2> DEFINE x1 == Push(x, Result(f))
  <2>1. x1.h = h + 1 /\ Same(x, x1, h) /\ Turns(x, x1, 0, Result(f))
    BY Pushed
  <2> HIDE DEF x1
  <2>2. Lifts(Call(f), x, x1, m)
    BY <1>1, <2>1, CallStep
  <2>3. Same(x1, y, n) /\ x1.h >= n
    BY <1>1, <2>1 DEF Same
  <2>4. it.what \notin Repeats
    BY Distinct
  <2>5. Takes(it, x1, y)
    BY <2>3, <2>4 DEF Takes
  <2>6. Lifts(it, x1, y, m)
    BY <1>1, <2>1, <2>5 DEF Lifts
  <2> QED BY <1>1, <2>2, <2>6, Runs2
<1>3. Runs(<<Loop("end of list", n)>>, x, y)
  <2>1. "end of list" \in Lists
    BY Called
  <2>2. Lifts(Loop("end of list", n), x, y, m)
    BY <1>1, <2>1, LoopSteps
  <2> QED BY <1>1, <2>2, Runs1
<1> QED BY <1>2, <1>3

\* The call of a function that leaves a list.
LEMMA ListWanted ==
  ASSUME NEW x, NEW y, Ready(x, y), Top.do = "call", Top.what \in ListFunctions
  PROVE  x.h \in Nat /\ Turns(x, y, 0, Only("list"))
<1>1. Top.what \in Functions /\ Result(Top.what) = Only("list")
  BY Results DEF Functions
<1> QED BY <1>1, SortsOf DEF Ready

LEMMA BeginListHeld == Held /\ BeginList => Held'
<1> SUFFICES ASSUME Held, BeginList PROVE Held'
  OBVIOUS
<1>1. todo # <<>> /\ Top.do = "call" /\ built' = built /\ Top.what \in {"get_args", "get_params"}
  BY DEF BeginList, Doing
<1>2. PICK x, y : Ready(x, y) /\ x.h = Len(built)
  BY <1>1, TopFits
<1>3. Top.what \in ListFunctions /\ Top.what \in Lists /\ "end of list" \in Lists
  BY <1>1, Called
<1>4. x.h \in Nat /\ Turns(x, y, 0, Only("list"))
  BY <1>1, <1>2, <1>3, ListWanted
<1>5. CASE Then(<<Loop("end of list", x.h), Expect("kRightParen")>>)
  BY <1>1, <1>2, <1>3, <1>4, <1>5, ListRuns, Expands
<1>6. ASSUME NEW f \in Functions, Then(<<Call(f), Loop(Top.what, x.h), Expect("kRightParen")>>)
      PROVE  Held'
  BY <1>1, <1>2, <1>3, <1>4, <1>6, ListRuns, Expands
<1>7. "next_expression" \in Functions /\ "parameter" \in Functions
  BY Called
<1> QED BY <1>2, <1>5, <1>6, <1>7 DEF BeginList

LEMMA ParameterHeld == Held /\ Parameter => Held'
<1> SUFFICES ASSUME Held, Parameter PROVE Held'
  OBVIOUS
<1>1. todo # <<>> /\ Top.do = "call" /\ Top.what = "parameter"
  BY DEF Parameter, Calling, Doing
<1>2. PICK x, y : Ready(x, y)
  BY <1>1, TopFits
<1>3. "parameter" \in Functions /\ Result("parameter") = Only("Token")
  BY Called, Results
<1>4. Turns(x, y, 0, Only("Token"))
  BY <1>1, <1>2, <1>3, SortsOf DEF Ready
<1>5. CASE Then(<<>>) /\ built' = Append(built, Node("Token", ahead, <<>>))
  BY <1>2, <1>4, <1>5, Leaves, Adds
<1>6. CASE Then(<<Call("throw")>>) /\ built' = built
  <2>1. "throw" \in Functions /\ Result("throw") \subseteq Only("Token")
    BY Called, Results
  <2> QED BY <1>2, <1>4, <1>6, <2>1, CallsOn
<1> QED BY <1>5, <1>6 DEF Parameter

\* What a list that goes on, or ends, has in common.
LEMMA ListGoesOn ==
  ASSUME Held, Doing("loop"), Top.what \in Lists, built' = built,
         \/ Then(<<Loop("end of list", Top.n)>>)
         \/ \E f \in Functions : Then(<<Call(f), Top>>)
  PROVE  Held'
<1>1. todo # <<>> /\ Top.do = "loop"
  BY DEF Doing
<1>2. ItemOK(Top) /\ Top.n \in Nat
  BY <1>1, TopFits
<1>3. PICK x, y : Ready(x, y)
  BY <1>1, TopFits
<1>4. x.h \in Nat /\ x.h >= Top.n /\ y.h = Top.n + 1 /\ Same(x, y, Top.n)
      /\ Only("list") \subseteq y.at[y.h]
  BY <1>1, <1>3 DEF Ready, Takes
<1>5. /\ \A f \in Functions : Runs(<<Call(f), Top>>, x, y)
      /\ Runs(<<Loop("end of list", Top.n)>>, x, y)
  BY <1>1, <1>2, <1>4, ElementRuns
<1> QED BY <1>3, <1>5, Expands

LEMMA NextElementHeld == Held /\ NextElement => Held'
<1> SUFFICES ASSUME Held, NextElement PROVE Held'
  OBVIOUS
<1>1. Doing("loop") /\ Top.what \in Lists
  BY Called DEF NextElement
<1>2. CASE Throw
  BY <1>2, Thrown
<1>3. CASE ~ Throw
  <2>1. built' = built
    BY <1>3 DEF NextElement
  <2>2. \/ Then(<<Loop("end of list", Top.n)>>)
        \/ \E f \in Functions : Then(<<Call(f), Top>>)
    BY <1>3, Called DEF NextElement
  <2> QED BY <1>1, <2>1, <2>2, ListGoesOn
<1> QED BY <1>2, <1>3

LEMMA MakeListHeld == Held /\ MakeList => Held'
<1> SUFFICES ASSUME Held, MakeList PROVE Held'
  OBVIOUS
<1> DEFINE n == Len(built) - Top.n
           e == Node("list", "", SubSeq(built, Len(built) - n + 1, Len(built)))
<1>1. /\ todo # <<>> /\ Top.do = "loop" /\ Top.what = "end of list" /\ Then(<<>>)
      /\ built' = Reduced("list", "", n)
  BY DEF MakeList, EndOfList, Looping, Doing
<1>2. Top.n \in Nat /\ Len(built) \in Nat /\ "end of list" \in Lists
  BY <1>1, TopFits, Called
<1>3. PICK x, y : Ready(x, y) /\ x.h = Len(built)
  BY <1>1, TopFits
<1>4. x.h >= Top.n /\ y.h = Top.n + 1 /\ Same(x, y, Top.n) /\ Only("list") \subseteq y.at[y.h]
  BY <1>1, <1>2, <1>3 DEF Ready, Takes
<1>5. n \in Nat /\ n <= Len(built) /\ x.h - n = Top.n
  <2>1. Top.n \in Nat /\ Len(built) \in Nat /\ Len(built) >= Top.n /\ x.h = Len(built)
    BY <1>2, <1>3, <1>4
  <2> QED BY <2>1
<1> HIDE DEF n
<1>6. Turns(x, y, n, Only("list"))
  BY <1>3, <1>4, <1>5 DEF Turns
<1>7. Sound(e) /\ Kind(e) \in Only("list")
  BY Leaves
<1>8. e = Node("list", "", SubSeq(built, Len(built) - n + 1, Len(built)))
  OBVIOUS
<1> HIDE DEF e
<1> QED BY <1>1, <1>3, <1>5, <1>6, <1>7, <1>8, Gathers

LEMMA BeginStmtsHeld == Held /\ BeginStmts => Held'
<1> SUFFICES ASSUME Held, BeginStmts PROVE Held'
  OBVIOUS
<1>1. /\ todo # <<>> /\ Top.do = "call" /\ Top.what = "get_stmts" /\ built' = built
      /\ Then(<<Loop("get_stmts", Len(built)), Expect("kRightBrace")>>)
  BY DEF BeginStmts, Calling, Doing
<1>2. PICK x, y : Ready(x, y) /\ x.h = Len(built)
  BY <1>1, TopFits
<1>3. x.h \in Nat /\ Turns(x, y, 0, Only("list")) /\ "get_stmts" \in Lists
  BY <1>1, <1>2, Called, ListWanted
<1> QED BY <1>1, <1>2, <1>3, ListRuns, Expands

LEMMA NextStmtHeld == Held /\ NextStmt => Held'
<1> SUFFICES ASSUME Held, NextStmt PROVE Held'
  OBVIOUS
<1>1. /\ Doing("loop") /\ Top.what \in Lists /\ built' = built
      /\ \/ Then(<<Loop("end of list", Top.n)>>)
         \/ Then(<<Call("next_declaration"), Top>>)
  BY Called DEF NextStmt, Looping
<1> QED BY <1>1, ListGoesOn, Called

LEMMA NextDeclarationHeld == Held /\ NextDeclaration => Held'
<1> SUFFICES ASSUME Held, NextDeclaration PROVE Held'
  OBVIOUS
<1>1. /\ Doing("loop") /\ Top.what \in Lists /\ built' = built
      /\ \/ Then(<<Loop("end of list", Top.n)>>)
         \/ Then(<<Call("next_declaration"), Top>>)
  BY Called DEF NextDeclaration, Looping
<1> QED BY <1>1, ListGoesOn, Called

-----------------------------------------------------------------------------
(* The order of the items, and the token that comes next.                   *)

IsOr(it) == it.do = "make" /\ it.what = "Logical" /\ it.kind = "kOr"
IsOrLoop(it) == it.do = "loop" /\ it.what = "logical_or"
IsElse(it) == it.do = "opt" /\ it.kind = "kElse"
IsIf(it) == it.do = "make" /\ it.what = "If"
IsOuter(it) == it.do = "make" /\ it.what \in Outer
Plain(it) == ~ (IsOr(it) \/ IsOrLoop(it) \/ IsElse(it) \/ IsOuter(it))

LEMMA IfsAreOuter == \A it : IsIf(it) => IsOuter(it)
  BY DEF IsIf, IsOuter, Outer

Reaches(it, f) == it.do \in {"call", "loop"} /\ it.what = f
IsStmt(it) ==
  \/ it.do = "call" /\ it.what \in StmtFunctions
  \/ it.do = "make" /\ it.what \in Statements

\* What comes just before an item at which it matters which token is next.
Follows(a, b) ==
  /\ IsOr(b) => Reaches(a, "logical_or")
  /\ IsOrLoop(b) => Reaches(a, "logical_and") \/ IsOr(a)
  /\ IsElse(b) => IsStmt(a)
  /\ IsOuter(b) => IsElse(a) \/ IsStmt(a)
  /\ IsElse(a) => IsIf(b)

Chained(s) ==
  /\ \A i \in 1 .. Len(s) - 1 : Follows(s[i], s[i + 1])
  /\ Len(s) > 0 => ~ IsElse(s[Len(s)])

\* There: an `or` node is made once no `or` follows, so its loop does not turn
\* again; and an else is not next where a statement is open, nor where an if is
\* about to be made without one.
Looks ==
  todo # <<>> =>
    LET last == built[Len(built)] IN
    /\ IsOr(Top) => ahead # "kOr"
    /\ IsOrLoop(Top) /\ ahead = "kOr" => Strength(last) > 1
    /\ IsIf(Top) /\ last = Null => ahead # "kElse"
    /\ (IsElse(Top) \/ IsOuter(Top)) /\ IsOpen(last) => ahead # "kElse"

Ordered == Chained(todo) /\ Looks

\* What may take the place of an item; an item that only plain ones follow.
Stands(c, a) == ~ IsElse(c) /\ \A b : Follows(a, b) => Follows(c, b)
Inert(a) == \A b : Follows(a, b) => Plain(b)

LEMMA InertStands == \A a, c : Inert(a) /\ ~ IsElse(c) => Stands(c, a)
<1>1. \A b, c : Plain(b) /\ ~ IsElse(c) => Follows(c, b)
  BY DEF Plain, Follows
<1> QED BY <1>1 DEF Inert, Stands

LEMMA InertItems ==
  ASSUME NEW it,
         \/ it.do \in {"expect", "take", "unless", "skip"}
         \/ it.do = "opt" /\ it.kind # "kElse"
         \/ it.do = "call" /\ it.what \notin StmtFunctions \cup {"logical_or", "logical_and"}
         \/ it.do = "loop" /\ it.what \notin {"logical_or", "logical_and"}
         \/ it.do = "make" /\ it.what \notin Statements \cup {"Logical"}
  PROVE  Inert(it)
<1>1. ~ Reaches(it, "logical_or") /\ ~ Reaches(it, "logical_and") /\ ~ IsStmt(it)
      /\ ~ IsOr(it) /\ ~ IsElse(it)
  BY DEF Reaches, IsStmt, IsOr, IsElse
<1> QED BY <1>1 DEF Inert, Follows, Plain

LEMMA PlainItems ==
  /\ \A f : Plain(Call(f))
  /\ \A k : Plain(Expect(k)) /\ Plain(Unless(k)) /\ (k # "kElse" => Plain(Opt(k)))
  /\ Plain(Take)
  /\ \A l, n : l # "logical_or" => Plain(Loop(l, n))
  /\ \A node, op : node \notin {"If", "While", "For", "Logical"} => Plain(Make(node, op))
<1> USE DEF Plain, IsOr, IsOrLoop, IsElse, IsOuter, Outer, Item
<1>1. \A f : Plain(Call(f))
  BY DEF Call
<1>2. \A k : Plain(Expect(k)) /\ Plain(Unless(k)) /\ (k # "kElse" => Plain(Opt(k)))
  BY DEF Expect, Unless, Opt
<1>3. Plain(Take)
  BY DEF Take
<1>4. \A l, n : l # "logical_or" => Plain(Loop(l, n))
  BY DEF Loop
<1>5. \A node, op : node \notin {"If", "While", "For", "Logical"} => Plain(Make(node, op))
  BY DEF Make
<1> QED BY <1>1, <1>2, <1>3, <1>4, <1>5

LEMMA PlainChain ==
  ASSUME NEW s, IsSeq(s), \A i \in 1 .. Len(s) : Plain(s[i])
  PROVE  Chained(s)
<1>1. Len(s) \in Nat
  BY LenProperties DEF IsSeq
<1>2. ASSUME NEW i \in 1 .. Len(s) - 1 PROVE Follows(s[i], s[i + 1])
  <2>1. i \in 1 .. Len(s) /\ i + 1 \in 1 .. Len(s)
    BY <1>1
  <2>2. Plain(s[i]) /\ Plain(s[i + 1])
    BY <2>1
  <2> QED BY <2>2 DEF Plain, Follows
<1>3. Len(s) > 0 => ~ IsElse(s[Len(s)])
  BY <1>1 DEF Plain
<1> QED BY <1>2, <1>3 DEF Chained

LEMMA ShortChains ==
  /\ \A a : ~ IsElse(a) => Chained(<<a>>) /\ IsSeq(<<a>>)
  /\ \A a, b : Follows(a, b) /\ ~ IsElse(b) => Chained(<<a, b>>) /\ IsSeq(<<a, b>>)
  /\ \A a, b, c : Follows(a, b) /\ Follows(b, c) /\ ~ IsElse(c) =>
       Chained(<<a, b, c>>) /\ IsSeq(<<a, b, c>>)
  /\ \A a, b, c, d : Follows(a, b) /\ Follows(b, c) /\ Follows(c, d) /\ ~ IsElse(d) =>
       Chained(<<a, b, c, d>>) /\ IsSeq(<<a, b, c, d>>)
<1>1. ASSUME NEW a, ~ IsElse(a) PROVE Chained(<<a>>) /\ IsSeq(<<a>>)
  <2> DEFINE s == <<a>>
  <2>1. s \in Seq({a}) /\ Len(s) = 1 /\ s[1] = a
    OBVIOUS
  <2> HIDE DEF s
  <2>2. \A i \in 1 .. Len(s) - 1 : FALSE
    BY <2>1
  <2>3. Chained(s) /\ IsSeq(s)
    BY <1>1, <2>1, <2>2 DEF Chained, IsSeq
  <2> QED BY <2>3 DEF s
<1>2. ASSUME NEW a, NEW b, Follows(a, b), ~ IsElse(b)
      PROVE  Chained(<<a, b>>) /\ IsSeq(<<a, b>>)
  <2> DEFINE s == <<a, b>>
  <2>1. s \in Seq({a, b}) /\ Len(s) = 2 /\ s[1] = a /\ s[2] = b
    OBVIOUS
  <2> HIDE DEF s
  <2>2. \A i \in 1 .. Len(s) - 1 : i = 1 /\ i + 1 = 2
    BY <2>1
  <2>3. Chained(s) /\ IsSeq(s)
    BY <1>2, <2>1, <2>2 DEF Chained, IsSeq
  <2> QED BY <2>3 DEF s
<1>3. ASSUME NEW a, NEW b, NEW c, Follows(a, b), Follows(b, c), ~ IsElse(c)
      PROVE  Chained(<<a, b, c>>) /\ IsSeq(<<a, b, c>>)
  <2> DEFINE s == <<a, b, c>>
  <2>1. s \in Seq({a, b, c}) /\ Len(s) = 3 /\ s[1] = a /\ s[2] = b /\ s[3] = c
    OBVIOUS
  <2> HIDE DEF s
  <2>2. \A i \in 1 .. Len(s) - 1 : (i = 1 /\ i + 1 = 2) \/ (i = 2 /\ i + 1 = 3)
    BY <2>1
  <2>3. Chained(s) /\ IsSeq(s)
    BY <1>3, <2>1, <2>2 DEF Chained, IsSeq
  <2> QED BY <2>3 DEF s
<1>4. ASSUME NEW a, NEW b, NEW c, NEW d, Follows(a, b), Follows(b, c), Follows(c, d), ~ IsElse(d)
      PROVE  Chained(<<a, b, c, d>>) /\ IsSeq(<<a, b, c, d>>)
  <2> DEFINE s == <<a, b, c, d>>
  <2>1. s \in Seq({a, b, c, d}) /\ Len(s) = 4 /\ s[1] = a /\ s[2] = b /\ s[3] = c /\ s[4] = d
    OBVIOUS
  <2> HIDE DEF s
  <2>2. \A i \in 1 .. Len(s) - 1 :
          (i = 1 /\ i + 1 = 2) \/ (i = 2 /\ i + 1 = 3) \/ (i = 3 /\ i + 1 = 4)
    BY <2>1
  <2>3. Chained(s) /\ IsSeq(s)
    BY <1>4, <2>1, <2>2 DEF Chained, IsSeq
  <2> QED BY <2>3 DEF s
<1> QED BY <1>1, <1>2, <1>3, <1>4

\* The first item gives way to some that end in one that stands for it.
LEMMA ChainGoesOn ==
  ASSUME NEW t, IsSeq(t), t # <<>>, Chained(t),
         NEW u, IsSeq(u), u # <<>>, Chained(u), Stands(u[Len(u)], t[1])
  PROVE  LET s == u \o Tail(t) IN Chained(s) /\ IsSeq(s) /\ s # <<>> /\ s[1] = u[1]
<1> DEFINE s == u \o Tail(t)
           k == Len(u)
           n == Len(t)
<1>1. /\ IsSeq(s) /\ k \in Nat /\ n \in Nat \ {0} /\ Len(s) = k + n - 1
      /\ \A i \in 1 .. Len(s) : s[i] = IF i <= k THEN u[i] ELSE t[i - k + 1]
  BY Joined
<1>2. k # 0
  BY EmptySeq DEF IsSeq
<1> HIDE DEF s, k, n
<1>3. /\ \A i \in 1 .. k - 1 : Follows(u[i], u[i + 1])
      /\ \A i \in 1 .. n - 1 : Follows(t[i], t[i + 1])
      /\ ~ IsElse(t[n])
  BY <1>1 DEF Chained, k, n
<1>4. ASSUME NEW i \in 1 .. Len(s) - 1 PROVE Follows(s[i], s[i + 1])
  <2>1. i \in 1 .. Len(s) /\ i + 1 \in 1 .. Len(s)
    BY <1>1
  <2>2. CASE i < k
    <3>1. i \in 1 .. k - 1 /\ s[i] = u[i] /\ s[i + 1] = u[i + 1]
      BY <1>1, <2>1, <2>2
    <3> QED BY <1>3, <3>1
  <2>3. CASE i = k
    <3>1. s[i] = u[k] /\ s[i + 1] = t[2]
      <4>1. i + 1 - k + 1 = 2 /\ i <= k /\ ~ (i + 1 <= k)
        BY <1>1, <2>3
      <4> QED BY <1>1, <2>1, <2>3, <4>1
    <3>2. 1 \in 1 .. n - 1 /\ 1 + 1 = 2
      BY <1>1, <2>3
    <3>3. Follows(t[1], t[2])
      BY <1>3, <3>2
    <3> QED BY <3>1, <3>3 DEF Stands, k
  <2>4. CASE i > k
    <3> DEFINE j == i - k + 1
    <3>1. j \in 1 .. n - 1 /\ i + 1 - k + 1 = j + 1
      BY <1>1, <2>4
    <3>2. s[i] = t[j] /\ s[i + 1] = t[j + 1]
      BY <1>1, <2>1, <2>4, <3>1
    <3> HIDE DEF j
    <3> QED BY <1>3, <3>1, <3>2
  <2> QED BY <1>1, <2>1, <2>2, <2>3, <2>4
<1>5. ~ IsElse(s[Len(s)])
  <2>1. Len(s) \in 1 .. Len(s)
    BY <1>1, <1>2
  <2>2. CASE n = 1
    <3>1. s[Len(s)] = u[k]
      BY <1>1, <2>1, <2>2
    <3> QED BY <3>1 DEF Stands, k
  <2>3. CASE n # 1
    <3>1. ~ (Len(s) <= k) /\ Len(s) - k + 1 = n
      BY <1>1, <2>3
    <3> QED BY <1>1, <1>3, <2>1, <3>1
  <2> QED BY <2>2, <2>3
<1>6. s[1] = u[1] /\ Len(s) # 0
  <2>1. 1 \in 1 .. Len(s) /\ 1 <= k
    BY <1>1, <1>2
  <2> QED BY <1>1, <2>1
<1>7. s # <<>>
  BY <1>6, EmptySeq
<1> QED BY <1>1, <1>4, <1>5, <1>6, <1>7 DEF Chained, s

LEMMA ChainGoes ==
  ASSUME NEW t, IsSeq(t), t # <<>>, Chained(t)
  PROVE  LET s == Tail(t)
         IN  /\ Chained(s) /\ IsSeq(s)
             /\ s # <<>> => Follows(t[1], s[1])
             /\ IsElse(t[1]) => s # <<>>
<1> DEFINE s == Tail(t)
           n == Len(t)
<1>1. PICK S : t \in Seq(S)
  BY DEF IsSeq
<1>2. /\ s \in Seq(S) /\ n \in Nat \ {0} /\ Len(s) = n - 1
      /\ \A i \in 1 .. Len(s) : s[i] = t[i + 1]
  BY <1>1, HeadTailProperties, LenProperties, EmptySeq
<1>3. s # <<>> <=> Len(s) # 0
  BY <1>2, EmptySeq
<1> HIDE DEF s, n
<1>4. /\ \A i \in 1 .. n - 1 : Follows(t[i], t[i + 1])
      /\ ~ IsElse(t[n])
  BY <1>2 DEF Chained, n
<1>5. ASSUME NEW i \in 1 .. Len(s) - 1 PROVE Follows(s[i], s[i + 1])
  <2>1. i \in 1 .. Len(s) /\ i + 1 \in 1 .. Len(s) /\ i + 1 \in 1 .. n - 1
    BY <1>2
  <2>2. s[i] = t[i + 1] /\ s[i + 1] = t[i + 1 + 1]
    BY <1>2, <2>1
  <2> QED BY <1>4, <2>1, <2>2
<1>6. ASSUME Len(s) # 0 PROVE ~ IsElse(s[Len(s)]) /\ Follows(t[1], s[1])
  <2>1. Len(s) \in 1 .. Len(s) /\ 1 \in 1 .. Len(s) /\ 1 \in 1 .. n - 1 /\ Len(s) + 1 = n /\ 1 + 1 = 2
    BY <1>2, <1>6
  <2>2. s[Len(s)] = t[n] /\ s[1] = t[1 + 1]
    BY <1>2, <2>1
  <2> QED BY <1>4, <2>1, <2>2
<1>7. ASSUME Len(s) = 0 PROVE ~ IsElse(t[1])
  <2>1. n = 1
    BY <1>2, <1>7
  <2> QED BY <1>4, <2>1
<1>8. Chained(s)
  BY <1>5, <1>6 DEF Chained
<1> QED BY <1>2, <1>3, <1>6, <1>7, <1>8 DEF s, IsSeq

LEMMA FirstIsHead ==
  ASSUME NEW s, IsSeq(s), s # <<>>
  PROVE  Head(s) = s[1]
<1>1. PICK S : s \in Seq(S)
  BY DEF IsSeq
<1> QED BY <1>1, HeadTailProperties

LEMMA GoesOn ==
  ASSUME Held, Ordered, todo # <<>>, NEW u, Then(u), IsSeq(u), u # <<>>, Chained(u),
         Plain(u[1]), Stands(u[Len(u)], Top)
  PROVE  Ordered'
<1>1. IsSeq(todo) /\ Top = todo[1] /\ Chained(todo)
  BY TopFits DEF Ordered
<1> DEFINE s == u \o Tail(todo)
<1>2. todo' = s
  BY DEF Then
<1>3. Chained(s) /\ IsSeq(s) /\ s # <<>> /\ s[1] = u[1]
  BY <1>1, ChainGoesOn
<1> HIDE DEF s
<1>4. Plain(Head(s))
  BY <1>3, FirstIsHead
<1>5. Plain(Top')
  BY <1>2, <1>4 DEF Top
<1>6. Looks'
  BY <1>5, IfsAreOuter DEF Looks, Plain
<1> QED BY <1>2, <1>3, <1>6 DEF Ordered

LEMMA Goes ==
  ASSUME Held, Ordered, todo # <<>>, Then(<<>>)
  PROVE  /\ Chained(todo') /\ (todo' # <<>> => Follows(Top, Top'))
         /\ todo' = Tail(todo) /\ (IsElse(Top) => todo' # <<>>)
<1>1. IsSeq(todo) /\ Top = todo[1] /\ Chained(todo)
  BY TopFits DEF Ordered
<1> DEFINE s == Tail(todo)
<1>2. todo' = s
  BY <1>1, HeadAndTail DEF Then
<1>3. /\ Chained(s) /\ IsSeq(s)
      /\ s # <<>> => Follows(todo[1], s[1])
      /\ IsElse(todo[1]) => s # <<>>
  BY <1>1, ChainGoes
<1> HIDE DEF s
<1>4. s # <<>> => Follows(Top, Head(s))
  BY <1>1, <1>3, FirstIsHead
<1>5. todo' # <<>> => Follows(Top, Top')
  BY <1>2, <1>4 DEF Top
<1> QED BY <1>1, <1>2, <1>3, <1>5 DEF s

LEMMA GoesInert ==
  ASSUME Held, Ordered, todo # <<>>, Then(<<>>), Inert(Top)
  PROVE  Ordered'
<1>1. Chained(todo') /\ (todo' # <<>> => Plain(Top'))
  BY Goes DEF Inert
<1>2. Looks'
  BY <1>1, IfsAreOuter DEF Looks, Plain
<1> QED BY <1>1, <1>2 DEF Ordered

LEMMA OnlyOne ==
  ASSUME NEW it, todo' = <<it>>, Plain(it)
  PROVE  Ordered'
<1> DEFINE s == <<it>>
<1>1. Chained(s) /\ IsSeq(s)
  BY ShortChains DEF Plain
<1>2. s # <<>> /\ Head(s) = it
  OBVIOUS
<1> HIDE DEF s
<1>3. todo' = s
  BY DEF s
<1>4. Plain(Top')
  BY <1>2, <1>3 DEF Top
<1>5. Looks'
  BY <1>4, IfsAreOuter DEF Looks, Plain
<1> QED BY <1>1, <1>3, <1>5 DEF Ordered

LEMMA ThrowOrdered == Throw => Ordered'
<1> SUFFICES ASSUME Throw PROVE Ordered'
  OBVIOUS
<1> DEFINE it == Item("skip", "", "", 0)
<1>1. Plain(it)
  BY DEF Plain, IsOr, IsOrLoop, IsElse, IsOuter, Item
<1> HIDE DEF it
<1>2. todo' = <<it>>
  BY DEF Throw, it
<1> QED BY <1>1, <1>2, OnlyOne

\* The items after the first, where only plain ones follow it.
LEMMA InertGoesOn ==
  ASSUME Held, Ordered, todo # <<>>, Inert(Top)
  PROVE  /\ \A a : Then(<<a>>) /\ Plain(a) => Ordered'
         /\ \A a, b : Then(<<a, b>>) /\ Plain(a) /\ Plain(b) => Ordered'
         /\ \A a, b, c : Then(<<a, b, c>>) /\ Plain(a) /\ Plain(b) /\ Plain(c) => Ordered'
<1>1. \A c : Plain(c) => Stands(c, Top) /\ ~ IsElse(c)
  BY InertStands DEF Plain
<1>2. \A a, b : Plain(a) /\ Plain(b) => Follows(a, b)
  BY DEF Plain, Follows
<1>3. ASSUME NEW a, Then(<<a>>), Plain(a) PROVE Ordered'
  <2> DEFINE u == <<a>>
  <2>1. u # <<>> /\ Len(u) = 1 /\ u[1] = a
    OBVIOUS
  <2>2. Chained(u) /\ IsSeq(u) /\ Then(u)
    BY <1>1, <1>3, ShortChains
  <2> HIDE DEF u
  <2> QED BY <1>1, <1>3, <2>1, <2>2, GoesOn
<1>4. ASSUME NEW a, NEW b, Then(<<a, b>>), Plain(a), Plain(b) PROVE Ordered'
  <2> DEFINE u == <<a, b>>
  <2>1. u # <<>> /\ Len(u) = 2 /\ u[1] = a /\ u[2] = b
    OBVIOUS
  <2>2. Chained(u) /\ IsSeq(u) /\ Then(u)
    BY <1>1, <1>2, <1>4, ShortChains
  <2> HIDE DEF u
  <2> QED BY <1>1, <1>4, <2>1, <2>2, GoesOn
<1>5. ASSUME NEW a, NEW b, NEW c, Then(<<a, b, c>>), Plain(a), Plain(b), Plain(c) PROVE Ordered'
  <2> DEFINE u == <<a, b, c>>
  <2>1. u # <<>> /\ Len(u) = 3 /\ u[1] = a /\ u[3] = c
    OBVIOUS
  <2>2. Chained(u) /\ IsSeq(u) /\ Then(u)
    BY <1>1, <1>2, <1>5, ShortChains
  <2> HIDE DEF u
  <2> QED BY <1>1, <1>5, <2>1, <2>2, GoesOn
<1> QED BY <1>3, <1>4, <1>5

\* Items that are all plain, the last of which is c.
AllPlain(u, c) ==
  IsSeq(u) /\ u # <<>> /\ Chained(u) /\ Plain(u[1]) /\ u[Len(u)] = c

LEMMA PlainIfEach ==
  ASSUME NEW u, IsSeq(u), NEW n \in Nat \ {0}, Len(u) = n, \A i \in 1 .. n : Plain(u[i])
  PROVE  AllPlain(u, u[n])
<1>1. u # <<>> /\ 1 \in 1 .. n
  BY EmptySeq
<1> QED BY <1>1, PlainChain DEF AllPlain

LEMMA AllPlain1 ==
  ASSUME NEW a, Plain(a)
  PROVE  AllPlain(<<a>>, a)
<1> DEFINE u == <<a>>
<1>1. u \in Seq({a}) /\ Len(u) = 1 /\ 1 \in Nat \ {0}
  OBVIOUS
<1>2. u[1] = a
  OBVIOUS
<1> HIDE DEF u
<1>3. \A i \in 1 .. 1 : i = 1
  OBVIOUS
<1>4. IsSeq(u) /\ \A i \in 1 .. 1 : Plain(u[i])
  BY <1>1, <1>3, <1>2 DEF IsSeq
<1>5. AllPlain(u, u[1])
  BY <1>1, <1>4, PlainIfEach
<1> QED BY <1>5, <1>2 DEF u

LEMMA AllPlain2 ==
  ASSUME NEW a, NEW b, Plain(a), Plain(b)
  PROVE  AllPlain(<<a, b>>, b)
<1> DEFINE u == <<a, b>>
<1>1. u \in Seq({a, b}) /\ Len(u) = 2 /\ 2 \in Nat \ {0}
  OBVIOUS
<1>2. u[1] = a /\ u[2] = b
  OBVIOUS
<1> HIDE DEF u
<1>3. \A i \in 1 .. 2 : i = 1 \/ i = 2
  OBVIOUS
<1>4. IsSeq(u) /\ \A i \in 1 .. 2 : Plain(u[i])
  BY <1>1, <1>3, <1>2 DEF IsSeq
<1>5. AllPlain(u, u[2])
  BY <1>1, <1>4, PlainIfEach
<1> QED BY <1>5, <1>2 DEF u

LEMMA AllPlain3 ==
  ASSUME NEW a, NEW b, NEW c, Plain(a), Plain(b), Plain(c)
  PROVE  AllPlain(<<a, b, c>>, c)
<1> DEFINE u == <<a, b, c>>
<1>1. u \in Seq({a, b, c}) /\ Len(u) = 3 /\ 3 \in Nat \ {0}
  OBVIOUS
<1>2. u[1] = a /\ u[2] = b /\ u[3] = c
  OBVIOUS
<1> HIDE DEF u
<1>3. \A i \in 1 .. 3 : i = 1 \/ i = 2 \/ i = 3
  OBVIOUS
<1>4. IsSeq(u) /\ \A i \in 1 .. 3 : Plain(u[i])
  BY <1>1, <1>3, <1>2 DEF IsSeq
<1>5. AllPlain(u, u[3])
  BY <1>1, <1>4, PlainIfEach
<1> QED BY <1>5, <1>2 DEF u

LEMMA AllPlain4 ==
  ASSUME NEW a, NEW b, NEW c, NEW d, Plain(a), Plain(b), Plain(c), Plain(d)
  PROVE  AllPlain(<<a, b, c, d>>, d)
<1> DEFINE u == <<a, b, c, d>>
<1>1. u \in Seq({a, b, c, d}) /\ Len(u) = 4 /\ 4 \in Nat \ {0}
  OBVIOUS
<1>2. u[1] = a /\ u[2] = b /\ u[3] = c /\ u[4] = d
  OBVIOUS
<1> HIDE DEF u
<1>3. \A i \in 1 .. 4 : i = 1 \/ i = 2 \/ i = 3 \/ i = 4
  OBVIOUS
<1>4. IsSeq(u) /\ \A i \in 1 .. 4 : Plain(u[i])
  BY <1>1, <1>3, <1>2 DEF IsSeq
<1>5. AllPlain(u, u[4])
  BY <1>1, <1>4, PlainIfEach
<1> QED BY <1>5, <1>2 DEF u

LEMMA AllPlain6 ==
  ASSUME NEW a, NEW b, NEW c, NEW d, NEW e, NEW f, Plain(a), Plain(b), Plain(c), Plain(d),
         Plain(e), Plain(f)
  PROVE  AllPlain(<<a, b, c, d, e, f>>, f)
<1> DEFINE u == <<a, b, c, d, e, f>>
<1>1. u \in Seq({a, b, c, d, e, f}) /\ Len(u) = 6 /\ 6 \in Nat \ {0}
  OBVIOUS
<1>2. u[1] = a /\ u[2] = b /\ u[3] = c /\ u[4] = d /\ u[5] = e /\ u[6] = f
  OBVIOUS
<1> HIDE DEF u
<1>3. \A i \in 1 .. 6 : i = 1 \/ i = 2 \/ i = 3 \/ i = 4 \/ i = 5 \/ i = 6
  OBVIOUS
<1>4. IsSeq(u) /\ \A i \in 1 .. 6 : Plain(u[i])
  BY <1>1, <1>3, <1>2 DEF IsSeq
<1>5. AllPlain(u, u[6])
  BY <1>1, <1>4, PlainIfEach
<1> QED BY <1>5, <1>2 DEF u

\* Items that are plain, then one that makes a node which may be open.
LEMMA OuterLast ==
  ASSUME NEW u, IsSeq(u), NEW n \in Nat, n >= 2, Len(u) = n, \A i \in 1 .. n - 1 : Plain(u[i]),
         IsStmt(u[n - 1]), IsOuter(u[n])
  PROVE  Chained(u)
<1>1. ASSUME NEW i \in 1 .. Len(u) - 1 PROVE Follows(u[i], u[i + 1])
  <2>1. CASE i = n - 1
    <3>1. i + 1 = n /\ i \in 1 .. n - 1
      BY <2>1
    <3>2. Plain(u[i]) /\ IsStmt(u[i]) /\ IsOuter(u[i + 1])
      BY <2>1, <3>1
    <3>3. ~ IsOr(u[i + 1]) /\ ~ IsOrLoop(u[i + 1]) /\ ~ IsElse(u[i + 1])
      BY <3>2 DEF IsOuter, IsOr, IsOrLoop, IsElse, Outer
    <3> QED BY <3>2, <3>3 DEF Follows, Plain
  <2>2. CASE i # n - 1
    <3>1. i \in 1 .. n - 1 /\ i + 1 \in 1 .. n - 1
      BY <2>2
    <3>2. Plain(u[i]) /\ Plain(u[i + 1])
      BY <3>1
    <3> QED BY <3>2 DEF Follows, Plain
  <2> QED BY <2>1, <2>2
<1>2. ~ IsElse(u[Len(u)])
  BY DEF IsOuter, IsElse
<1> QED BY <1>1, <1>2 DEF Chained

\* A body is in order, and its last item stands for the call of it.
LEMMA BodyChained ==
  ASSUME NEW f \in DOMAIN Body, NEW it, it.do = "call", it.what = f
  PROVE  LET u == Body[f]
         IN  IsSeq(u) /\ u # <<>> /\ Chained(u) /\ Plain(u[1]) /\ Stands(u[Len(u)], it)
<1> DEFINE OK(u) == IsSeq(u) /\ u # <<>> /\ Chained(u) /\ Plain(u[1]) /\ Stands(u[Len(u)], it)
<1>1. f \in {"next_expression", "assignment", "call", "var_decl", "function_decl",
            "get_condition", "if_stmt", "block_stmt", "while_stmt", "for_stmt",
            "return_stmt", "print_stmt", "expr_stmt"}
  BY DEF Body
<1>2. ASSUME f \notin StmtFunctions, NEW u, NEW c, AllPlain(u, c), Plain(c) PROVE OK(u)
  <2>1. f \notin {"logical_or", "logical_and"}
    BY <1>1
  <2>2. Inert(it)
    BY <1>2, <2>1, InertItems
  <2>3. Stands(c, it)
    BY <1>2, <2>2, InertStands DEF Plain
  <2> QED BY <1>2, <2>3 DEF AllPlain
<1>3. ASSUME f \in StmtFunctions, NEW c, c.do = "make", c.what \in Statements PROVE Stands(c, it)
  <2>1. ~ Reaches(it, "logical_or") /\ ~ Reaches(it, "logical_and") /\ ~ IsOr(it) /\ ~ IsElse(it)
    BY <1>1 DEF Reaches, IsOr, IsElse
  <2>2. IsStmt(c) /\ ~ IsElse(c)
    BY <1>3 DEF IsStmt, IsElse
  <2> QED BY <2>1, <2>2 DEF Stands, Follows
<1>4. ASSUME f \in StmtFunctions, NEW node \in Statements, NEW op, NEW u,
             AllPlain(u, Make(node, op))
      PROVE  OK(u)
  <2>1. Stands(Make(node, op), it)
    BY <1>3, <1>4 DEF Make, Item
  <2> QED BY <1>4, <2>1 DEF AllPlain
<1> HIDE DEF OK
<1>5. CASE f = "next_expression"
  <2> DEFINE u == <<Call("assignment")>>
  <2>1. AllPlain(u, Call("assignment")) /\ Plain(Call("assignment"))
    BY PlainItems, AllPlain1
  <2> HIDE DEF u
  <2>2. f \notin StmtFunctions
    BY <1>5 DEF StmtFunctions
  <2>3. OK(u)
    BY <1>2, <2>1, <2>2
  <2>4. Body["next_expression"] = <<Call("assignment")>>
    BY DEF Body
  <2>5. Body[f] = u
    BY <1>5, <2>4 DEF u
  <2> QED BY <2>3, <2>5 DEF OK
<1>6. CASE f = "assignment"
  <2> DEFINE u == <<Call("logical_or"), Call("assigned?")>>
  <2>1. AllPlain(u, Call("assigned?")) /\ Plain(Call("assigned?"))
    BY PlainItems, AllPlain2
  <2> HIDE DEF u
  <2>2. f \notin StmtFunctions
    BY <1>6 DEF StmtFunctions
  <2>3. OK(u)
    BY <1>2, <2>1, <2>2
  <2>4. Body["assignment"] = <<Call("logical_or"), Call("assigned?")>>
    BY DEF Body
  <2>5. Body[f] = u
    BY <1>6, <2>4 DEF u
  <2> QED BY <2>3, <2>5 DEF OK
<1>7. CASE f = "call"
  <2> DEFINE u == <<Call("primary"), Loop("calls", 0)>>
  <2>1. AllPlain(u, Loop("calls", 0)) /\ Plain(Loop("calls", 0))
    BY PlainItems, AllPlain2
  <2> HIDE DEF u
  <2>2. f \notin StmtFunctions
    BY <1>7 DEF StmtFunctions
  <2>3. OK(u)
    BY <1>2, <2>1, <2>2
  <2>4. Body["call"] = <<Call("primary"), Loop("calls", 0)>>
    BY DEF Body
  <2>5. Body[f] = u
    BY <1>7, <2>4 DEF u
  <2> QED BY <2>3, <2>5 DEF OK
<1>8. CASE f = "var_decl"
  <2> DEFINE u == <<Call("identifier"), Opt("kEqual"), Expect("kSemicolon"),
                    Make("Var", "kVar")>>
  <2>1. AllPlain(u, Make("Var", "kVar")) /\ Plain(Make("Var", "kVar"))
    BY PlainItems, AllPlain4
  <2> HIDE DEF u
  <2>2. f \notin StmtFunctions
    BY <1>8 DEF StmtFunctions
  <2>3. OK(u)
    BY <1>2, <2>1, <2>2
  <2>4. Body["var_decl"] = <<Call("identifier"), Opt("kEqual"), Expect("kSemicolon"),
                             Make("Var", "kVar")>>
    BY DEF Body
  <2>5. Body[f] = u
    BY <1>8, <2>4 DEF u
  <2> QED BY <2>3, <2>5 DEF OK
<1>9. CASE f = "function_decl"
  <2> DEFINE u == <<Take, Expect("kLeftParen"), Call("get_params"), Expect("kLeftBrace"),
                    Call("get_stmts"), Make("Function", "kFun")>>
  <2>1. AllPlain(u, Make("Function", "kFun")) /\ Plain(Make("Function", "kFun"))
    BY PlainItems, AllPlain6
  <2> HIDE DEF u
  <2>2. f \notin StmtFunctions
    BY <1>9 DEF StmtFunctions
  <2>3. OK(u)
    BY <1>2, <2>1, <2>2
  <2>4. Body["function_decl"] = <<Take, Expect("kLeftParen"), Call("get_params"),
                                  Expect("kLeftBrace"), Call("get_stmts"),
                                  Make("Function", "kFun")>>
    BY DEF Body
  <2>5. Body[f] = u
    BY <1>9, <2>4 DEF u
  <2> QED BY <2>3, <2>5 DEF OK
<1>10. CASE f = "get_condition"
  <2> DEFINE u == <<Expect("kLeftParen"), Call("next_expression"), Expect("kRightParen")>>
  <2>1. AllPlain(u, Expect("kRightParen")) /\ Plain(Expect("kRightParen"))
    BY PlainItems, AllPlain3
  <2> HIDE DEF u
  <2>2. f \notin StmtFunctions
    BY <1>10 DEF StmtFunctions
  <2>3. OK(u)
    BY <1>2, <2>1, <2>2
  <2>4. Body["get_condition"] = <<Expect("kLeftParen"), Call("next_expression"),
                                  Expect("kRightParen")>>
    BY DEF Body
  <2>5. Body[f] = u
    BY <1>10, <2>4 DEF u
  <2> QED BY <2>3, <2>5 DEF OK
<1>11. CASE f = "block_stmt"
  <2> DEFINE u == <<Call("get_stmts"), Make("Block", "kLeftBrace")>>
  <2>1. AllPlain(u, Make("Block", "kLeftBrace")) /\ Plain(Make("Block", "kLeftBrace"))
    BY PlainItems, AllPlain2
  <2> HIDE DEF u
  <2>2. f \in StmtFunctions /\ "Block" \in Statements
    BY <1>11 DEF StmtFunctions, Statements
  <2>3. OK(u)
    BY <1>4, <2>1, <2>2
  <2>4. Body["block_stmt"] = <<Call("get_stmts"), Make("Block", "kLeftBrace")>>
    BY DEF Body
  <2>5. Body[f] = u
    BY <1>11, <2>4 DEF u
  <2> QED BY <2>3, <2>5 DEF OK
<1>12. CASE f = "while_stmt"
  <2> DEFINE a == Call("get_condition")
             b == Call("next_statement")
             c == Make("While", "kWhile")
             u == <<a, b, c>>
  <2>1. Plain(a) /\ Plain(b) /\ IsStmt(b)
    BY PlainItems DEF IsStmt, Call, Item, StmtFunctions
  <2>2. IsOuter(c) /\ c.do = "make" /\ c.what \in Statements
    BY DEF IsOuter, Outer, Make, Item, Statements
  <2> HIDE DEF a, b, c
  <2>3. u # <<>> /\ IsSeq(u) /\ Len(u) = 3 /\ u[1] = a /\ u[2] = b /\ u[3] = c
    <3>1. u \in Seq({a, b, c})
      OBVIOUS
    <3> QED BY <3>1 DEF IsSeq
  <2> HIDE DEF u
  <2>4. \A i \in 1 .. 3 - 1 : Plain(u[i])
    BY <2>1, <2>3
  <2>5. Chained(u)
    <3>1. 3 \in Nat /\ 3 >= 2 /\ 3 - 1 = 2 /\ Len(u) = 3 /\ IsSeq(u)
      BY <2>3
    <3>2. IsStmt(u[3 - 1]) /\ IsOuter(u[3])
      BY <2>1, <2>2, <2>3, <3>1
    <3> QED BY <2>4, <3>1, <3>2, OuterLast
  <2>6. Stands(c, it)
    BY <1>12, <1>3, <2>2 DEF StmtFunctions
  <2>7. Body["while_stmt"] = <<Call("get_condition"), Call("next_statement"),
                               Make("While", "kWhile")>>
    BY DEF Body
  <2>8. Body[f] = u
    BY <1>12, <2>7 DEF u, a, b, c
  <2> QED BY <2>1, <2>3, <2>5, <2>6, <2>8
<1>13. CASE f = "for_stmt"
  <2> DEFINE a == Expect("kLeftParen")
             b == Call("initializer")
             c == Unless("kSemicolon")
             d == Expect("kSemicolon")
             e == Unless("kRightParen")
             g == Expect("kRightParen")
             h == Call("next_statement")
             j == Make("For", "kFor")
             u == <<a, b, c, d, e, g, h, j>>
  <2>1. /\ Plain(a) /\ Plain(b) /\ Plain(c) /\ Plain(d) /\ Plain(e) /\ Plain(g) /\ Plain(h)
        /\ IsStmt(h)
    BY PlainItems DEF IsStmt, Call, Item, StmtFunctions
  <2>2. IsOuter(j) /\ j.do = "make" /\ j.what \in Statements
    BY DEF IsOuter, Outer, Make, Item, Statements
  <2> HIDE DEF a, b, c, d, e, g, h, j
  <2>3. /\ u # <<>> /\ IsSeq(u) /\ Len(u) = 8
        /\ u[1] = a /\ u[2] = b /\ u[3] = c /\ u[4] = d /\ u[5] = e /\ u[6] = g /\ u[7] = h
        /\ u[8] = j
    <3>1. u \in Seq({a, b, c, d, e, g, h, j})
      OBVIOUS
    <3> QED BY <3>1 DEF IsSeq
  <2> HIDE DEF u
  <2>4. ASSUME NEW i \in 1 .. 8 - 1 PROVE Plain(u[i])
    <3>1. i = 1 \/ i = 2 \/ i = 3 \/ i = 4 \/ i = 5 \/ i = 6 \/ i = 7
      OBVIOUS
    <3> QED BY <2>1, <2>3, <3>1
  <2>5. Chained(u)
    <3>1. 8 \in Nat /\ 8 >= 2 /\ 8 - 1 = 7 /\ Len(u) = 8 /\ IsSeq(u)
      BY <2>3
    <3>2. IsStmt(u[8 - 1]) /\ IsOuter(u[8])
      BY <2>1, <2>2, <2>3, <3>1
    <3> QED BY <2>4, <3>1, <3>2, OuterLast
  <2>6. Stands(j, it)
    BY <1>13, <1>3, <2>2 DEF StmtFunctions
  <2>7. Body["for_stmt"] = <<Expect("kLeftParen"), Call("initializer"), Unless("kSemicolon"),
                             Expect("kSemicolon"), Unless("kRightParen"), Expect("kRightParen"),
                             Call("next_statement"), Make("For", "kFor")>>
    BY DEF Body
  <2>8. Body[f] = u
    BY <1>13, <2>7 DEF u, a, b, c, d, e, g, h, j
  <2> QED BY <2>1, <2>3, <2>5, <2>6, <2>8
<1>14. CASE f = "return_stmt"
  <2> DEFINE u == <<Unless("kSemicolon"), Expect("kSemicolon"), Make("Return", "kReturn")>>
  <2>1. AllPlain(u, Make("Return", "kReturn")) /\ Plain(Make("Return", "kReturn"))
    BY PlainItems, AllPlain3
  <2> HIDE DEF u
  <2>2. f \in StmtFunctions /\ "Return" \in Statements
    BY <1>14 DEF StmtFunctions, Statements
  <2>3. OK(u)
    BY <1>4, <2>1, <2>2
  <2>4. Body["return_stmt"] = <<Unless("kSemicolon"), Expect("kSemicolon"),
                                Make("Return", "kReturn")>>
    BY DEF Body
  <2>5. Body[f] = u
    BY <1>14, <2>4 DEF u
  <2> QED BY <2>3, <2>5 DEF OK
<1>15. CASE f = "print_stmt"
  <2> DEFINE u == <<Call("next_expression"), Expect("kSemicolon"), Make("Print", "kPrint")>>
  <2>1. AllPlain(u, Make("Print", "kPrint")) /\ Plain(Make("Print", "kPrint"))
    BY PlainItems, AllPlain3
  <2> HIDE DEF u
  <2>2. f \in StmtFunctions /\ "Print" \in Statements
    BY <1>15 DEF StmtFunctions, Statements
  <2>3. OK(u)
    BY <1>4, <2>1, <2>2
  <2>4. Body["print_stmt"] = <<Call("next_expression"), Expect("kSemicolon"),
                               Make("Print", "kPrint")>>
    BY DEF Body
  <2>5. Body[f] = u
    BY <1>15, <2>4 DEF u
  <2> QED BY <2>3, <2>5 DEF OK
<1>16. CASE f = "expr_stmt"
  <2> DEFINE u == <<Call("next_expression"), Expect("kSemicolon"), Make("Expression", "")>>
  <2>1. AllPlain(u, Make("Expression", "")) /\ Plain(Make("Expression", ""))
    BY PlainItems, AllPlain3
  <2> HIDE DEF u
  <2>2. f \in StmtFunctions /\ "Expression" \in Statements
    BY <1>16 DEF StmtFunctions, Statements
  <2>3. OK(u)
    BY <1>4, <2>1, <2>2
  <2>4. Body["expr_stmt"] = <<Call("next_expression"), Expect("kSemicolon"),
                              Make("Expression", "")>>
    BY DEF Body
  <2>5. Body[f] = u
    BY <1>16, <2>4 DEF u
  <2> QED BY <2>3, <2>5 DEF OK
<1>17. CASE f = "if_stmt"
  <2> DEFINE a == Call("get_condition")
             b == Call("next_statement")
             c == Opt("kElse")
             d == Make("If", "kIf")
             u == <<a, b, c, d>>
  <2>1. Plain(a) /\ Plain(b)
    BY PlainItems
  <2>2. IsStmt(b) /\ IsElse(c) /\ IsIf(d) /\ ~ IsOr(c) /\ ~ IsOrLoop(c) /\ ~ IsOuter(c)
        /\ ~ IsOr(d) /\ ~ IsOrLoop(d) /\ ~ IsElse(d) /\ d.do = "make" /\ d.what \in Statements
    BY DEF IsStmt, IsElse, IsIf, IsOuter, IsOr, IsOrLoop, Call, Opt, Make, Item, StmtFunctions,
           Statements
  <2> HIDE DEF a, b, c, d
  <2>3. Follows(a, b) /\ Follows(b, c) /\ Follows(c, d)
    BY <2>1, <2>2 DEF Follows, Plain
  <2>4. Chained(u) /\ IsSeq(u)
    BY <2>2, <2>3, ShortChains
  <2>5. u # <<>> /\ u[1] = a /\ Len(u) = 4 /\ u[4] = d
    OBVIOUS
  <2> HIDE DEF u
  <2>6. Stands(d, it)
    BY <1>17, <1>3, <2>2 DEF StmtFunctions
  <2>7. Body["if_stmt"] =
          <<Call("get_condition"), Call("next_statement"), Opt("kElse"), Make("If", "kIf")>>
    BY DEF Body
  <2>8. Body[f] = u
    BY <1>17, <2>7 DEF u, a, b, c, d
  <2> QED BY <2>1, <2>4, <2>5, <2>6, <2>8
<1> QED
  BY <1>1, <1>5, <1>6, <1>7, <1>8, <1>9, <1>10, <1>11, <1>12, <1>13, <1>14, <1>15, <1>16, <1>17

LEMMA EnterOrdered == Held /\ Ordered /\ Enter => Ordered'
<1> SUFFICES ASSUME Held, Ordered, Enter PROVE Ordered'
  OBVIOUS
<1>1. todo # <<>> /\ Top.do = "call"
  BY DEF Enter, Doing
<1>2. CASE Top.what \in DOMAIN Body /\ Then(Body[Top.what])
  <2> DEFINE u == Body[Top.what]
  <2>1. IsSeq(u) /\ u # <<>> /\ Chained(u) /\ Plain(u[1]) /\ Stands(u[Len(u)], Top)
    BY <1>1, <1>2, BodyChained
  <2>2. Then(u)
    BY <1>2
  <2> HIDE DEF u
  <2> QED BY <1>1, <2>1, <2>2, GoesOn
<1>3. CASE Top.what \in Levels /\ Then(<<Call(Operand[Top.what]), Loop(Top.what, 0)>>)
  <2> DEFINE l == Top.what
             a == Call(Operand[l])
             b == Loop(l, 0)
             u == <<a, b>>
  <2>1. l = "logical_or" => Operand[l] = "logical_and"
    BY DEF Operand
  <2>2. Plain(a) /\ a.do = "call" /\ a.what = Operand[l] /\ b.do = "loop" /\ b.what = l
    BY PlainItems DEF Call, Loop, Item
  <2>3. l \notin StmtFunctions
    BY <1>3, LevelSet DEF StmtFunctions
  <2>4. Then(u)
    BY <1>3
  <2>5. u # <<>> /\ Len(u) = 2 /\ u[1] = a /\ u[2] = b
    OBVIOUS
  <2>6. ~ IsStmt(Top) /\ ~ IsOr(Top) /\ ~ IsElse(Top) /\ ~ IsElse(b) /\ ~ IsOr(b) /\ ~ IsOuter(b)
    BY <1>1, <2>2, <2>3 DEF IsStmt, IsOr, IsElse, IsOuter
  <2>7. \A f : Reaches(Top, f) => Reaches(b, f)
    BY <2>2 DEF Reaches
  <2>8. IsOrLoop(b) => Reaches(a, "logical_and")
    BY <2>1, <2>2 DEF IsOrLoop, Reaches
  <2> HIDE DEF u, a, b, l
  <2>9. Stands(b, Top)
    BY <2>6, <2>7 DEF Stands, Follows
  <2>10. Follows(a, b)
    BY <2>2, <2>6, <2>8 DEF Follows, Plain
  <2>11. Chained(u) /\ IsSeq(u)
    BY <2>6, <2>10, ShortChains DEF u
  <2> QED BY <1>1, <2>2, <2>4, <2>5, <2>9, <2>11, GoesOn
<1> QED BY <1>2, <1>3 DEF Enter

\* A call that gives way to another, or an optional statement to its call.
LEMMA CallOrdered ==
  ASSUME Held, Ordered, todo # <<>>, NEW f, Then(<<Call(f)>>), Stands(Call(f), Top)
  PROVE  Ordered'
<1> DEFINE a == Call(f)
           u == <<a>>
<1>1. Plain(a) /\ ~ IsElse(a)
  BY PlainItems DEF Plain
<1>2. u # <<>> /\ Len(u) = 1 /\ u[1] = a
  OBVIOUS
<1>3. Chained(u) /\ IsSeq(u) /\ Then(u)
  BY <1>1, ShortChains
<1> HIDE DEF u
<1> QED BY <1>1, <1>2, <1>3, GoesOn

LEMMA ChooseOrdered == Held /\ Ordered /\ Choose => Ordered'
<1> SUFFICES ASSUME Held, Ordered, Choose PROVE Ordered'
  OBVIOUS
<1>1. todo # <<>> /\ Top.do = "call" /\ Top.what \in DOMAIN Chooses
  BY DEF Choose, Doing
<1>2. PICK f : Then(<<Call(f)>>) /\ (Top.what = "next_statement" => f \in StmtFunctions)
  <2>1. /\ Top.what = "next_statement" => Otherwise[Top.what] \in StmtFunctions
        /\ Top.what = "next_statement" =>
             \A k \in DOMAIN Chooses["next_statement"] :
               Chooses["next_statement"][k] \in StmtFunctions
    BY DEF Chooses, Otherwise, StmtFunctions
  <2> QED BY <1>1, <2>1 DEF Choose
<1>3. Top.what \in {"next_declaration", "next_statement", "initializer"}
  BY <1>1 DEF Chooses
<1>4. ~ Reaches(Top, "logical_or") /\ ~ Reaches(Top, "logical_and") /\ ~ IsOr(Top) /\ ~ IsElse(Top)
  BY <1>1, <1>3 DEF Reaches, IsOr, IsElse
<1>5. IsStmt(Top) => IsStmt(Call(f))
  <2>1. IsStmt(Top) => Top.what = "next_statement"
    BY <1>1, <1>3 DEF IsStmt, StmtFunctions
  <2> QED BY <1>2, <2>1 DEF IsStmt, Call, Item
<1>6. ~ IsElse(Call(f))
  BY PlainItems DEF Plain
<1>7. Stands(Call(f), Top)
  BY <1>4, <1>5, <1>6 DEF Stands, Follows
<1> QED BY <1>1, <1>2, <1>7, CallOrdered

\* The calls and tokens that leave nothing behind.
LEMMA TokensOrdered ==
  Held /\ Ordered /\ (Nothing \/ Want \/ Identifier \/ TakeName) => Ordered'
<1> SUFFICES ASSUME Held, Ordered, Nothing \/ Want \/ Identifier \/ TakeName PROVE Ordered'
  OBVIOUS
<1>1. CASE Throw
  BY <1>1, ThrowOrdered
<1>2. CASE ~ Throw
  <2>1. /\ todo # <<>> /\ Then(<<>>)
        /\ \/ Top.do = "call" /\ Top.what \in {"nothing", "identifier"}
           \/ Top.do \in {"expect", "take"}
    BY <1>2 DEF Nothing, Want, Identifier, TakeName, Calling, Doing
  <2>2. Inert(Top)
    BY <2>1, InertItems DEF StmtFunctions
  <2> QED BY <2>1, <2>2, GoesInert
<1> QED BY <1>1, <1>2

\* The if whose else is not there is made next.
LEMMA OptionalOrdered == Held /\ Ordered /\ Optional => Ordered'
<1> SUFFICES ASSUME Held, Ordered, Optional PROVE Ordered'
  OBVIOUS
<1>1. todo # <<>> /\ Top.do = "opt"
  BY DEF Optional, Doing
<1>2. CASE Top.kind = "kElse"
  <2>1. IsElse(Top) /\ \A b : Follows(Top, b) => IsIf(b)
    BY <1>1, <1>2 DEF IsElse, Follows
  <2>2. CASE ahead = "kElse"
    <3>1. Then(<<Call("next_statement")>>)
      BY <1>2, <2>2 DEF Optional
    <3>2. IsStmt(Call("next_statement")) /\ ~ IsElse(Call("next_statement"))
      BY DEF IsStmt, IsElse, Call, Item, StmtFunctions
    <3>3. \A b : IsIf(b) => ~ IsOr(b) /\ ~ IsOrLoop(b) /\ ~ IsElse(b)
      BY DEF IsIf, IsOr, IsOrLoop, IsElse
    <3>4. Stands(Call("next_statement"), Top)
      BY <2>1, <3>2, <3>3 DEF Stands, Follows
    <3> QED BY <1>1, <3>1, <3>4, CallOrdered
  <2>3. CASE ahead # "kElse"
    <3>1. Then(<<>>) /\ ahead' = ahead
      BY <1>2, <2>3 DEF Optional
    <3>2. Chained(todo') /\ (todo' # <<>> => IsIf(Top'))
      BY <1>1, <2>1, <3>1, Goes
    <3>3. Looks'
      BY <2>3, <3>1, <3>2 DEF Looks, IsIf, IsOr, IsOrLoop, IsElse
    <3> QED BY <3>2, <3>3 DEF Ordered
  <2> QED BY <2>2, <2>3
<1>3. CASE Top.kind # "kElse"
  <2>1. Inert(Top)
    BY <1>1, <1>3, InertItems
  <2>2. Then(<<>>) \/ Then(<<Call("next_expression")>>)
    BY <1>3 DEF Optional
  <2> QED BY <1>1, <2>1, <2>2, GoesInert, InertGoesOn, PlainItems
<1> QED BY <1>2, <1>3

LEMMA PossibleOrdered == Held /\ Ordered /\ Possible => Ordered'
<1> SUFFICES ASSUME Held, Ordered, Possible PROVE Ordered'
  OBVIOUS
<1>1. todo # <<>> /\ Top.do = "unless"
  BY DEF Possible, Doing
<1>2. Inert(Top)
  BY <1>1, InertItems
<1>3. Then(<<>>) \/ Then(<<Call("next_expression")>>)
  BY DEF Possible
<1> QED BY <1>1, <1>2, <1>3, GoesInert, InertGoesOn, PlainItems

\* An `or` is made before a token that is none, and an if without an else before
\* one that is no else.
LEMMA MakeNodeOrdered == Held /\ Ordered /\ MakeNode => Ordered'
<1> SUFFICES ASSUME Held, Ordered, MakeNode PROVE Ordered'
  OBVIOUS
<1> DEFINE n == Arity(Top.what)
           k == Len(built) - n
           s == SubSeq(built, 1, k)
           kids == SubSeq(built, k + 1, Len(built))
           e == Node(Top.what, Top.kind, kids)
           last == built'[Len(built')]
<1>1. /\ todo # <<>> /\ Top.do = "make" /\ Then(<<>>) /\ ahead' = ahead
      /\ built' = Reduced(Top.what, Top.kind, n)
  BY DEF MakeNode, Doing
<1>2. ItemOK(Top) /\ Len(built) \in Nat /\ IsSeq(built)
  BY <1>1, TopFits DEF Held
<1>3. Top.what \in Nodes
  BY <1>1, <1>2 DEF ItemOK
<1>4. /\ n \in 1 .. 4 /\ (Top.what = "If" => n = 3) /\ (Top.what = "While" => n = 2)
      /\ Top.what = "For" => n = 4
  BY <1>3, Arities
<1>5. PICK x, y : Ready(x, y) /\ x.h = Len(built)
  BY <1>1, TopFits
<1>6. Turns(x, y, n, Made(Top.what, Top.kind))
  BY <1>1, <1>5, SortsOf DEF Ready
<1> HIDE DEF n
<1>18. n \in Nat /\ n <= Len(built)
  BY <1>4, <1>5, <1>6 DEF Turns
<1>7. /\ k \in Nat /\ IsSeq(s) /\ Len(s) = k /\ Len(kids) = n
      /\ \A i \in 1 .. n : kids[i] = built[k + i]
  BY <1>2, <1>18, Taken
<1>8. built' = Append(s, e)
  BY <1>1 DEF Reduced
<1> HIDE DEF s, kids
<1>9. last = e
  <2> HIDE DEF e
  <2>1. Len(Append(s, e)) = Len(s) + 1 /\ Append(s, e)[Len(s) + 1] = e
    BY <1>7, AppendedIs
  <2> QED BY <1>8, <2>1
<1>10. e.what = Top.what /\ e.kids = kids
  BY DEF e, Node
<1>11. kids[n] = built[Len(built)]
  <2>1. n \in 1 .. n /\ k + n = Len(built)
    BY <1>2, <1>4
  <2> HIDE DEF k
  <2> QED BY <1>7, <2>1
<1> HIDE DEF e, k
<1>12. IsOpen(last) /\ IsStmt(Top) => ahead # "kElse"
  <2> SUFFICES ASSUME IsOpen(last), IsStmt(Top) PROVE ahead # "kElse"
    OBVIOUS
  <2>1. Top.what \in Outer /\ ((Top.what = "If" /\ kids[n] = Null) \/ IsOpen(kids[n]))
    <3>1. IsOpen(e)
      BY <1>9
    <3> QED BY <1>4, <1>10, <3>1, Opens DEF Outer
  <2>2. /\ IsOuter(Top)
        /\ (IsIf(Top) /\ built[Len(built)] = Null) \/ IsOpen(built[Len(built)])
    BY <1>1, <1>11, <2>1 DEF IsIf, IsOuter
  <2> QED BY <1>1, <2>2 DEF Ordered, Looks
<1>13. last # Null
  <2>1. Null.what = "null" /\ "null" \notin Nodes
    BY Leaves DEF Nodes
  <2> QED BY <1>3, <1>9, <1>10, <2>1
<1>14. Chained(todo') /\ (todo' # <<>> => Follows(Top, Top'))
  BY <1>1, Goes
<1>15. ~ Reaches(Top, "logical_or") /\ ~ Reaches(Top, "logical_and") /\ ~ IsElse(Top)
  BY <1>1 DEF Reaches, IsElse
<1>16. IsOr(Top) => ahead # "kOr"
  BY <1>1 DEF Ordered, Looks
<1>17. Looks'
  <2> SUFFICES ASSUME todo' # <<>>
               PROVE  /\ IsOr(Top') => ahead # "kOr"
                      /\ IsOrLoop(Top') /\ ahead = "kOr" => Strength(last) > 1
                      /\ IsIf(Top') /\ last = Null => ahead # "kElse"
                      /\ (IsElse(Top') \/ IsOuter(Top')) /\ IsOpen(last) => ahead # "kElse"
    BY <1>1 DEF Looks, IsOr, IsOrLoop, IsIf, IsElse, IsOuter, Outer, Strength, IsOpen, OpenLaw
  <2>1. /\ ~ IsOr(Top') /\ (IsOrLoop(Top') => IsOr(Top))
        /\ IsElse(Top') \/ IsOuter(Top') => IsStmt(Top)
    BY <1>14, <1>15 DEF Follows
  <2> QED BY <1>12, <1>13, <1>16, <2>1
<1> QED BY <1>14, <1>17 DEF Ordered

LEMMA AssignedOrdered == Held /\ Ordered /\ (Assigned \/ Target) => Ordered'
<1> SUFFICES ASSUME Held, Ordered, Assigned \/ Target PROVE Ordered'
  OBVIOUS
<1>1. CASE Throw
  BY <1>1, ThrowOrdered
<1>2. CASE ~ Throw
  <2>1. todo # <<>> /\ Top.do = "call" /\ Top.what \in {"assigned?", "assigned!"}
    BY DEF Assigned, Target, Calling, Doing
  <2>2. Inert(Top)
    BY <2>1, InertItems DEF StmtFunctions
  <2>3. \/ Then(<<>>)
        \/ Then(<<Call("assignment"), Call("assigned!")>>)
        \/ Then(<<Make("Assignment", "kEqual")>>)
    BY <1>2 DEF Assigned, Target
  <2> QED BY <2>1, <2>2, <2>3, GoesInert, InertGoesOn, PlainItems
<1> QED BY <1>1, <1>2

\* The operand of an `and` is no `or`.
LEMMA TighterThanOr ==
  ASSUME Held, todo # <<>>, Top.do = "loop", Top.what = "logical_and"
  PROVE  Strength(built[Len(built)]) > 1
<1>1. PICK x, y : Ready(x, y) /\ x.h = Len(built)
  BY TopFits
<1>2. "logical_and" \in Repeats /\ Operands("logical_and") = Expr(2)
  <2>1. "logical_and" \in Levels /\ Rank["logical_and"] = 2
    BY LevelSet DEF Rank
  <2> QED BY <2>1, LevelsCall
<1>3. x.h \in Nat /\ x.h >= 1 /\ x.at[x.h] \subseteq Expr(2) /\ Fits(built, x)
  BY <1>1, <1>2, SortsOf DEF Ready
<1>4. x.h \in 1 .. Len(built)
  BY <1>1, <1>3
<1>5. Kind(built[x.h]) \in Expr(2)
  BY <1>3, <1>4 DEF Fits
<1>6. Strength(built[x.h]) \in 2 .. 8
  BY <1>5, KindOf
<1> QED BY <1>1, <1>6

LEMMA OperatorOrdered == Held /\ Ordered /\ Operator => Ordered'
<1> SUFFICES ASSUME Held, Ordered, Operator PROVE Ordered'
  OBVIOUS
<1> DEFINE l == Top.what
<1>1. todo # <<>> /\ Top.do = "loop" /\ l \in Levels /\ built' = built
  BY DEF Operator, Doing
<1>2. ~ IsStmt(Top) /\ ~ IsOr(Top) /\ ~ IsElse(Top) /\ ~ IsOuter(Top)
  BY <1>1 DEF IsStmt, IsOr, IsElse, IsOuter
<1>3. CASE ahead \notin Ops[l] /\ Then(<<>>) /\ ahead' = ahead
  <2>1. Chained(todo') /\ (todo' # <<>> => Follows(Top, Top'))
    BY <1>1, <1>3, Goes
  <2>2. Reaches(Top, "logical_or") => ahead # "kOr"
    BY <1>1, <1>3 DEF Reaches, Ops
  <2>3. Reaches(Top, "logical_and") => Strength(built[Len(built)]) > 1
    BY <1>1, TighterThanOr DEF Reaches
  <2>4. todo' # <<>> => /\ IsOr(Top') => Reaches(Top, "logical_or")
                        /\ IsOrLoop(Top') => Reaches(Top, "logical_and")
                        /\ ~ IsElse(Top') /\ ~ IsIf(Top') /\ ~ IsOuter(Top')
    BY <1>2, <2>1, IfsAreOuter DEF Follows
  <2>5. Looks'
    <3> SUFFICES ASSUME todo' # <<>>
                 PROVE  LET last == built[Len(built)] IN
                        /\ IsOr(Top') => ahead # "kOr"
                        /\ IsOrLoop(Top') /\ ahead = "kOr" => Strength(last) > 1
                        /\ IsIf(Top') /\ last = Null => ahead # "kElse"
                        /\ (IsElse(Top') \/ IsOuter(Top')) /\ IsOpen(last) => ahead # "kElse"
      BY <1>1, <1>3 DEF Looks, IsOr, IsOrLoop, IsIf, IsElse, IsOuter, Outer, IsOpen, OpenLaw
    <3> QED BY <2>2, <2>3, <2>4
  <2> QED BY <2>1, <2>5 DEF Ordered
<1>4. CASE ahead \in Ops[l] /\ Then(<<Call(RightOperand(l)), Make(OpNode(l), ahead), Top>>)
  <2> DEFINE a == Call(RightOperand(l))
             b == Make(OpNode(l), ahead)
             u == <<a, b, Top>>
  <2>1. /\ Plain(a) /\ a.do = "call" /\ a.what = RightOperand(l)
        /\ b.do = "make" /\ b.what = OpNode(l) /\ b.kind = ahead
    BY PlainItems DEF Call, Make, Item
  <2>2. ahead = "kOr" <=> l = "logical_or"
    BY <1>1, <1>4, LevelSet DEF Ops
  <2>3. l = "logical_or" => RightOperand(l) = "logical_or" /\ OpNode(l) = "Logical"
    BY DEF RightOperand, OpNode
  <2>4. ~ IsOrLoop(b) /\ ~ IsElse(b) /\ ~ IsOuter(b)
    BY <2>1 DEF IsOrLoop, IsElse, IsOuter, Outer, OpNode
  <2>5. Follows(a, b)
    <3>1. IsOr(b) => Reaches(a, "logical_or")
      BY <2>1, <2>2, <2>3 DEF IsOr, Reaches
    <3> QED BY <2>1, <2>4, <3>1 DEF Follows, Plain
  <2>6. Follows(b, Top)
    <3>1. IsOrLoop(Top) => IsOr(b)
      BY <2>1, <2>2, <2>3 DEF IsOrLoop, IsOr
    <3> QED BY <1>2, <2>4, <3>1 DEF Follows
  <2>7. u # <<>> /\ Len(u) = 3 /\ u[1] = a /\ u[3] = Top
    OBVIOUS
  <2>8. Then(u)
    BY <1>4
  <2> HIDE DEF u, a, b
  <2>9. Chained(u) /\ IsSeq(u)
    BY <1>2, <2>5, <2>6, ShortChains DEF u
  <2>10. Stands(Top, Top)
    BY <1>2 DEF Stands
  <2> QED BY <1>1, <2>1, <2>7, <2>8, <2>9, <2>10, GoesOn
<1> QED BY <1>3, <1>4 DEF Operator

LEMMA ExpressionOrdered == Held /\ Ordered /\ (Unary \/ Calls \/ Primary) => Ordered'
<1> SUFFICES ASSUME Held, Ordered, Unary \/ Calls \/ Primary PROVE Ordered'
  OBVIOUS
<1>1. CASE Throw
  BY <1>1, ThrowOrdered
<1>2. CASE ~ Throw
  <2>1. /\ todo # <<>>
        /\ \/ Top.do = "call" /\ Top.what \in {"unary", "primary"}
           \/ Top.do = "loop" /\ Top.what = "calls"
    BY DEF Unary, Calls, Primary, Calling, Looping, Doing
  <2>2. Inert(Top)
    BY <2>1, InertItems DEF StmtFunctions
  <2>3. Top.do = "loop" => Plain(Top)
    BY <2>1 DEF Plain, IsOr, IsOrLoop, IsElse, IsOuter
  <2>4. \/ Then(<<>>) \/ Then(<<Call("call")>>)
        \/ Then(<<Call("unary"), Make("Unary", ahead)>>)
        \/ Then(<<Call("get_args"), Make("Call", "kLeftParen"), Top>>) /\ Top.do = "loop"
        \/ Then(<<Call("next_expression"), Expect("kRightParen"), Make("Grouping", ahead)>>)
    BY <1>2 DEF Unary, Calls, Primary, Looping, Doing
  <2> QED BY <2>1, <2>2, <2>3, <2>4, GoesInert, InertGoesOn, PlainItems
<1> QED BY <1>1, <1>2

LEMMA ListOrdered ==
  /\ Held /\ Ordered
  /\ BeginList \/ Parameter \/ ThrowParameter \/ NextElement \/ MakeList
       \/ BeginStmts \/ NextStmt \/ NextDeclaration
  => Ordered'
<1> SUFFICES ASSUME Held, Ordered,
                    BeginList \/ Parameter \/ ThrowParameter \/ NextElement \/ MakeList
                      \/ BeginStmts \/ NextStmt \/ NextDeclaration
             PROVE  Ordered'
  OBVIOUS
<1>1. CASE Throw
  BY <1>1, ThrowOrdered
<1>2. CASE ~ Throw
  <2>1. /\ todo # <<>>
        /\ \/ Top.do = "call" /\ Top.what \in ListFunctions \cup {"parameter", "throw"}
           \/ Top.do = "loop" /\ Top.what \in Lists
    BY <1>2 DEF BeginList, Parameter, ThrowParameter, NextElement, MakeList,
                BeginStmts, NextStmt, NextDeclaration, Calling, Looping, Doing, Lists, ListFunctions
  <2>2. Inert(Top)
    BY <2>1, InertItems DEF StmtFunctions, Lists, ListFunctions
  <2>3. Top.do = "loop" => Plain(Top)
    BY <2>1 DEF Plain, IsOr, IsOrLoop, IsElse, IsOuter, Lists, ListFunctions
  <2>4. CASE BeginList
    <3> DEFINE f == IF Top.what = "get_args" THEN "next_expression" ELSE "parameter"
               h == Len(built)
    <3>1. \/ Then(<<Loop("end of list", h), Expect("kRightParen")>>)
          \/ Then(<<Call(f), Loop(Top.what, h), Expect("kRightParen")>>)
      BY <2>4 DEF BeginList
    <3>2. Top.what # "logical_or"
      BY <2>4 DEF BeginList
    <3> HIDE DEF f, h
    <3> QED BY <2>1, <2>2, <3>1, <3>2, InertGoesOn, PlainItems
  <2>5. CASE Parameter \/ ThrowParameter \/ MakeList
    <3>1. Then(<<>>) \/ Then(<<Call("throw")>>)
      BY <1>2, <2>5 DEF Parameter, ThrowParameter, MakeList
    <3> QED BY <2>1, <2>2, <3>1, GoesInert, InertGoesOn, PlainItems
  <2>6. CASE BeginStmts
    <3> DEFINE h == Len(built)
    <3>1. Then(<<Loop("get_stmts", h), Expect("kRightBrace")>>)
      BY <2>6 DEF BeginStmts
    <3> HIDE DEF h
    <3> QED BY <2>1, <2>2, <3>1, InertGoesOn, PlainItems
  <2>7. CASE NextElement \/ NextStmt \/ NextDeclaration
    <3> DEFINE f == IF Top.what = "get_args" THEN "next_expression" ELSE "parameter"
    <3>1. Top.do = "loop"
      BY <2>7 DEF NextElement, NextStmt, NextDeclaration, Looping, Doing
    <3>2. \/ Then(<<Loop("end of list", Top.n)>>)
          \/ Then(<<Call(f), Top>>)
          \/ Then(<<Call("next_declaration"), Top>>)
      BY <1>2, <2>7 DEF NextElement, NextStmt, NextDeclaration
    <3> HIDE DEF f
    <3> QED BY <2>1, <2>2, <2>3, <3>1, <3>2, InertGoesOn, PlainItems
  <2> QED BY <2>4, <2>5, <2>6, <2>7
<1> QED BY <1>1, <1>2

-----------------------------------------------------------------------------
(* The cursor.                                                              *)

Tokens == Inspected \cup {Other, Eof}

\* The cursor is in the tokens or just after the last.
Cursor ==
  /\ source \in Sources \cup {NoSource}
  /\ read \in Seq(Tokens)
  /\ Len(read) <= Len(source.kinds)
  /\ ahead \in Tokens \cup {Past}
  /\ ahead # Past => Len(read) < Len(source.kinds)
Named == at \in 0 .. Len(read) + 1

LEMMA SourceKinds ==
  \A s \in Sources \cup {NoSource} : s.kinds \in Seq(SUBSET (Tokens \cup {Past}))
<1>1. \A s \in Sources : s.kinds \in Seq(SUBSET (Tokens \cup {Past}))
  BY SourcesAssumption DEF Tokens
<1>2. NoSource.kinds \in Seq(SUBSET (Tokens \cup {Past}))
  BY DEF NoSource
<1> QED BY <1>1, <1>2

LEMMA AfterFits ==
  ASSUME NEW s \in Sources \cup {NoSource}, NEW n \in Nat
  PROVE  /\ After(s, n) \subseteq Tokens \cup {Past}
         /\ \A k \in After(s, n) : k # Past => n < Len(s.kinds)
<1>1. s.kinds \in Seq(SUBSET (Tokens \cup {Past}))
  BY SourceKinds
<1>2. CASE n < Len(s.kinds)
  <2>1. n + 1 \in 1 .. Len(s.kinds)
    BY <1>1, <1>2, LenProperties
  <2>2. s.kinds[n + 1] \subseteq Tokens \cup {Past}
    BY <1>1, <2>1, ElementOfSeq
  <2> QED BY <1>2, <2>2 DEF After
<1>3. CASE ~ (n < Len(s.kinds))
  BY <1>3 DEF After
<1> QED BY <1>2, <1>3

LEMMA GetKeeps ==
  ASSUME Cursor, source' = source, Advance \/ Discard
  PROVE  Cursor' /\ Len(read') = Len(read) + 1 /\ Len(read) \in Nat
<1> DEFINE n == Len(read) + 1
<1>1. Len(read) \in Nat /\ Len(source.kinds) \in Nat
  BY SourceKinds, LenProperties DEF Cursor
<1>2. ahead # Past /\ read' = Append(read, ahead)
  BY DEF Advance, Discard, Get
<1>3. ahead \in Tokens /\ n <= Len(source.kinds)
  BY <1>1, <1>2 DEF Cursor
<1>4. read' \in Seq(Tokens) /\ Len(read') = n
  BY <1>2, <1>3, AppendProperties DEF Cursor
<1>5. /\ After(source, n) \subseteq Tokens \cup {Past}
      /\ \A k \in After(source, n) : k # Past => n < Len(source.kinds)
  BY <1>1, AfterFits DEF Cursor
<1>6. ahead' = Past \/ \E k \in After(source, n) : ahead' = k \/ ahead' = Skimmed(k)
  BY DEF Advance, Discard, Get
<1>7. \A k \in Tokens \cup {Past} : /\ Skimmed(k) \in Tokens \cup {Past}
                                    /\ Skimmed(k) # Past => k # Past
  BY DEF Skimmed, Tokens, Inspected, Other, Eof, Past
<1>8. ahead' \in Tokens \cup {Past} /\ (ahead' # Past => n < Len(source.kinds))
  BY <1>5, <1>6, <1>7
<1> QED BY <1>1, <1>3, <1>4, <1>8 DEF Cursor

\* How a step may move the cursor and name a token.
Moves ==
  \/ (Advance \/ Discard) /\ at' = at
  \/ UNCHANGED <<read, ahead, at>>
  \/ Throw
  \/ UNCHANGED <<read, ahead>> /\ at' \in {0, Len(read) + 1}

LEMMA StepMoves == Step => Moves
<1>1. Enter \/ Choose \/ Nothing \/ Want \/ Identifier \/ TakeName => Moves
  BY DEF Enter, Choose, Nothing, Want, Identifier, TakeName, Moves
<1>2. Optional \/ Possible \/ MakeNode \/ Assigned \/ Target \/ Operator => Moves
  BY DEF Optional, Possible, MakeNode, Assigned, Target, Operator, Moves
<1>3. Unary \/ Calls \/ Primary \/ BeginList \/ Parameter \/ ThrowParameter => Moves
  BY DEF Unary, Calls, Primary, BeginList, Parameter, ThrowParameter, Moves
<1>4. NextElement \/ MakeList \/ BeginStmts \/ NextStmt \/ NextDeclaration => Moves
  BY DEF NextElement, MakeList, BeginStmts, NextStmt, NextDeclaration, Moves
<1>5. Skip \/ Accept \/ Overrun => Moves
  BY DEF Skip, Accept, Overrun, Moves
<1> QED BY <1>1, <1>2, <1>3, <1>4, <1>5 DEF Step

LEMMA MovesKeep ==
  ASSUME Cursor, Named, source' = source, Moves
  PROVE  Cursor' /\ Named'
<1>1. Len(read) \in Nat
  BY LenProperties DEF Cursor
<1>2. CASE (Advance \/ Discard) /\ at' = at
  <2>1. Cursor' /\ Len(read') = Len(read) + 1
    BY <1>2, GetKeeps
  <2> QED BY <1>1, <1>2, <2>1 DEF Named
<1>3. CASE UNCHANGED <<read, ahead, at>>
  BY <1>3 DEF Cursor, Named
<1>4. CASE Throw
  <2>1. Cursor' /\ Len(read') = Len(read) + 1 /\ at' = Len(read) + 1
    BY <1>4, GetKeeps DEF Throw
  <2> QED BY <1>1, <2>1 DEF Named
<1>5. CASE UNCHANGED <<read, ahead>> /\ at' \in {0, Len(read) + 1}
  BY <1>1, <1>5 DEF Cursor, Named
<1> QED BY <1>2, <1>3, <1>4, <1>5 DEF Moves

-----------------------------------------------------------------------------
(* What a step adds to the items and the nodes.                             *)

\* The name and the parameters of a function, what makes assignments and calls,
\* and what is neither.
OfFunction(it) ==
  \/ it.do = "take"
  \/ it.do = "call" /\ it.what \in {"function_decl", "get_params", "parameter", "throw"}
  \/ it.do = "loop" /\ it.what = "get_params"
Applies(it) ==
  \/ it.do = "make" /\ it.what \in {"Assignment", "Call"}
  \/ it.do = "call" /\ it.what = "assigned!"
Common(it) == ~ OfFunction(it) /\ ~ Applies(it)

\* Such items come from others, or from a token that is taken.
Took(kinds) == ahead \in kinds /\ read' = Append(read, ahead)
Comes(it) ==
  /\ OfFunction(it) => OfFunction(Top) \/ Took({"kFun"})
  /\ Applies(it) => Applies(Top) \/ Took({"kEqual", "kLeftParen"})

Come(u) == IsSeq(u) /\ \A i \in 1 .. Len(u) : Comes(u[i])

LEMMA AllCome ==
  ASSUME NEW S, \A it \in S : Comes(it), NEW u \in Seq(S)
  PROVE  Come(u)
<1>1. \A i \in 1 .. Len(u) : u[i] \in S
  BY ElementOfSeq
<1> QED BY <1>1 DEF Come, IsSeq

LEMMA CommonItems ==
  /\ \A f : f \notin {"function_decl", "get_params", "parameter", "throw", "assigned!"} =>
       Common(Call(f))
  /\ \A k : Common(Expect(k)) /\ Common(Opt(k)) /\ Common(Unless(k))
  /\ \A l, n : l # "get_params" => Common(Loop(l, n))
  /\ \A what, op : what \notin {"Assignment", "Call"} => Common(Make(what, op))
  BY DEF Common, OfFunction, Applies, Call, Expect, Opt, Unless, Loop, Make, Item

LEMMA NothingComes == Come(<<>>)
  BY EmptySeq DEF Come, IsSeq

LEMMA TuplesCome ==
  /\ \A a : Comes(a) => Come(<<a>>)
  /\ \A a, b : Comes(a) /\ Comes(b) => Come(<<a, b>>)
  /\ \A a, b, c : Comes(a) /\ Comes(b) /\ Comes(c) => Come(<<a, b, c>>)
  /\ \A a, b, c, d : Comes(a) /\ Comes(b) /\ Comes(c) /\ Comes(d) => Come(<<a, b, c, d>>)
  /\ \A a, b, c, d, e, f : Comes(a) /\ Comes(b) /\ Comes(c) /\ Comes(d) /\ Comes(e) /\ Comes(f) =>
       Come(<<a, b, c, d, e, f>>)
  /\ \A a, b, c, d, e, f, g, h : Comes(a) /\ Comes(b) /\ Comes(c) /\ Comes(d) /\ Comes(e) /\ Comes(f)
                                   /\ Comes(g) /\ Comes(h) =>
       Come(<<a, b, c, d, e, f, g, h>>)
<1>1. ASSUME NEW a, Comes(a) PROVE Come(<<a>>)
  <2>1. <<a>> \in Seq({a})
    OBVIOUS
  <2> QED BY <1>1, <2>1, AllCome
<1>2. ASSUME NEW a, NEW b, Comes(a), Comes(b)
      PROVE  Come(<<a, b>>)
  <2>1. <<a, b>> \in Seq({a, b})
    OBVIOUS
  <2> QED BY <1>2, <2>1, AllCome
<1>3. ASSUME NEW a, NEW b, NEW c, Comes(a), Comes(b), Comes(c)
      PROVE  Come(<<a, b, c>>)
  <2>1. <<a, b, c>> \in Seq({a, b, c})
    OBVIOUS
  <2> QED BY <1>3, <2>1, AllCome
<1>4. ASSUME NEW a, NEW b, NEW c, NEW d, Comes(a), Comes(b), Comes(c), Comes(d)
      PROVE  Come(<<a, b, c, d>>)
  <2>1. <<a, b, c, d>> \in Seq({a, b, c, d})
    OBVIOUS
  <2> QED BY <1>4, <2>1, AllCome
<1>5. ASSUME NEW a, NEW b, NEW c, NEW d, NEW e, NEW f, Comes(a), Comes(b), Comes(c), Comes(d), Comes(e), Comes(f)
      PROVE  Come(<<a, b, c, d, e, f>>)
  <2>1. <<a, b, c, d, e, f>> \in Seq({a, b, c, d, e, f})
    OBVIOUS
  <2> QED BY <1>5, <2>1, AllCome
<1>6. ASSUME NEW a, NEW b, NEW c, NEW d, NEW e, NEW f, NEW g, NEW h, Comes(a), Comes(b), Comes(c), Comes(d), Comes(e), Comes(f), Comes(g), Comes(h)
      PROVE  Come(<<a, b, c, d, e, f, g, h>>)
  <2>1. <<a, b, c, d, e, f, g, h>> \in Seq({a, b, c, d, e, f, g, h})
    OBVIOUS
  <2> QED BY <1>6, <2>1, AllCome
<1> QED BY <1>1, <1>2, <1>3, <1>4, <1>5, <1>6

LEMMA CommonComes == \A it : Common(it) \/ it = Top => Comes(it)
  BY DEF Comes, Common

\* The bodies of functions but for function_decl.
LEMMA BodyComes ==
  ASSUME NEW f \in DOMAIN Body, f # "function_decl"
  PROVE  Come(Body[f])
<1>1. CASE f = "next_expression"
  <2>1. Comes(Call("assignment"))
    BY CommonItems, CommonComes
  <2>2. Body["next_expression"] = <<Call("assignment")>>
    BY DEF Body
  <2> QED BY <1>1, <2>1, <2>2, TuplesCome
<1>2. CASE f = "assignment"
  <2>1. Comes(Call("logical_or")) /\ Comes(Call("assigned?"))
    BY CommonItems, CommonComes
  <2>2. Body["assignment"] = <<Call("logical_or"), Call("assigned?")>>
    BY DEF Body
  <2> QED BY <1>2, <2>1, <2>2, TuplesCome
<1>3. CASE f = "call"
  <2>1. Comes(Call("primary")) /\ Comes(Loop("calls", 0))
    BY CommonItems, CommonComes
  <2>2. Body["call"] = <<Call("primary"), Loop("calls", 0)>>
    BY DEF Body
  <2> QED BY <1>3, <2>1, <2>2, TuplesCome
<1>4. CASE f = "var_decl"
  <2>1. Comes(Call("identifier")) /\ Comes(Opt("kEqual")) /\ Comes(Expect("kSemicolon")) /\
        Comes(Make("Var", "kVar"))
    BY CommonItems, CommonComes
  <2>2. Body["var_decl"] = <<Call("identifier"), Opt("kEqual"), Expect("kSemicolon"),
                             Make("Var", "kVar")>>
    BY DEF Body
  <2> QED BY <1>4, <2>1, <2>2, TuplesCome
<1>5. CASE f = "get_condition"
  <2>1. Comes(Expect("kLeftParen")) /\ Comes(Call("next_expression")) /\
        Comes(Expect("kRightParen"))
    BY CommonItems, CommonComes
  <2>2. Body["get_condition"] = <<Expect("kLeftParen"), Call("next_expression"), Expect("kRightParen")>>
    BY DEF Body
  <2> QED BY <1>5, <2>1, <2>2, TuplesCome
<1>6. CASE f = "if_stmt"
  <2>1. Comes(Call("get_condition")) /\ Comes(Call("next_statement")) /\ Comes(Opt("kElse"))
        /\ Comes(Make("If", "kIf"))
    BY CommonItems, CommonComes
  <2>2. Body["if_stmt"] = <<Call("get_condition"), Call("next_statement"), Opt("kElse"),
                            Make("If", "kIf")>>
    BY DEF Body
  <2> QED BY <1>6, <2>1, <2>2, TuplesCome
<1>7. CASE f = "block_stmt"
  <2>1. Comes(Call("get_stmts")) /\ Comes(Make("Block", "kLeftBrace"))
    BY CommonItems, CommonComes
  <2>2. Body["block_stmt"] = <<Call("get_stmts"), Make("Block", "kLeftBrace")>>
    BY DEF Body
  <2> QED BY <1>7, <2>1, <2>2, TuplesCome
<1>8. CASE f = "while_stmt"
  <2>1. Comes(Call("get_condition")) /\ Comes(Call("next_statement")) /\
        Comes(Make("While", "kWhile"))
    BY CommonItems, CommonComes
  <2>2. Body["while_stmt"] = <<Call("get_condition"), Call("next_statement"), Make("While", "kWhile")>>
    BY DEF Body
  <2> QED BY <1>8, <2>1, <2>2, TuplesCome
<1>9. CASE f = "for_stmt"
  <2>1. Comes(Expect("kLeftParen")) /\ Comes(Call("initializer")) /\
        Comes(Unless("kSemicolon")) /\ Comes(Expect("kSemicolon")) /\
        Comes(Unless("kRightParen")) /\ Comes(Expect("kRightParen")) /\
        Comes(Call("next_statement")) /\ Comes(Make("For", "kFor"))
    BY CommonItems, CommonComes
  <2>2. Body["for_stmt"] = <<Expect("kLeftParen"), Call("initializer"), Unless("kSemicolon"),
                             Expect("kSemicolon"), Unless("kRightParen"), Expect("kRightParen"),
                             Call("next_statement"), Make("For", "kFor")>>
    BY DEF Body
  <2> QED BY <1>9, <2>1, <2>2, TuplesCome
<1>10. CASE f = "return_stmt"
  <2>1. Comes(Unless("kSemicolon")) /\ Comes(Expect("kSemicolon")) /\
        Comes(Make("Return", "kReturn"))
    BY CommonItems, CommonComes
  <2>2. Body["return_stmt"] = <<Unless("kSemicolon"), Expect("kSemicolon"), Make("Return", "kReturn")>>
    BY DEF Body
  <2> QED BY <1>10, <2>1, <2>2, TuplesCome
<1>11. CASE f = "print_stmt"
  <2>1. Comes(Call("next_expression")) /\ Comes(Expect("kSemicolon")) /\
        Comes(Make("Print", "kPrint"))
    BY CommonItems, CommonComes
  <2>2. Body["print_stmt"] = <<Call("next_expression"), Expect("kSemicolon"), Make("Print", "kPrint")>>
    BY DEF Body
  <2> QED BY <1>11, <2>1, <2>2, TuplesCome
<1>12. CASE f = "expr_stmt"
  <2>1. Comes(Call("next_expression")) /\ Comes(Expect("kSemicolon")) /\
        Comes(Make("Expression", ""))
    BY CommonItems, CommonComes
  <2>2. Body["expr_stmt"] = <<Call("next_expression"), Expect("kSemicolon"), Make("Expression", "")>>
    BY DEF Body
  <2> QED BY <1>12, <2>1, <2>2, TuplesCome
<1>13. f \in {"next_expression", "assignment", "call", "var_decl", "get_condition", "if_stmt",
             "block_stmt", "while_stmt", "for_stmt", "return_stmt", "print_stmt", "expr_stmt"}
  BY DEF Body
<1> QED BY <1>1, <1>2, <1>3, <1>4, <1>5, <1>6, <1>7, <1>8, <1>9, <1>10, <1>11, <1>12, <1>13

LEMMA DeclarationComes ==
  ASSUME OfFunction(Top)
  PROVE  Come(Body["function_decl"])
<1>1. Comes(Take) /\ Comes(Call("get_params"))
  BY DEF Comes, Applies, Take, Call, Item
<1>2. /\ Comes(Expect("kLeftParen")) /\ Comes(Expect("kLeftBrace"))
      /\ Comes(Call("get_stmts")) /\ Comes(Make("Function", "kFun"))
  BY CommonItems, CommonComes
<1>3. Body["function_decl"] = <<Take, Expect("kLeftParen"), Call("get_params"),
                                Expect("kLeftBrace"), Call("get_stmts"), Make("Function", "kFun")>>
  BY DEF Body
<1> QED BY <1>1, <1>2, <1>3, TuplesCome


\* An item is there before a step, or comes.
Kept(it) == \E j \in 1 .. Len(todo) : it = todo[j]
ItemsCome == \A i \in 1 .. Len(todo') : todo # <<>> /\ (Kept(todo'[i]) \/ Comes(todo'[i]))

LEMMA ThenComes ==
  ASSUME IsSeq(todo), todo # <<>>, NEW u, Come(u), Then(u)
  PROVE  ItemsCome
<1>1. /\ Len(u) \in Nat /\ Len(todo) \in Nat \ {0}
      /\ Len(todo') = Len(u) + Len(todo) - 1
      /\ \A i \in 1 .. Len(todo') :
           todo'[i] = IF i <= Len(u) THEN u[i] ELSE todo[i - Len(u) + 1]
  BY Joined DEF Come, Then
<1>2. ASSUME NEW i \in 1 .. Len(todo') PROVE Kept(todo'[i]) \/ Comes(todo'[i])
  <2>1. CASE i <= Len(u)
    <3>1. i \in 1 .. Len(u) /\ todo'[i] = u[i]
      BY <1>1, <2>1
    <3> QED BY <3>1 DEF Come
  <2>2. CASE ~ (i <= Len(u))
    <3>1. i - Len(u) + 1 \in 1 .. Len(todo) /\ todo'[i] = todo[i - Len(u) + 1]
      BY <1>1, <2>2
    <3> QED BY <3>1 DEF Kept
  <2> QED BY <2>1, <2>2
<1> QED BY <1>2 DEF ItemsCome

LEMMA CallsCome ==
  ASSUME IsSeq(todo), todo # <<>>, NEW f, Then(<<Call(f)>>), Comes(Call(f))
  PROVE  ItemsCome
<1>1. Come(<<Call(f)>>)
  BY TuplesCome
<1> QED BY <1>1, ThenComes

LEMMA ThrowComes == Throw /\ todo # <<>> => ItemsCome
<1> SUFFICES ASSUME Throw, todo # <<>> PROVE ItemsCome
  OBVIOUS
<1> DEFINE it == Item("skip", "", "", 0)
<1>1. todo' = <<it>> /\ Common(it)
  BY DEF Throw, Common, OfFunction, Applies, Item
<1> HIDE DEF it
<1>2. Len(todo') = 1 /\ todo'[1] = it
  BY <1>1
<1>3. Comes(it)
  BY <1>1 DEF Comes, Common
<1> QED BY <1>2, <1>3 DEF ItemsCome

LEMMA ItemsMade ==
  ASSUME IsSeq(todo), Step
  PROVE  ItemsCome
<1>1. CASE Enter
  <2>1. todo # <<>> /\ Top.do = "call"
    BY <1>1 DEF Enter, Doing
  <2>2. CASE Top.what \in DOMAIN Body /\ Then(Body[Top.what])
    <3>1. Top.what = "function_decl" => OfFunction(Top)
      BY <2>1 DEF OfFunction
    <3>2. Come(Body[Top.what])
      BY <2>2, <3>1, BodyComes, DeclarationComes
    <3> QED BY <2>1, <2>2, <3>2, ThenComes
  <2>3. CASE Top.what \in Levels /\ Then(<<Call(Operand[Top.what]), Loop(Top.what, 0)>>)
    <3> DEFINE a == Call(Operand[Top.what])
               b == Loop(Top.what, 0)
               u == <<a, b>>
    <3>1. Operand[Top.what] \notin {"function_decl", "get_params", "parameter", "throw", "assigned!"}
          /\ Top.what # "get_params"
      BY <2>3, LevelSet DEF Operand
    <3>2. Comes(a) /\ Comes(b)
      BY <3>1, CommonItems, CommonComes
    <3>3. Then(u)
      BY <2>3
    <3> HIDE DEF a, b
    <3>4. Come(u)
      BY <3>2, TuplesCome
    <3> HIDE DEF u
    <3> QED BY <2>1, <3>3, <3>4, ThenComes
  <2> QED BY <1>1, <2>2, <2>3 DEF Enter
<1>2. CASE Choose
  <2>1. todo # <<>> /\ Top.do = "call" /\ Top.what \in DOMAIN Chooses
    BY <1>2 DEF Choose, Doing
  <2> DEFINE given == {"get_params", "parameter", "throw", "assigned!"}
  <2>2. CASE ahead \in DOMAIN Chooses[Top.what]
    <3> DEFINE f == Chooses[Top.what][ahead]
    <3>1. Then(<<Call(f)>>) /\ read' = Append(read, ahead)
      BY <1>2, <2>2 DEF Choose, Advance, Get
    <3>2. f \notin given /\ (f = "function_decl" => ahead = "kFun")
      BY <2>1, <2>2 DEF Chooses
    <3> HIDE DEF f
    <3>3. Comes(Call(f))
      <4>1. f # "function_decl" => Common(Call(f))
        BY <3>2, CommonItems
      <4>2. ~ Applies(Call("function_decl"))
        BY DEF Applies, Call, Item
      <4> QED BY <3>1, <3>2, <4>1, <4>2 DEF Comes, Common, Took
    <3> QED BY <2>1, <3>1, <3>3, CallsCome
  <2>3. CASE ahead \notin DOMAIN Chooses[Top.what]
    <3> DEFINE f == Otherwise[Top.what]
    <3>1. Then(<<Call(f)>>)
      BY <1>2, <2>3 DEF Choose
    <3>2. f \notin given /\ f # "function_decl"
      BY <2>1 DEF Chooses, Otherwise
    <3> HIDE DEF f
    <3>3. Comes(Call(f))
      BY <3>2, CommonItems, CommonComes
    <3> QED BY <2>1, <3>1, <3>3, CallsCome
  <2> QED BY <2>2, <2>3
<1>3. CASE Throw /\ todo # <<>>
  BY <1>3, ThrowComes
<1>4. CASE Then(<<>>) /\ todo # <<>>
  BY <1>4, NothingComes, ThenComes
<1>5. CASE Optional \/ Possible
  <2>1. todo # <<>>
    BY <1>5 DEF Optional, Possible, Doing
  <2>2. \/ Then(<<>>) \/ Then(<<Call("next_statement")>>) \/ Then(<<Call("next_expression")>>)
    BY <1>5 DEF Optional, Possible
  <2>3. Common(Call("next_statement")) /\ Common(Call("next_expression"))
    BY CommonItems
  <2> QED BY <1>4, <2>1, <2>2, <2>3, CallsCome, CommonComes
<1>6. CASE Assigned /\ ahead = "kEqual"
  <2> DEFINE a == Call("assignment")
             b == Call("assigned!")
             u == <<a, b>>
  <2>1. todo # <<>> /\ Then(u) /\ read' = Append(read, ahead)
    BY <1>6 DEF Assigned, Calling, Doing, Advance, Get
  <2>2. Comes(a)
    BY CommonItems, CommonComes
  <2>3. Comes(b)
    <3>1. ~ OfFunction(b)
      BY DEF OfFunction, Call, Item
    <3> QED BY <1>6, <2>1, <3>1 DEF Comes, Took
  <2> HIDE DEF a, b
  <2>4. Come(u)
    BY <2>2, <2>3, TuplesCome
  <2> HIDE DEF u
  <2> QED BY <2>1, <2>4, ThenComes
<1>7. CASE Target /\ Then(<<Make("Assignment", "kEqual")>>)
  <2> DEFINE a == Make("Assignment", "kEqual")
             u == <<a>>
  <2>1. todo # <<>> /\ Applies(Top)
    BY <1>7 DEF Target, Calling, Doing, Applies
  <2>2. Comes(a)
    BY <2>1 DEF Comes, OfFunction, Make, Item
  <2> HIDE DEF a
  <2>3. Come(u)
    BY <2>2, TuplesCome
  <2>4. Then(u)
    BY <1>7 DEF a
  <2> HIDE DEF u
  <2> QED BY <2>1, <2>3, <2>4, ThenComes
<1>8. CASE Operator /\ ahead \in Ops[Top.what]
  <2> DEFINE a == Call(RightOperand(Top.what))
             b == Make(OpNode(Top.what), ahead)
             u == <<a, b, Top>>
  <2>1. todo # <<>> /\ Top.what \in Levels /\ Then(u)
    BY <1>8 DEF Operator, Doing
  <2>2. RightOperand(Top.what) \notin {"function_decl", "get_params", "parameter", "throw", "assigned!"}
    BY <2>1, LevelSet DEF RightOperand, Operand
  <2>3. OpNode(Top.what) \notin {"Assignment", "Call"}
    BY DEF OpNode
  <2>4. Comes(a) /\ Comes(b) /\ Comes(Top)
    BY <2>2, <2>3, CommonItems, CommonComes
  <2> HIDE DEF a, b
  <2>5. Come(u)
    BY <2>4, TuplesCome
  <2> HIDE DEF u
  <2> QED BY <2>1, <2>5, ThenComes
<1>9. CASE Unary
  <2> DEFINE a == Call("unary")
             b == Make("Unary", ahead)
             u == <<a, b>>
  <2>1. todo # <<>> /\ (Then(u) \/ Then(<<Call("call")>>))
    BY <1>9 DEF Unary, Calling, Doing
  <2>2. Comes(a) /\ Comes(b) /\ Comes(Call("call"))
    BY CommonItems, CommonComes
  <2> HIDE DEF a, b
  <2>3. Come(u)
    BY <2>2, TuplesCome
  <2> HIDE DEF u
  <2> QED BY <2>1, <2>2, <2>3, ThenComes, CallsCome
<1>10. CASE Calls /\ ahead = "kLeftParen"
  <2> DEFINE a == Call("get_args")
             b == Make("Call", "kLeftParen")
             u == <<a, b, Top>>
  <2>1. todo # <<>> /\ Then(u) /\ read' = Append(read, ahead)
    BY <1>10 DEF Calls, Looping, Doing, Advance, Get
  <2>2. Comes(a) /\ Comes(Top)
    BY CommonItems, CommonComes
  <2>3. Comes(b)
    <3>1. ~ OfFunction(b)
      BY DEF OfFunction, Make, Item
    <3> QED BY <1>10, <2>1, <3>1 DEF Comes, Took
  <2> HIDE DEF a, b
  <2>4. Come(u)
    BY <2>2, <2>3, TuplesCome
  <2> HIDE DEF u
  <2> QED BY <2>1, <2>4, ThenComes
<1>11. CASE Primary /\ ahead = "kLeftParen"
  <2> DEFINE a == Call("next_expression")
             b == Expect("kRightParen")
             c == Make("Grouping", ahead)
             u == <<a, b, c>>
  <2>1. todo # <<>> /\ Then(u)
    BY <1>11 DEF Primary, Calling, Doing, Constants
  <2>2. Comes(a) /\ Comes(b) /\ Comes(c)
    BY CommonItems, CommonComes
  <2> HIDE DEF a, b, c
  <2>3. Come(u)
    BY <2>2, TuplesCome
  <2> HIDE DEF u
  <2> QED BY <2>1, <2>3, ThenComes
<1>12. CASE BeginList
  <2> DEFINE e == Call(IF Top.what = "get_args" THEN "next_expression" ELSE "parameter")
             l == Loop(Top.what, Len(built))
             m == Loop("end of list", Len(built))
             k == Expect("kRightParen")
             u == <<e, l, k>>
             v == <<m, k>>
  <2>1. /\ todo # <<>> /\ Top.do = "call" /\ Top.what \in {"get_args", "get_params"}
        /\ Then(u) \/ Then(v)
    BY <1>12 DEF BeginList, Doing
  <2>2. Comes(k) /\ Comes(m)
    BY CommonItems, CommonComes
  <2>3. Comes(e) /\ Comes(l)
    <3>1. CASE Top.what = "get_args"
      BY <3>1, CommonItems, CommonComes
    <3>2. CASE Top.what = "get_params"
      <4>1. OfFunction(Top)
        BY <2>1, <3>2 DEF OfFunction
      <4>2. ~ Applies(e) /\ ~ Applies(l)
        BY <3>2 DEF Applies, Call, Loop, Item
      <4> QED BY <4>1, <4>2 DEF Comes
    <3> QED BY <2>1, <3>1, <3>2
  <2> HIDE DEF e, l, m, k
  <2>4. Come(u) /\ Come(v)
    BY <2>2, <2>3, TuplesCome
  <2> HIDE DEF u, v
  <2> QED BY <2>1, <2>4, ThenComes
<1>13. CASE Parameter /\ Then(<<Call("throw")>>)
  <2>1. todo # <<>> /\ OfFunction(Top)
    BY <1>13 DEF Parameter, Calling, Doing, OfFunction
  <2>2. Comes(Call("throw"))
    BY <2>1 DEF Comes, Applies, Call, Item
  <2> QED BY <1>13, <2>1, <2>2, CallsCome
<1>14. CASE NextElement /\ ~ Throw
  <2> DEFINE e == Call(IF Top.what = "get_args" THEN "next_expression" ELSE "parameter")
             m == Loop("end of list", Top.n)
             u == <<e, Top>>
             v == <<m>>
  <2>1. /\ todo # <<>> /\ Top.do = "loop" /\ Top.what \in {"get_args", "get_params"}
        /\ Then(u) \/ Then(v)
    BY <1>14 DEF NextElement, Doing
  <2>2. Comes(m) /\ Comes(Top)
    BY CommonItems, CommonComes
  <2>3. Comes(e)
    <3>1. CASE Top.what = "get_args"
      BY <3>1, CommonItems, CommonComes
    <3>2. CASE Top.what = "get_params"
      <4>1. OfFunction(Top)
        BY <2>1, <3>2 DEF OfFunction
      <4>2. ~ Applies(e)
        BY <3>2 DEF Applies, Call, Item
      <4> QED BY <4>1, <4>2 DEF Comes
    <3> QED BY <2>1, <3>1, <3>2
  <2> HIDE DEF e, m
  <2>4. Come(u) /\ Come(v)
    BY <2>2, <2>3, TuplesCome
  <2> HIDE DEF u, v
  <2> QED BY <2>1, <2>4, ThenComes
<1>15. CASE BeginStmts
  <2> DEFINE a == Loop("get_stmts", Len(built))
             b == Expect("kRightBrace")
             u == <<a, b>>
  <2>1. todo # <<>> /\ Then(u)
    BY <1>15 DEF BeginStmts, Calling, Doing
  <2>2. Comes(a) /\ Comes(b)
    BY CommonItems, CommonComes
  <2> HIDE DEF a, b
  <2>3. Come(u)
    BY <2>2, TuplesCome
  <2> HIDE DEF u
  <2> QED BY <2>1, <2>3, ThenComes
<1>16. CASE NextStmt \/ NextDeclaration
  <2> DEFINE a == Call("next_declaration")
             m == Loop("end of list", Top.n)
             u == <<a, Top>>
             v == <<m>>
  <2>1. todo # <<>> /\ (Then(u) \/ Then(v))
    BY <1>16 DEF NextStmt, NextDeclaration, Looping, Doing
  <2>2. Comes(a) /\ Comes(m) /\ Comes(Top)
    BY CommonItems, CommonComes
  <2> HIDE DEF a, m
  <2>3. Come(u) /\ Come(v)
    BY <2>2, TuplesCome
  <2> HIDE DEF u, v
  <2> QED BY <2>1, <2>3, ThenComes
<1>17. CASE Skip \/ Accept \/ Overrun
  <2>1. todo' = <<>> \/ todo' = todo
    BY <1>17 DEF Skip, Accept, Overrun
  <2>2. todo' = <<>> => Len(todo') = 0
    BY EmptySeq
  <2>3. \A i \in 1 .. Len(todo) : todo # <<>> /\ Kept(todo[i])
    BY EmptySeq DEF Kept
  <2> QED BY <2>1, <2>2, <2>3 DEF ItemsCome
<1>18. CASE Nothing \/ Want \/ Identifier \/ TakeName \/ MakeNode \/ MakeList \/ ThrowParameter
  <2>1. todo # <<>> /\ (Throw \/ Then(<<>>))
    BY <1>18 DEF Nothing, Want, Identifier, TakeName, MakeNode, MakeList, ThrowParameter, Calling,
       Looping, Doing
  <2> QED BY <1>3, <1>4, <2>1
<1>19. CASE Assigned \/ Target \/ Operator \/ Calls \/ Primary \/ Parameter \/ NextElement
  <2>1. todo # <<>>
    BY <1>19 DEF Assigned, Target, Operator, Calls, Primary, Parameter, NextElement, Calling,
       Looping, Doing
  <2>2. CASE Assigned \/ Target
    <3>1. \/ Throw \/ Then(<<>>) \/ (Assigned /\ ahead = "kEqual")
          \/ (Target /\ Then(<<Make("Assignment", "kEqual")>>))
      BY <2>2 DEF Assigned, Target
    <3> QED BY <1>3, <1>4, <1>6, <1>7, <2>1, <3>1
  <2>3. CASE Operator \/ Calls \/ Primary
    <3>1. \/ Throw \/ Then(<<>>) \/ (Operator /\ ahead \in Ops[Top.what])
          \/ (Calls /\ ahead = "kLeftParen") \/ (Primary /\ ahead = "kLeftParen")
      BY <2>3 DEF Operator, Calls, Primary
    <3> QED BY <1>3, <1>4, <1>8, <1>10, <1>11, <2>1, <3>1
  <2>4. CASE Parameter \/ NextElement
    <3>1. \/ Throw \/ Then(<<>>) \/ (Parameter /\ Then(<<Call("throw")>>))
          \/ (NextElement /\ ~ Throw)
      BY <2>4 DEF Parameter
    <3> QED BY <1>3, <1>4, <1>13, <1>14, <2>1, <3>1
  <2> QED BY <1>19, <2>2, <2>3, <2>4
<1> QED BY <1>1, <1>2, <1>5, <1>9, <1>12, <1>15, <1>16, <1>17, <1>18, <1>19 DEF Step

\* A node is there before a step, or is made of such.
There(e) == \E j \in 1 .. Len(built) : e = built[j]
Grows(e) ==
  /\ \A j \in 1 .. Len(e.kids) : There(e.kids[j])
  /\ e.what \in {"Assignment", "Call"} => Applies(Top)
NodesCome == \A i \in 1 .. Len(built') : There(built'[i]) \/ Grows(built'[i])

LEMMA KeepsNodes == built' = built \/ built' = <<>> => NodesCome
<1>1. built' = <<>> => Len(built') = 0
  BY EmptySeq
<1>2. \A i \in 1 .. Len(built) : There(built[i])
  BY DEF There
<1> QED BY <1>1, <1>2 DEF NodesCome

LEMMA AddsNode ==
  ASSUME IsSeq(built), NEW what, NEW op, built' = Append(built, Node(what, op, <<>>)),
         what \notin {"Assignment", "Call"}
  PROVE  NodesCome
<1> DEFINE e == Node(what, op, <<>>)
<1>1. Grows(e)
  <2>1. e.kids = <<>> /\ e.what = what
    BY DEF Node
  <2> HIDE DEF e
  <2>2. Len(e.kids) = 0
    BY <2>1, EmptySeq
  <2> QED BY <2>1, <2>2 DEF Grows
<1> HIDE DEF e
<1>2. built' = Append(built, e)
  BY DEF e
<1>3. /\ Len(built) \in Nat /\ Len(built') = Len(built) + 1
      /\ \A i \in 1 .. Len(built) : built'[i] = built[i]
      /\ built'[Len(built) + 1] = e
  BY <1>2, AppendedIs
<1>4. ASSUME NEW i \in 1 .. Len(built') PROVE There(built'[i]) \/ Grows(built'[i])
  <2>1. i \in 1 .. Len(built) \/ i = Len(built) + 1
    BY <1>3
  <2> QED BY <1>1, <1>3, <2>1 DEF There
<1> QED BY <1>4 DEF NodesCome

LEMMA GathersNodes ==
  ASSUME IsSeq(built), NEW n \in Nat, n <= Len(built),
         NEW what, NEW op, built' = Reduced(what, op, n),
         what \in {"Assignment", "Call"} => Applies(Top)
  PROVE  NodesCome
<1> DEFINE k == Len(built) - n
           s == SubSeq(built, 1, k)
           r == SubSeq(built, k + 1, Len(built))
           e == Node(what, op, r)
<1>1. /\ Len(built) \in Nat /\ k \in Nat /\ IsSeq(s) /\ Len(s) = k
      /\ \A i \in 1 .. k : s[i] = built[i]
      /\ Len(r) = n
      /\ \A i \in 1 .. n : r[i] = built[k + i]
  BY Taken
<1>2. built' = Append(s, e) /\ e.what = what /\ e.kids = r
  BY DEF Reduced, Node
<1> HIDE DEF s, r, e
<1>3. Grows(e)
  <2>1. ASSUME NEW j \in 1 .. Len(e.kids) PROVE There(e.kids[j])
    <3>1. k + j \in 1 .. Len(built) /\ e.kids[j] = built[k + j]
      BY <1>1, <1>2
    <3> QED BY <3>1 DEF There
  <2> QED BY <1>2, <2>1 DEF Grows
<1>4. /\ Len(built') = k + 1 /\ built'[k + 1] = e
      /\ \A i \in 1 .. k : built'[i] = s[i]
  BY <1>1, <1>2, AppendedIs
<1>5. ASSUME NEW i \in 1 .. Len(built') PROVE There(built'[i]) \/ Grows(built'[i])
  <2>1. CASE i = k + 1
    BY <1>3, <1>4, <2>1
  <2>2. CASE i # k + 1
    <3>1. i \in 1 .. k /\ k <= Len(built)
      <4>1. i \in 1 .. k + 1 /\ k <= Len(built)
        BY <1>1, <1>4
      <4> HIDE DEF k
      <4> QED BY <1>1, <2>2, <4>1
    <3>2. built'[i] = built[i] /\ i \in 1 .. Len(built)
      BY <1>1, <1>4, <3>1
    <3> QED BY <3>2 DEF There
  <2> QED BY <2>1, <2>2
<1> QED BY <1>5 DEF NodesCome

LEMMA NodesMade ==
  ASSUME Held, Step
  PROVE  NodesCome
<1>0. IsSeq(built)
  BY DEF Held
<1>1. CASE built' = built \/ built' = <<>>
  BY <1>1, KeepsNodes
<1>2. CASE Nothing \/ Optional \/ Possible
  <2>1. built' = built \/ built' = Append(built, Node("null", "", <<>>))
    BY <1>2 DEF Nothing, Optional, Possible, Null
  <2>2. "null" \notin {"Assignment", "Call"}
    OBVIOUS
  <2> QED BY <1>0, <1>1, <2>1, <2>2, AddsNode
<1>3. CASE Identifier \/ TakeName \/ Parameter
  <2>1. built' = built \/ built' = <<>> \/ built' = Append(built, Node("Token", ahead, <<>>))
    BY <1>3 DEF Identifier, TakeName, Parameter, Throw
  <2>2. "Token" \notin {"Assignment", "Call"}
    OBVIOUS
  <2> QED BY <1>0, <1>1, <2>1, <2>2, AddsNode
<1>4. CASE Primary
  <2>1. \/ built' = built \/ built' = <<>>
        \/ built' = Append(built, Node("Literal", ahead, <<>>))
        \/ built' = Append(built, Node("Variable", ahead, <<>>))
    BY <1>4 DEF Primary, Throw
  <2>2. "Literal" \notin {"Assignment", "Call"} /\ "Variable" \notin {"Assignment", "Call"}
    OBVIOUS
  <2> QED BY <1>0, <1>1, <2>1, <2>2, AddsNode
<1>5. CASE MakeNode
  <2>1. todo # <<>> /\ Top.do = "make" /\ built' = Reduced(Top.what, Top.kind, Arity(Top.what))
    BY <1>5 DEF MakeNode, Doing
  <2>2. ItemOK(Top) /\ Len(built) \in Nat
    BY <2>1, TopFits
  <2>3. Top.what \in Nodes
    BY <2>1, <2>2 DEF ItemOK
  <2>4. Arity(Top.what) \in 1 .. 4
    BY <2>3, Arities
  <2>5. PICK x, y : Ready(x, y) /\ x.h = Len(built)
    BY <2>1, TopFits
  <2>6. Turns(x, y, Arity(Top.what), Made(Top.what, Top.kind))
    BY <2>1, <2>5, SortsOf DEF Ready
  <2>7. Arity(Top.what) \in Nat /\ Arity(Top.what) <= Len(built)
    BY <2>4, <2>5, <2>6 DEF Turns
  <2>8. Top.what \in {"Assignment", "Call"} => Applies(Top)
    BY <2>1 DEF Applies
  <2> QED BY <1>0, <2>1, <2>7, <2>8, GathersNodes
<1>6. CASE MakeList
  <2>1. todo # <<>> /\ built' = Reduced("list", "", Len(built) - Top.n)
    BY <1>6 DEF MakeList, Looping, Doing, EndOfList
  <2>2. Len(built) \in Nat /\ Top.n \in Nat /\ Top.n <= Len(built)
    BY <2>1, TopFits
  <2>3. Len(built) - Top.n \in Nat /\ Len(built) - Top.n <= Len(built)
    BY <2>2
  <2>4. "list" \notin {"Assignment", "Call"}
    OBVIOUS
  <2> QED BY <1>0, <2>1, <2>3, <2>4, GathersNodes
<1>7. CASE Enter \/ Choose \/ Want \/ Assigned \/ Target \/ Operator \/ Unary \/ Calls
  <2>1. built' = built \/ built' = <<>>
    BY <1>7 DEF Enter, Choose, Want, Assigned, Target, Operator, Unary, Calls, Throw
  <2> QED BY <1>1, <2>1
<1>8. CASE BeginList \/ ThrowParameter \/ NextElement \/ BeginStmts \/ NextStmt \/ NextDeclaration
  <2>1. built' = built \/ built' = <<>>
    BY <1>8 DEF BeginList, ThrowParameter, NextElement, BeginStmts, NextStmt, NextDeclaration, Throw
  <2> QED BY <1>1, <2>1
<1>9. CASE Skip \/ Accept \/ Overrun
  <2>1. built' = built \/ built' = <<>>
    BY <1>9 DEF Skip, Accept, Overrun
  <2> QED BY <1>1, <2>1
<1> QED BY <1>2, <1>3, <1>4, <1>5, <1>6, <1>7, <1>8, <1>9 DEF Step

-----------------------------------------------------------------------------
(* The invariant.                                                           *)

Ending ==
  /\ status \in {"new", "parsing", "ok", "error", "crashed"}
  /\ status = "new" => read = <<>> /\ built = <<>>
  /\ status # "parsing" => todo = <<>>
  /\ status = "ok" => Len(built) = 1

IInv ==
  /\ Cursor /\ Named /\ Ending /\ AllSound(built)
  /\ status = "parsing" => Held /\ Ordered

\* What the order says of an else that is not there, or is, and of an `or`.
LEMMA LooksAhead ==
  ASSUME Held, Ordered, todo # <<>>
  PROVE  /\ Top.do = "opt" /\ Top.kind = "kElse" =>
              /\ ahead = "kElse" => ~ IsOpen(built[Len(built)])
              /\ Tail(todo) # <<>> /\ Tail(todo)[1].do = "make" /\ Tail(todo)[1].what = "If"
         /\ Top.do = "loop" /\ Top.what = "logical_or" /\ ahead = "kOr" =>
              Strength(built[Len(built)]) > 1
<1>1. IsSeq(todo) /\ Top = todo[1] /\ Chained(todo)
  BY TopFits DEF Ordered
<1>2. ASSUME IsElse(Top)
      PROVE  /\ ahead = "kElse" => ~ IsOpen(built[Len(built)])
             /\ Tail(todo) # <<>> /\ Tail(todo)[1].do = "make" /\ Tail(todo)[1].what = "If"
  <2>1. ahead = "kElse" => ~ IsOpen(built[Len(built)])
    BY <1>2 DEF Ordered, Looks
  <2>2. Tail(todo) # <<>> /\ Follows(Top, Tail(todo)[1])
    BY <1>1, <1>2, ChainGoes
  <2>3. IsIf(Tail(todo)[1])
    BY <1>2, <2>2 DEF Follows
  <2> QED BY <2>1, <2>2, <2>3 DEF IsIf
<1>3. IsOrLoop(Top) /\ ahead = "kOr" => Strength(built[Len(built)]) > 1
  BY DEF Ordered, Looks
<1> QED BY <1>2, <1>3 DEF IsElse, IsOrLoop

LEMMA StepHolds ==
  ASSUME Ending, AllSound(built), status = "parsing", Held, Ordered, Step
  PROVE  Ending' /\ AllSound(built') /\ (status' = "parsing" => Held' /\ Ordered')
<1>1. ASSUME Held', Ordered', status' = status
      PROVE  Ending' /\ AllSound(built') /\ (status' = "parsing" => Held' /\ Ordered')
  BY <1>1 DEF Ending, Held
<1>2. CASE Enter \/ Choose
  BY <1>1, <1>2, EnterHeld, ChooseHeld, EnterOrdered, ChooseOrdered DEF Enter, Choose
<1>3. CASE Nothing \/ Want \/ Identifier \/ TakeName
  BY <1>1, <1>3, NothingHeld, WantHeld, IdentifierHeld, TakeNameHeld, TokensOrdered
     DEF Nothing, Want, Identifier, TakeName, Throw
<1>4. CASE Optional
  <2>1. todo # <<>> /\ Top.do = "opt"
    BY <1>4 DEF Optional, Doing
  <2>2. Held' /\ Ordered'
    BY <1>4, <2>1, LooksAhead, OptionalHeld, OptionalOrdered
  <2> QED BY <1>1, <1>4, <2>2 DEF Optional
<1>5. CASE Possible \/ MakeNode
  BY <1>1, <1>5, PossibleHeld, MakeNodeHeld, PossibleOrdered, MakeNodeOrdered
     DEF Possible, MakeNode
<1>6. CASE Assigned \/ Target
  BY <1>1, <1>6, AssignedHeld, TargetHeld, AssignedOrdered DEF Assigned, Target, Throw
<1>7. CASE Operator
  <2>1. todo # <<>> /\ Top.do = "loop"
    BY <1>7 DEF Operator, Doing
  <2>2. Held' /\ Ordered'
    BY <1>7, <2>1, LooksAhead, OperatorHeld, OperatorOrdered
  <2> QED BY <1>1, <1>7, <2>2 DEF Operator
<1>8. CASE Unary \/ Calls \/ Primary
  BY <1>1, <1>8, UnaryHeld, CallsHeld, PrimaryHeld, ExpressionOrdered
     DEF Unary, Calls, Primary, Throw
<1>9. CASE BeginList \/ Parameter \/ ThrowParameter \/ NextElement
  BY <1>1, <1>9, BeginListHeld, ParameterHeld, NextElementHeld, Thrown, ListOrdered
     DEF BeginList, Parameter, ThrowParameter, NextElement, Throw
<1>10. CASE MakeList \/ BeginStmts \/ NextStmt \/ NextDeclaration
  BY <1>1, <1>10, MakeListHeld, BeginStmtsHeld, NextStmtHeld, NextDeclarationHeld, ListOrdered
     DEF MakeList, BeginStmts, NextStmt, NextDeclaration
<1>11. CASE Skip
  <2>1. built' = built
    BY <1>11 DEF Skip
  <2>2. CASE status' = "error" /\ todo' = <<>>
    BY <2>1, <2>2 DEF Ending
  <2>3. CASE UNCHANGED <<status, todo>>
    <3>1. todo # <<>> /\ Top.do = "skip"
      BY <1>11 DEF Skip, Doing
    <3>2. Plain(Top')
      BY <2>3, <3>1 DEF Top, Plain, IsOr, IsOrLoop, IsElse, IsOuter
    <3>3. Looks'
      BY <3>2, IfsAreOuter DEF Looks, Plain
    <3>4. Ordered'
      BY <2>3, <3>3 DEF Ordered
    <3>5. Held'
      BY <2>1, <2>3 DEF Held
    <3> QED BY <1>1, <2>3, <3>4, <3>5
  <2> QED BY <1>11, <2>2, <2>3 DEF Skip
<1>12. CASE Accept
  <2>1. todo = <<>> /\ todo' = <<>> /\ status' = "ok" /\ built' = built
    BY <1>12 DEF Accept
  <2>2. PICK x : Fits(built, x) /\ Leads(todo, x)
    BY DEF Held
  <2>3. PICK g : g[1] = x /\ g[Len(todo) + 1].h = 1
    BY <2>2 DEF Leads
  <2>4. Len(todo) + 1 = 1
    BY <2>1, EmptySeq
  <2>5. Len(built) = 1
    BY <2>2, <2>3, <2>4 DEF Fits
  <2> QED BY <2>1, <2>5 DEF Ending
<1>13. CASE Overrun
  <2>1. AllSound(<<>>)
    BY EmptySeq DEF AllSound
  <2> QED BY <1>13, <2>1 DEF Overrun, Ending
<1> QED BY <1>2, <1>3, <1>4, <1>5, <1>6, <1>7, <1>8, <1>9, <1>10, <1>11, <1>12, <1>13 DEF Step

LEMMA StepParses == Step => status = "parsing"
<1>1. Enter \/ Choose \/ Nothing \/ Want \/ Identifier \/ TakeName \/ Optional \/ Possible
        => status = "parsing"
  BY DEF Enter, Choose, Nothing, Want, Identifier, TakeName, Optional, Possible, Calling, Doing
<1>2. MakeNode \/ Assigned \/ Target \/ Operator \/ Unary \/ Calls \/ Primary
        => status = "parsing"
  BY DEF MakeNode, Assigned, Target, Operator, Unary, Calls, Primary, Calling, Looping, Doing
<1>3. BeginList \/ Parameter \/ ThrowParameter \/ NextElement \/ MakeList => status = "parsing"
  BY DEF BeginList, Parameter, ThrowParameter, NextElement, MakeList, Calling, Looping, Doing
<1>4. BeginStmts \/ NextStmt \/ NextDeclaration \/ Skip \/ Accept \/ Overrun
        => status = "parsing"
  BY DEF BeginStmts, NextStmt, NextDeclaration, Skip, Accept, Overrun, AboutToOverrun,
         Calling, Looping, Doing
<1> QED BY <1>1, <1>2, <1>3, <1>4 DEF Step

LEMMA BeginsHeld ==
  ASSUME Ending, NEW s, SetViews(s)
  PROVE  Ending' /\ AllSound(built') /\ Held' /\ Ordered'
<1> DEFINE it == IF s.policy = "kExpression" THEN Call("next_expression") ELSE Loop("parse", 0)
           x == [h |-> 0, at |-> <<>>]
           sort == Expr(0) \cup Only("list")
           y == Push(x, sort)
<1>1. /\ built = <<>> /\ built' = built /\ status' = "parsing" /\ todo' = <<it>>
  BY DEF Ending, SetViews
<1>2. Len(built) = 0
  BY <1>1, EmptySeq
<1>3. Ending'
  BY <1>1 DEF Ending
<1>4. x.h = 0 /\ x.h \in Nat
  OBVIOUS
<1> HIDE DEF x
<1>5. Turns(x, y, 0, sort) /\ y.h = 1 /\ Same(x, y, 0)
  BY <1>4, Pushed
<1> HIDE DEF y
<1>6. Runs(<<it>>, x, y)
  <2>1. Lifts(Call("next_expression"), x, y, 0)
    <3>1. "next_expression" \in Functions /\ Result("next_expression") \subseteq sort
      BY Called, Results
    <3>2. Turns(x, y, 0, Result("next_expression"))
      BY <1>5, <3>1, TurnsWeaker
    <3> QED BY <1>4, <3>1, <3>2, CallStep
  <2>2. Lifts(Loop("parse", 0), x, y, 0)
    <3>1. Only("list") \subseteq y.at[y.h]
      BY <1>5 DEF Turns
    <3>2. "parse" \in Lists
      BY DEF Lists
    <3>3. 0 <= x.h /\ 0 <= 0 /\ 0 <= 0 + 1 /\ y.h = 0 + 1
      BY <1>4, <1>5
    <3>4. /\ 0 <= 0 /\ 0 <= 0 + 1 /\ y.h = 0 + 1 /\ Same(x, y, 0)
          /\ Only("list") \subseteq y.at[y.h]
      BY <1>5, <3>1, <3>3
    <3>5. \A l \in Lists, n \in Nat :
            (/\ n <= 0 /\ 0 <= n + 1 /\ y.h = n + 1 /\ Same(x, y, n)
             /\ Only("list") \subseteq y.at[y.h])
              => Lifts(Loop(l, n), x, y, 0)
      BY <1>4, <3>3, LoopSteps
    <3> QED BY <3>2, <3>4, <3>5
  <2>3. Lifts(it, x, y, 0)
    BY <2>1, <2>2
  <2> HIDE DEF it
  <2> QED BY <1>4, <2>3, Runs1
<1>7. Plain(it)
  BY PlainItems
<1> HIDE DEF it
<1>8. Leads(<<it>>, x)
  BY <1>5, <1>6 DEF Runs, Leads
<1>9. Held' /\ AllSound(built')
  <2>1. IsSeq(built') /\ AllSound(built') /\ Fits(built', x)
    BY <1>1, <1>2, <1>4, EmptySeq DEF IsSeq, AllSound, Fits
  <2> QED BY <1>1, <1>8, <2>1 DEF Held
<1>10. Ordered'
  BY <1>1, <1>7, OnlyOne
<1> QED BY <1>3, <1>9, <1>10

LEMMA Begins ==
  ASSUME IInv, NEW s \in Sources, SetViews(s)
  PROVE  IInv'
<1>1. /\ read = <<>> /\ UNCHANGED <<read, at>> /\ source' = s /\ ahead' \in After(s, 0)
  BY DEF IInv, Ending, SetViews
<1>2. Len(read) = 0 /\ read \in Seq(Tokens) /\ Len(s.kinds) \in Nat
  BY <1>1, EmptySeq, SourceKinds, LenProperties DEF IInv, Cursor
<1>3. Cursor' /\ Named'
  <2>1. ahead' \in Tokens \cup {Past} /\ (ahead' # Past => 0 < Len(s.kinds))
    BY <1>1, AfterFits
  <2> QED BY <1>1, <1>2, <2>1 DEF IInv, Cursor, Named
<1> QED BY <1>3, BeginsHeld DEF IInv

LEMMA Invariant == Spec => []IInv
<1>1. Init => IInv
  <2> SUFFICES ASSUME Init PROVE IInv
    OBVIOUS
  <2>1. Len(read) = 0 /\ read \in Seq(Tokens) /\ Len(source.kinds) \in Nat
    BY EmptySeq, SourceKinds, LenProperties DEF Init
  <2>2. Cursor /\ Named
    BY <2>1 DEF Init, Cursor, Named
  <2>3. AllSound(built)
    BY EmptySeq DEF Init, AllSound
  <2> QED BY <2>2, <2>3 DEF Init, IInv, Ending
<1>2. IInv /\ [Next]_vars => IInv'
  <2> SUFFICES ASSUME IInv, [Next]_vars PROVE IInv'
    OBVIOUS
  <2>1. CASE \E s \in Sources : SetViews(s)
    BY <2>1, Begins
  <2>2. CASE Step /\ UNCHANGED source
    <3>1. Cursor' /\ Named'
      BY <2>2, StepMoves, MovesKeep DEF IInv
    <3>2. Ending' /\ AllSound(built') /\ (status' = "parsing" => Held' /\ Ordered')
      BY <2>2, StepParses, StepHolds DEF IInv
    <3> QED BY <3>1, <3>2 DEF IInv
  <2>3. CASE UNCHANGED vars
    <3>1. Held => Held'
      BY <2>3 DEF vars, Held
    <3>2. Ordered => Ordered'
      BY <2>3 DEF vars, Ordered, Looks, Top
    <3> QED BY <2>3, <3>1, <3>2 DEF vars, IInv, Cursor, Named, Ending, AllSound
  <2> QED BY <2>1, <2>2, <2>3 DEF Next, Ended
<1> QED BY <1>1, <1>2, PTL DEF Spec

\* Parser's type invariant: read stays within the source, an error names a token
\* that was read or the one under the cursor, no loop began above what is built
\* now, and when parse() succeeds the pieces it made have become one tree.
THEOREM ParserTypeCorrect == Spec => []TypeOK
<1>1. IInv => TypeOK
  <2> SUFFICES ASSUME IInv PROVE TypeOK
    OBVIOUS
  <2>1. ASSUME NEW i \in 1 .. Len(todo) PROVE todo[i].n \in 0 .. Len(built)
    <3>1. CASE status = "parsing"
      <4>1. PICK x : Fits(built, x) /\ Leads(todo, x)
        BY <3>1 DEF IInv, Held
      <4>2. PICK g : Through(todo, g) /\ g[1] = x
        BY <4>1 DEF Leads
      <4>3. ItemOK(todo[i]) /\ Len(todo) \in Nat /\ Len(built) \in Nat
        BY <3>1, <4>1, LenProperties DEF IInv, Held, Leads, IsSeq
      <4>4. todo[i].n \in Nat
        BY <4>3 DEF ItemOK
      <4>5. 1 \in 1 .. i
        BY <4>3
      <4>6. todo[i].n <= g[1].h
        BY <4>2, <4>5 DEF Through
      <4> QED BY <4>1, <4>2, <4>3, <4>4, <4>6 DEF Fits
    <3>2. CASE status # "parsing"
      <4>1. Len(todo) = 0
        BY <3>2, EmptySeq DEF IInv, Ending
      <4> QED BY <4>1
    <3> QED BY <3>1, <3>2
  <2> QED BY <2>1 DEF IInv, Cursor, Named, Ending, TypeOK, Tokens
<1> QED BY <1>1, Invariant, PTL

\* Every operator node that the functions of one precedence level make has
\* operands of its own level or tighter ones on one side and tighter ones only on
\* the other; what is called, negated or assigned to is what the grammar allows.
THEOREM OperatorsAreBound == Spec => []OperatorsBind
<1>1. IInv => OperatorsBind
  BY DEF IInv, AllSound, Sound, OperatorsBind
<1> QED BY <1>1, Invariant, PTL

\* if, while and for never have a declaration as their body, branch or condition,
\* except that a for may begin with a variable: next_statement makes none.
THEOREM DeclarationsAreInLists == Spec => []DeclarationsInLists
<1>1. IInv => DeclarationsInLists
  BY DEF IInv, AllSound, Sound, DeclarationsInLists
<1> QED BY <1>1, Invariant, PTL

\* if_stmt takes an else as soon as it sees one, so no if that lacks an else is the
\* then branch of an if that has one.
THEOREM ElseIsNearest == ASSUME OpenLaw PROVE Spec => []ElseBindsNearest
<1>1. IInv => ElseBindsNearest
  BY DEF IInv, AllSound, Sound, ElseBindsNearest, NearestIf, Nearest, IsOpen
<1> QED BY <1>1, Invariant, PTL
=============================================================================
