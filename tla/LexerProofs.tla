------------------------------ MODULE LexerProofs ------------------------------
(***************************************************************************)
(* Proofs about Lexer: where its cursor and tokens are, what the tokens are *)
(* by the lexical rules, and what line they are said to be on, for texts of *)
(* any length and any number of calls.                                      *)
(***************************************************************************)
EXTENDS LexicalRules, TLAPS, FiniteSetTheorems, WellFoundedInduction

-----------------------------------------------------------------------------
(* Lemmas about the operators.                                              *)

\* A set of naturals that is not empty has a least element.
LEMMA Least ==
  ASSUME NEW T \in SUBSET Nat, T # {}
  PROVE  \E x \in T : \A y \in T : x <= y
<1> DEFINE R == OpToRel(<, Nat)
           B == {ss \in Nat \X Nat : ss[1] < ss[2]}
<1>1. R = B
  BY Zenon DEF OpToRel
<1>2. IsWellFoundedOn(B, Nat)
  BY <1>1, NatLessThanWellFounded, Zenon
<1>3. \E x \in T : \A y \in T : ~ (<<y, x>> \in B)
  <2> HIDE DEF B
  <2> QED
    BY <1>2, WFMin, Zenon
<1>4. \A x, y \in Nat : <<y, x>> \in B <=> y < x
  OBVIOUS
<1> HIDE DEF B
<1>5. PICK x \in T : \A y \in T : ~ (<<y, x>> \in B)
  BY <1>3
<1>6. ASSUME NEW y \in T PROVE x <= y
  <2>1. ~ (<<y, x>> \in B)
    BY <1>5
  <2>2. x \in Nat /\ y \in Nat
    OBVIOUS
  <2> QED
    BY <1>4, <2>1, <2>2
<1> QED
  BY <1>6

\* RunEnd is defined wherever the lexer asks for it: a run ends at the first
\* character that is not one of it.
LEMMA RunEndIs ==
  ASSUME contents \in Seq(Chars), NEW p \in 1 .. Len(contents) + 1, NEW chars
  PROVE  /\ RunEnd(p, chars) \in p .. Len(contents) + 1
         /\ RunEnd(p, chars) <= Len(contents) => contents[RunEnd(p, chars)] \notin chars
         /\ \A r \in p .. RunEnd(p, chars) - 1 : contents[r] \in chars
<1> DEFINE Stops == {q \in p .. Len(contents) + 1 : q <= Len(contents) => contents[q] \notin chars}
<1>1. Len(contents) + 1 \in Stops /\ Stops \in SUBSET Nat
  OBVIOUS
<1>2. PICK q \in Stops : \A r \in Stops : q <= r
  BY <1>1, Least
<1>3. q \in p .. Len(contents) + 1 /\ (q <= Len(contents) => contents[q] \notin chars)
  OBVIOUS
<1>4. ASSUME NEW r \in p .. q - 1 PROVE contents[r] \in chars
  <2>1. r \notin Stops
    BY <1>2, <1>3
  <2> QED
    BY <1>3, <2>1
<1>5. \E e \in p .. Len(contents) + 1 :
        /\ e <= Len(contents) => contents[e] \notin chars
        /\ \A r \in p .. e - 1 : contents[r] \in chars
  BY <1>3, <1>4
<1> QED
  BY <1>5 DEF RunEnd

\* It never goes back, and passes a character of the run that it begins on.
LEMMA RunEndInside ==
  ASSUME contents \in Seq(Chars), NEW p \in 1 .. Len(contents) + 1, NEW chars
  PROVE  /\ RunEnd(p, chars) \in p .. Len(contents) + 1
         /\ p <= Len(contents) /\ contents[p] \in chars => RunEnd(p, chars) > p
  BY RunEndIs

\* At most as many of the characters from a to b - 1 are line breaks as there are.
LEMMA FewBreaks ==
  ASSUME NEW a \in Nat, NEW b \in Nat, a <= b, NEW c
  PROVE  Cardinality({p \in a .. b - 1 : contents[p] = c}) \in 0 .. b - a
<1> DEFINE Breaks == {p \in a .. b - 1 : contents[p] = c}
<1>1. IsFiniteSet(a .. b - 1) /\ Cardinality(a .. b - 1) = b - a
  <2>1. a \in Int /\ b - 1 \in Int
    OBVIOUS
  <2>2. /\ IsFiniteSet(a .. b - 1)
        /\ Cardinality(a .. b - 1) = IF a > b - 1 THEN 0 ELSE (b - 1) - a + 1
    BY <2>1, FS_Interval
  <2> QED
    BY <2>2
<1>2. Breaks \in SUBSET (a .. b - 1)
  OBVIOUS
<1> HIDE DEF Breaks
<1>3. IsFiniteSet(Breaks) /\ Cardinality(Breaks) <= b - a
  BY <1>1, <1>2, FS_Subset
<1>4. Cardinality(Breaks) \in Nat
  BY <1>3, FS_CardinalityType
<1>5. Cardinality(Breaks) \in 0 .. b - a
  BY <1>3, <1>4
<1> QED
  BY <1>5 DEF Breaks

-----------------------------------------------------------------------------
(* What a part of the text is, by the places of its characters.             *)

LEMMA TextFacts ==
  ASSUME contents \in Seq(Chars), NEW a \in 1 .. Len(contents) + 1,
         NEW b \in a .. Len(contents) + 1
  PROVE  /\ Text(a, b) \in Seq(Chars) /\ Len(Text(a, b)) = b - a
         /\ \A k \in 1 .. b - a : Text(a, b)[k] = contents[a + k - 1]
         /\ a < b => Text(a, b)[1] = contents[a] /\ Text(a, b)[b - a] = contents[b - 1]
<1>1. Text(a, b) \in Seq(Chars) /\ Len(Text(a, b)) = b - a
  BY DEF Text
<1>2. \A k \in 1 .. b - a : Text(a, b)[k] = contents[a + k - 1]
  BY DEF Text
<1>3. ASSUME a < b PROVE Text(a, b)[1] = contents[a] /\ Text(a, b)[b - a] = contents[b - 1]
  <2>1. 1 \in 1 .. b - a /\ b - a \in 1 .. b - a /\ a + 1 - 1 = a /\ a + (b - a) - 1 = b - 1
    BY <1>3
  <2> QED BY <1>2, <2>1
<1> QED BY <1>1, <1>2, <1>3

\* A part of a text holds some characters only, if its places do.
LEMMA InPart ==
  ASSUME contents \in Seq(Chars), NEW a \in 1 .. Len(contents) + 1,
         NEW b \in a .. Len(contents) + 1, NEW chars,
         NEW i \in 1 .. b - a + 1, NEW j \in i - 1 .. b - a
  PROVE  In(SubSeq(Text(a, b), i, j), chars) <=> \A p \in a + i - 1 .. a + j - 1 : contents[p] \in chars
<1> DEFINE s == Text(a, b)
<1>1. s \in Seq(Chars) /\ Len(s) = b - a /\ \A k \in 1 .. b - a : s[k] = contents[a + k - 1]
  BY TextFacts
<1> HIDE DEF s
<1>2. Len(SubSeq(s, i, j)) = j - i + 1 /\ \A k \in 1 .. j - i + 1 : SubSeq(s, i, j)[k] = s[i + k - 1]
  BY <1>1
<1>3. \A k \in 1 .. j - i + 1 : SubSeq(s, i, j)[k] = contents[a + i - 1 + k - 1]
  <2> SUFFICES ASSUME NEW k \in 1 .. j - i + 1
               PROVE  SubSeq(s, i, j)[k] = contents[a + i - 1 + k - 1]
    OBVIOUS
  <2>1. i + k - 1 \in 1 .. b - a /\ a + (i + k - 1) - 1 = a + i - 1 + k - 1
    OBVIOUS
  <2> QED BY <1>1, <1>2, <2>1
<1>4. ASSUME In(SubSeq(s, i, j), chars), NEW p \in a + i - 1 .. a + j - 1
      PROVE  contents[p] \in chars
  <2>1. p - (a + i - 1) + 1 \in 1 .. j - i + 1 /\ a + i - 1 + (p - (a + i - 1) + 1) - 1 = p
    OBVIOUS
  <2> QED BY <1>2, <1>3, <1>4, <2>1 DEF In
<1>5. ASSUME \A p \in a + i - 1 .. a + j - 1 : contents[p] \in chars
      PROVE  In(SubSeq(s, i, j), chars)
  <2> SUFFICES ASSUME NEW k \in 1 .. j - i + 1 PROVE SubSeq(s, i, j)[k] \in chars
    BY <1>2 DEF In
  <2>1. a + i - 1 + k - 1 \in a + i - 1 .. a + j - 1
    OBVIOUS
  <2> QED BY <1>3, <1>5, <2>1
<1> QED BY <1>4, <1>5 DEF s

LEMMA InText ==
  ASSUME contents \in Seq(Chars), NEW a \in 1 .. Len(contents) + 1,
         NEW b \in a .. Len(contents) + 1, NEW chars
  PROVE  In(Text(a, b), chars) <=> \A p \in a .. b - 1 : contents[p] \in chars
<1>1. SubSeq(Text(a, b), 1, b - a) = Text(a, b)
  BY TextFacts
<1>2. In(SubSeq(Text(a, b), 1, b - a), chars)
         <=> \A p \in a + 1 - 1 .. a + (b - a) - 1 : contents[p] \in chars
  <2>1. 1 \in 1 .. b - a + 1 /\ b - a \in 1 - 1 .. b - a
    OBVIOUS
  <2> QED BY <2>1, InPart
<1>3. a + 1 - 1 = a /\ a + (b - a) - 1 = b - 1
  OBVIOUS
<1> QED BY <1>1, <1>2, <1>3

NumberAt(a, b) ==
  \/ a < b /\ \A p \in a .. b - 1 : contents[p] \in Digits
  \/ \E d \in a + 1 .. b - 2 :
       /\ contents[d] = "."
       /\ \A p \in a .. d - 1 : contents[p] \in Digits
       /\ \A p \in d + 1 .. b - 1 : contents[p] \in Digits

LEMMA NumberText ==
  ASSUME contents \in Seq(Chars), NEW a \in 1 .. Len(contents) + 1,
         NEW b \in a .. Len(contents) + 1
  PROVE  IsNumber(Text(a, b)) <=> NumberAt(a, b)
<1> DEFINE s == Text(a, b)
<1>1. Len(s) = b - a /\ \A k \in 1 .. b - a : s[k] = contents[a + k - 1]
  BY TextFacts
<1>2. In(s, Digits) <=> \A p \in a .. b - 1 : contents[p] \in Digits
  BY InText
<1>3. ASSUME NEW d \in 2 .. b - a - 1
      PROVE  /\ s[d] = contents[a + d - 1]
             /\ In(SubSeq(s, 1, d - 1), Digits)
                  <=> \A p \in a .. (a + d - 1) - 1 : contents[p] \in Digits
             /\ In(SubSeq(s, d + 1, b - a), Digits)
                  <=> \A p \in (a + d - 1) + 1 .. b - 1 : contents[p] \in Digits
  <2>1. /\ 1 \in 1 .. b - a + 1 /\ d - 1 \in 1 - 1 .. b - a /\ d + 1 \in 1 .. b - a + 1
        /\ b - a \in d + 1 - 1 .. b - a
        /\ a + 1 - 1 = a /\ a + (d - 1) - 1 = (a + d - 1) - 1
        /\ a + (d + 1) - 1 = (a + d - 1) + 1 /\ a + (b - a) - 1 = b - 1
    OBVIOUS
  <2>2. In(SubSeq(s, 1, d - 1), Digits)
           <=> \A p \in a + 1 - 1 .. a + (d - 1) - 1 : contents[p] \in Digits
    BY <2>1, InPart
  <2>3. In(SubSeq(s, d + 1, b - a), Digits)
           <=> \A p \in a + (d + 1) - 1 .. a + (b - a) - 1 : contents[p] \in Digits
    BY <2>1, InPart
  <2>4. s[d] = contents[a + d - 1]
    BY <1>1
  <2> QED BY <2>1, <2>2, <2>3, <2>4
<1> HIDE DEF s
<1>4. ASSUME IsNumber(s) PROVE NumberAt(a, b)
  <2>1. CASE Len(s) > 0 /\ In(s, Digits)
    BY <1>1, <1>2, <2>1 DEF NumberAt
  <2>2. CASE \E d \in 2 .. Len(s) - 1 :
               /\ s[d] = "."
               /\ In(SubSeq(s, 1, d - 1), Digits) /\ In(SubSeq(s, d + 1, Len(s)), Digits)
    <3>1. PICK d \in 2 .. b - a - 1 :
            /\ s[d] = "."
            /\ In(SubSeq(s, 1, d - 1), Digits) /\ In(SubSeq(s, d + 1, b - a), Digits)
      BY <1>1, <2>2
    <3>2. a + d - 1 \in a + 1 .. b - 2
      OBVIOUS
    <3> QED BY <1>3, <3>1, <3>2 DEF NumberAt
  <2> QED BY <1>4, <2>1, <2>2 DEF IsNumber
<1>5. ASSUME NumberAt(a, b) PROVE IsNumber(s)
  <2>1. CASE a < b /\ \A p \in a .. b - 1 : contents[p] \in Digits
    BY <1>1, <1>2, <2>1 DEF IsNumber
  <2>2. CASE \E d \in a + 1 .. b - 2 :
               /\ contents[d] = "."
               /\ \A p \in a .. d - 1 : contents[p] \in Digits
               /\ \A p \in d + 1 .. b - 1 : contents[p] \in Digits
    <3>1. PICK d \in a + 1 .. b - 2 :
            /\ contents[d] = "."
            /\ \A p \in a .. d - 1 : contents[p] \in Digits
            /\ \A p \in d + 1 .. b - 1 : contents[p] \in Digits
      BY <2>2
    <3> DEFINE e == d - a + 1
    <3>2. e \in 2 .. b - a - 1 /\ a + e - 1 = d
      OBVIOUS
    <3> HIDE DEF e
    <3>3. /\ s[e] = "."
          /\ In(SubSeq(s, 1, e - 1), Digits) /\ In(SubSeq(s, e + 1, b - a), Digits)
      BY <1>3, <3>1, <3>2
    <3> QED BY <1>1, <3>2, <3>3 DEF IsNumber
  <2> QED BY <1>5, <2>1, <2>2 DEF NumberAt
<1> QED BY <1>4, <1>5 DEF s

StringAt(a, b) ==
  /\ a + 2 <= b /\ contents[a] = "quote" /\ contents[b - 1] = "quote"
  /\ \A p \in a + 1 .. b - 2 : contents[p] # "quote"

LEMMA StringText ==
  ASSUME contents \in Seq(Chars), NEW a \in 1 .. Len(contents) + 1,
         NEW b \in a .. Len(contents) + 1
  PROVE  IsString(Text(a, b)) <=> StringAt(a, b)
<1> DEFINE s == Text(a, b)
<1>1. CASE a + 2 <= b
  <2>1. Len(s) = b - a /\ s[1] = contents[a] /\ s[Len(s)] = contents[b - 1]
    <3>1. a < b
      BY <1>1
    <3>2. Len(s) = b - a /\ s[1] = contents[a] /\ s[b - a] = contents[b - 1]
      BY <3>1, TextFacts
    <3> QED BY <3>2
  <2>2. 2 \in 1 .. b - a + 1 /\ (b - a) - 1 \in 2 - 1 .. b - a
        /\ a + 2 - 1 = a + 1 /\ a + ((b - a) - 1) - 1 = b - 2
    BY <1>1
  <2>3. In(SubSeq(s, 2, (b - a) - 1), Chars \ {"quote"})
          <=> \A p \in a + 2 - 1 .. a + ((b - a) - 1) - 1 : contents[p] \in Chars \ {"quote"}
    BY <2>2, InPart
  <2>4. \A p \in a + 1 .. b - 2 : contents[p] \in Chars
    BY <1>1
  <2> HIDE DEF s
  <2>5. IsString(s) <=> StringAt(a, b)
    BY <1>1, <2>1, <2>2, <2>3, <2>4 DEF IsString, StringAt
  <2> QED BY <2>5 DEF s
<1>2. CASE ~ (a + 2 <= b)
  <2>1. Len(s) = b - a
    BY TextFacts
  <2> QED BY <1>2, <2>1 DEF IsString, StringAt
<1> QED BY <1>1, <1>2

WordChars == Letters \cup Digits \cup {"_", "backtick"}
WordBegins(a) == contents[a] \in Letters \cup {"_"}
WordAt(a, b) == a < b /\ WordBegins(a) /\ \A p \in a .. b - 1 : contents[p] \in WordChars

LEMMA WordText ==
  ASSUME contents \in Seq(Chars), NEW a \in 1 .. Len(contents) + 1,
         NEW b \in a .. Len(contents) + 1
  PROVE  IsWord(Text(a, b)) <=> WordAt(a, b)
<1> DEFINE s == Text(a, b)
<1>1. Len(s) = b - a /\ (a < b => s[1] = contents[a])
  BY TextFacts
<1>2. In(s, WordChars) <=> \A p \in a .. b - 1 : contents[p] \in WordChars
  BY InText
<1> HIDE DEF s
<1>3. Len(s) > 0 <=> a < b
  BY <1>1
<1>4. ASSUME IsWord(s) PROVE WordAt(a, b)
  <2>1. Len(s) > 0 /\ s[1] \in Letters \cup {"_"} /\ In(s, WordChars)
    BY <1>4 DEF IsWord, WordChars
  <2>2. a < b /\ s[1] = contents[a]
    BY <1>1, <1>3, <2>1
  <2>3. \A p \in a .. b - 1 : contents[p] \in WordChars
    BY <1>2, <2>1
  <2> QED BY <2>1, <2>2, <2>3 DEF WordAt, WordBegins
<1>5. ASSUME WordAt(a, b) PROVE IsWord(s)
  <2>1. Len(s) > 0 /\ s[1] = contents[a] /\ contents[a] \in Letters \cup {"_"}
    BY <1>1, <1>3, <1>5 DEF WordAt, WordBegins
  <2>2. In(s, WordChars)
    BY <1>2, <1>5 DEF WordAt, WordBegins
  <2> QED BY <2>1, <2>2 DEF IsWord, WordChars
<1> QED BY <1>4, <1>5 DEF s

SymbolAt(a, b) ==
  \/ b = a + 1 /\ contents[a] \in Single \cup Pairing \cup {"/"}
  \/ b = a + 2 /\ contents[a] \in Pairing /\ contents[a + 1] = "="

LEMMA SymbolText ==
  ASSUME contents \in Seq(Chars), NEW a \in 1 .. Len(contents) + 1,
         NEW b \in a .. Len(contents) + 1
  PROVE  IsSymbol(Text(a, b)) <=> SymbolAt(a, b)
<1> DEFINE s == Text(a, b)
<1>1. Len(s) = b - a /\ (b = a + 1 => s[1] = contents[a])
      /\ (b = a + 2 => s[1] = contents[a] /\ s[2] = contents[a + 1])
  <2>1. Len(s) = b - a /\ (a < b => s[1] = contents[a])
    BY TextFacts
  <2>2. ASSUME b = a + 2 PROVE s[2] = contents[a + 1]
    <3>1. \A k \in 1 .. b - a : s[k] = contents[a + k - 1]
      BY TextFacts
    <3>2. 2 \in 1 .. b - a /\ a + 2 - 1 = a + 1
      BY <2>2
    <3> HIDE DEF s
    <3> QED BY <3>1, <3>2
  <2> QED BY <2>1, <2>2
<1> HIDE DEF s
<1>2. (Len(s) = 1 <=> b = a + 1) /\ (Len(s) = 2 <=> b = a + 2)
  BY <1>1
<1>3. IsSymbol(s) <=> SymbolAt(a, b)
  BY <1>1, <1>2 DEF IsSymbol, SymbolAt
<1> QED BY <1>3 DEF s

\* A keyword begins with a letter.
LEMMA KeywordText ==
  ASSUME contents \in Seq(Chars), NEW a \in 1 .. Len(contents) + 1,
         NEW b \in a .. Len(contents) + 1, Text(a, b) \in Keywords
  PROVE  a < b /\ contents[a] \in Letters
<1> DEFINE s == Text(a, b)
<1>1. Len(s) = b - a /\ (a < b => s[1] = contents[a])
  BY TextFacts
<1>2. s = <<"o", "r">> \/ s = <<"f", "u", "n">>
  BY DEF Keywords
<1> HIDE DEF s
<1>3. ASSUME NEW u, u = <<"o", "r">> \/ u = <<"f", "u", "n">> PROVE Len(u) > 0 /\ u[1] \in Letters
  <2>1. CASE u = <<"o", "r">>
    BY <2>1 DEF Letters
  <2>2. CASE u = <<"f", "u", "n">>
    BY <2>2 DEF Letters
  <2> QED BY <1>3, <2>1, <2>2
<1>4. Len(s) > 0 /\ s[1] \in Letters
  BY <1>2, <1>3
<1> QED BY <1>1, <1>4

-----------------------------------------------------------------------------
(* Each token is what its type says, and as long as it can be.              *)

Longest(a, b) == \A q \in b + 1 .. Len(contents) + 1 : ~ IsToken(Text(a, q))

Proper(type, a, b) ==
  /\ type = "number" => IsNumber(Text(a, b))
  /\ type = "string" => IsString(Text(a, b))
  /\ type \in {"identifier", "keyword"} => IsWord(Text(a, b))
  /\ type = "keyword" <=> Text(a, b) \in Keywords
  /\ type \in {"single", "pairing", "slash"} => IsSymbol(Text(a, b))
  /\ type # "kEndOfFile" => Longest(a, b)

\* The first character tells which token may begin there.
LEMMA Beginnings ==
  ASSUME contents \in Seq(Chars), NEW a \in 1 .. Len(contents), NEW q \in a .. Len(contents) + 1
  PROVE  /\ IsNumber(Text(a, q)) => contents[a] \in Digits
         /\ IsString(Text(a, q)) => contents[a] = "quote"
         /\ IsWord(Text(a, q)) => contents[a] \in Letters \cup {"_"}
         /\ IsSymbol(Text(a, q)) => contents[a] \in Single \cup Pairing \cup {"/"}
         /\ Text(a, q) \in Keywords => contents[a] \in Letters
<1>1. q \in a .. Len(contents) + 1 /\ a \in 1 .. Len(contents) + 1
  OBVIOUS
<1>2. IsNumber(Text(a, q)) => NumberAt(a, q)
  BY <1>1, NumberText
<1>3. NumberAt(a, q) => contents[a] \in Digits
  <2>1. CASE a < q /\ \A p \in a .. q - 1 : contents[p] \in Digits
    BY <2>1
  <2>2. ASSUME NEW d \in a + 1 .. q - 2, \A p \in a .. d - 1 : contents[p] \in Digits
        PROVE  contents[a] \in Digits
    BY <2>2
  <2> QED BY <2>1, <2>2 DEF NumberAt
<1>4. IsString(Text(a, q)) => contents[a] = "quote"
  BY <1>1, StringText DEF StringAt
<1>5. IsWord(Text(a, q)) => contents[a] \in Letters \cup {"_"}
  BY <1>1, WordText DEF WordAt, WordBegins
<1>6. IsSymbol(Text(a, q)) => contents[a] \in Single \cup Pairing \cup {"/"}
  BY <1>1, SymbolText DEF SymbolAt
<1>7. Text(a, q) \in Keywords => contents[a] \in Letters
  BY <1>1, KeywordText
<1> QED BY <1>2, <1>3, <1>4, <1>5, <1>6, <1>7

\* one that begins with no letter, digit or quote
LEMMA SymbolProper ==
  ASSUME contents \in Seq(Chars), NEW a \in 1 .. Len(contents),
         NEW b \in a + 1 .. Len(contents) + 1, NEW type \in {"single", "pairing", "slash"},
         contents[a] \in Single \cup Pairing \cup {"/"}, SymbolAt(a, b),
         \A q \in b + 1 .. Len(contents) + 1 : ~ SymbolAt(a, q)
  PROVE  Proper(type, a, b)
<1>1. contents[a] \notin Letters \cup {"_"} /\ contents[a] \notin Digits /\ contents[a] # "quote"
  BY DEF Single, Pairing, Letters, Digits
<1>2. IsSymbol(Text(a, b))
  BY SymbolText
<1>3. Text(a, b) \notin Keywords
  <2>1. contents[a] \notin Letters
    BY <1>1
  <2>2. b \in a .. Len(contents) + 1
    OBVIOUS
  <2> QED BY <2>1, <2>2, Beginnings
<1>4. ASSUME NEW q \in b + 1 .. Len(contents) + 1 PROVE ~ IsToken(Text(a, q))
  <2>1. q \in a .. Len(contents) + 1 /\ ~ SymbolAt(a, q)
    OBVIOUS
  <2>2. ~ IsSymbol(Text(a, q))
    BY <2>1, SymbolText
  <2> QED BY <1>1, <2>1, <2>2, Beginnings DEF IsToken
<1> QED BY <1>2, <1>3, <1>4 DEF Proper, Longest

LEMMA SingleProper ==
  ASSUME contents \in Seq(Chars), NEW a \in 1 .. Len(contents), contents[a] \in Single
  PROVE  Proper("single", a, a + 1)
<1>1. contents[a] \notin Pairing
  BY DEF Single, Pairing
<1>2. SymbolAt(a, a + 1) /\ \A q \in a + 1 + 1 .. Len(contents) + 1 : ~ SymbolAt(a, q)
  BY <1>1 DEF SymbolAt
<1>3. a + 1 \in a + 1 .. Len(contents) + 1 /\ contents[a] \in Single \cup Pairing \cup {"/"}
  OBVIOUS
<1> QED BY <1>2, <1>3, SymbolProper

LEMMA SlashProper ==
  ASSUME contents \in Seq(Chars), NEW a \in 1 .. Len(contents), contents[a] = "/"
  PROVE  Proper("slash", a, a + 1)
<1>1. contents[a] \notin Pairing
  BY DEF Pairing
<1>2. SymbolAt(a, a + 1) /\ \A q \in a + 1 + 1 .. Len(contents) + 1 : ~ SymbolAt(a, q)
  BY <1>1 DEF SymbolAt
<1>3. a + 1 \in a + 1 .. Len(contents) + 1 /\ contents[a] \in Single \cup Pairing \cup {"/"}
  OBVIOUS
<1> QED BY <1>2, <1>3, SymbolProper

LEMMA PairingProper ==
  ASSUME contents \in Seq(Chars), NEW a \in 1 .. Len(contents), contents[a] \in Pairing
  PROVE  Proper("pairing", a, IF IsAt(a + 1, "=") THEN a + 2 ELSE a + 1)
<1> DEFINE b == IF IsAt(a + 1, "=") THEN a + 2 ELSE a + 1
<1>1. b \in a + 1 .. Len(contents) + 1
  BY DEF IsAt
<1>2. SymbolAt(a, b) /\ \A q \in b + 1 .. Len(contents) + 1 : ~ SymbolAt(a, q)
  BY DEF SymbolAt, IsAt
<1>3. contents[a] \in Single \cup Pairing \cup {"/"}
  OBVIOUS
<1> HIDE DEF b
<1>4. Proper("pairing", a, b)
  BY <1>1, <1>2, <1>3, SymbolProper
<1> QED BY <1>4 DEF b

LEMMA UnexpectedProper ==
  ASSUME contents \in Seq(Chars), NEW a \in 1 .. Len(contents), contents[a] \in Unexpected
  PROVE  Proper("kLexError", a, a + 1)
<1>1. /\ contents[a] \notin Letters \cup {"_"} /\ contents[a] \notin Digits /\ contents[a] # "quote"
      /\ contents[a] \notin Single \cup Pairing \cup {"/"}
  BY DEF Single, Pairing, Letters, Digits, Unexpected
<1>2. a + 1 \in a .. Len(contents) + 1
  OBVIOUS
<1>3. Text(a, a + 1) \notin Keywords
  BY <1>1, <1>2, Beginnings
<1>4. ASSUME NEW q \in a + 1 + 1 .. Len(contents) + 1 PROVE ~ IsToken(Text(a, q))
  <2>1. q \in a .. Len(contents) + 1
    OBVIOUS
  <2>2. ~ IsNumber(Text(a, q)) /\ ~ IsString(Text(a, q))
    BY <1>1, <2>1, Beginnings
  <2>3. ~ IsWord(Text(a, q)) /\ ~ IsSymbol(Text(a, q))
    BY <1>1, <2>1, Beginnings
  <2> QED BY <2>2, <2>3 DEF IsToken
<1> QED BY <1>3, <1>4 DEF Proper, Longest

LEMMA StringProper ==
  ASSUME contents \in Seq(Chars), NEW a \in 1 .. Len(contents), contents[a] = "quote",
         NEW q \in a + 1 .. Len(contents) + 1, q = RunEnd(a + 1, Chars \ {"quote"})
  PROVE  /\ q > Len(contents) => Proper("kLexError", a, q)
         /\ q <= Len(contents) => Proper("string", a, q + 1)
<1>1. /\ contents[a] \notin Letters \cup {"_"} /\ contents[a] \notin Digits
      /\ contents[a] \notin Single \cup Pairing \cup {"/"}
  BY DEF Single, Pairing, Letters, Digits
<1>2. /\ q <= Len(contents) => contents[q] = "quote"
      /\ \A r \in a + 1 .. q - 1 : contents[r] # "quote"
  <2>1. a + 1 \in 1 .. Len(contents) + 1
    OBVIOUS
  <2>2. /\ q <= Len(contents) => contents[q] \notin Chars \ {"quote"}
        /\ \A r \in a + 1 .. q - 1 : contents[r] \in Chars \ {"quote"}
    BY <2>1, RunEndIs
  <2>3. q <= Len(contents) => contents[q] \in Chars
    OBVIOUS
  <2> QED BY <2>2, <2>3
<1>3. \A r \in a .. Len(contents) + 1 : Text(a, r) \notin Keywords
  BY <1>1, Beginnings
<1>4. ASSUME q > Len(contents) PROVE Proper("kLexError", a, q)
  <2>1. \A r \in q + 1 .. Len(contents) + 1 : FALSE
    BY <1>4
  <2>2. Longest(a, q)
    BY <2>1 DEF Longest
  <2> QED BY <1>3, <2>2 DEF Proper
<1>5. ASSUME q <= Len(contents) PROVE Proper("string", a, q + 1)
  <2>1. q + 1 \in a .. Len(contents) + 1 /\ a \in 1 .. Len(contents) + 1
    BY <1>5
  <2>2. StringAt(a, q + 1)
    <3>1. a + 2 <= q + 1 /\ (q + 1) - 1 = q /\ (q + 1) - 2 = q - 1
      OBVIOUS
    <3>2. contents[(q + 1) - 1] = "quote" /\ \A p \in a + 1 .. (q + 1) - 2 : contents[p] # "quote"
      BY <1>2, <1>5, <3>1
    <3> QED BY <3>1, <3>2 DEF StringAt
  <2>3. IsString(Text(a, q + 1)) /\ Text(a, q + 1) \notin Keywords
    BY <1>3, <2>1, <2>2, StringText
  <2>4. ASSUME NEW r \in q + 1 + 1 .. Len(contents) + 1 PROVE ~ IsToken(Text(a, r))
    <3>1. r \in a .. Len(contents) + 1 /\ q \in a + 1 .. r - 2
      BY <1>5
    <3>2. ~ StringAt(a, r)
      BY <1>2, <1>5, <3>1 DEF StringAt
    <3>3. ~ IsString(Text(a, r))
      BY <2>1, <3>1, <3>2, StringText
    <3> QED BY <1>1, <3>1, <3>3, Beginnings DEF IsToken
  <2> QED BY <2>3, <2>4 DEF Proper, Longest
<1> QED BY <1>4, <1>5

LEMMA NumberProper ==
  ASSUME contents \in Seq(Chars), NEW a \in 1 .. Len(contents), contents[a] \in Digits,
         NEW d, d = RunEnd(a, Digits),
         NEW b, b = IF IsAt(d, ".") /\ \E c \in Digits : IsAt(d + 1, c)
                    THEN RunEnd(d + 1, Digits) ELSE d
  PROVE  /\ b \in a + 1 .. Len(contents) + 1
         /\ Proper("number", a, b)
         /\ \A p \in a .. b - 1 : contents[p] \in Digits \cup {"."}
<1>1. /\ contents[a] \notin Letters \cup {"_"} /\ contents[a] # "quote"
      /\ contents[a] \notin Single \cup Pairing \cup {"/"}
  BY DEF Single, Pairing, Letters, Digits
<1>2. "." \notin Digits
  BY DEF Digits
<1>3. /\ d \in a + 1 .. Len(contents) + 1
      /\ d <= Len(contents) => contents[d] \notin Digits
      /\ \A p \in a .. d - 1 : contents[p] \in Digits
  <2>1. a \in 1 .. Len(contents) + 1
    OBVIOUS
  <2> QED BY <2>1, RunEndIs, RunEndInside
<1>4. ASSUME NEW r \in a + 1 .. Len(contents) + 1, r > d, NumberAt(a, r)
      PROVE  contents[d] = "." /\ d + 1 \in d + 1 .. r - 1 /\ \A p \in d + 1 .. r - 1 : contents[p] \in Digits
  <2>1. d \in a .. r - 1 /\ d <= Len(contents)
    BY <1>3, <1>4
  <2>2. ~ (\A p \in a .. r - 1 : contents[p] \in Digits)
    BY <1>3, <2>1
  <2>3. PICK e \in a + 1 .. r - 2 :
          /\ contents[e] = "."
          /\ \A p \in a .. e - 1 : contents[p] \in Digits
          /\ \A p \in e + 1 .. r - 1 : contents[p] \in Digits
    BY <1>4, <2>2 DEF NumberAt
  <2>4. e = d
    <3>1. CASE e < d
      BY <1>2, <1>3, <2>3, <3>1
    <3>2. CASE e > d
      BY <1>3, <2>1, <2>3, <3>2
    <3> QED BY <1>3, <2>3, <3>1, <3>2
  <2> QED BY <2>3, <2>4
<1>5. CASE IsAt(d, ".") /\ \E c \in Digits : IsAt(d + 1, c)
  <2>1. d + 1 <= Len(contents) /\ contents[d] = "." /\ contents[d + 1] \in Digits
    BY <1>3, <1>5 DEF IsAt
  <2>2. b = RunEnd(d + 1, Digits) /\ d + 1 \in 1 .. Len(contents) + 1
    BY <1>3, <1>5, <2>1
  <2>3. /\ b \in d + 2 .. Len(contents) + 1
        /\ b <= Len(contents) => contents[b] \notin Digits
        /\ \A p \in d + 1 .. b - 1 : contents[p] \in Digits
    <3>1. b > d + 1
      BY <2>1, <2>2, RunEndInside
    <3>2. /\ b \in d + 1 .. Len(contents) + 1
          /\ b <= Len(contents) => contents[b] \notin Digits
          /\ \A p \in d + 1 .. b - 1 : contents[p] \in Digits
      BY <2>2, RunEndIs
    <3> QED BY <1>3, <3>1, <3>2
  <2>4. b \in a + 1 .. Len(contents) + 1 /\ d \in a + 1 .. b - 2
    BY <1>3, <2>3
  <2>5. \A p \in a .. b - 1 : contents[p] \in Digits \cup {"."}
    <3> SUFFICES ASSUME NEW p \in a .. b - 1 PROVE contents[p] \in Digits \cup {"."}
      OBVIOUS
    <3>1. p \in a .. d - 1 \/ p = d \/ p \in d + 1 .. b - 1
      BY <2>4
    <3> QED BY <1>3, <2>1, <2>3, <3>1
  <2>6. NumberAt(a, b)
    BY <1>3, <2>1, <2>3, <2>4 DEF NumberAt
  <2>7. ASSUME NEW r \in b + 1 .. Len(contents) + 1 PROVE ~ NumberAt(a, r)
    <3>1. r \in a + 1 .. Len(contents) + 1 /\ r > d /\ b \in d + 1 .. r - 1 /\ b <= Len(contents)
      BY <2>3, <2>4
    <3> QED BY <1>4, <2>3, <3>1
  <2> HIDE <1>5
  <2> QED
    <3>1. b \in a .. Len(contents) + 1 /\ a \in 1 .. Len(contents) + 1
      BY <2>4
    <3>2. IsNumber(Text(a, b)) /\ Text(a, b) \notin Keywords
      <4>1. contents[a] \notin Letters
        BY <1>1
      <4> QED BY <2>6, <3>1, <4>1, NumberText, Beginnings
    <3>3. ASSUME NEW r \in b + 1 .. Len(contents) + 1 PROVE ~ IsToken(Text(a, r))
      <4>1. r \in a .. Len(contents) + 1
        BY <2>4
      <4>2. ~ IsNumber(Text(a, r))
        BY <2>7, <3>1, <4>1, NumberText
      <4> QED BY <1>1, <4>1, <4>2, Beginnings DEF IsToken
    <3> QED BY <2>4, <2>5, <3>2, <3>3 DEF Proper, Longest
<1>6. CASE ~ (IsAt(d, ".") /\ \E c \in Digits : IsAt(d + 1, c))
  <2>1. b = d
    BY <1>6
  <2>2. NumberAt(a, b)
    BY <1>3, <2>1 DEF NumberAt
  <2>3. ASSUME NEW r \in b + 1 .. Len(contents) + 1 PROVE ~ NumberAt(a, r)
    <3> SUFFICES ASSUME NumberAt(a, r) PROVE FALSE
      OBVIOUS
    <3>1. r \in a + 1 .. Len(contents) + 1 /\ r > d
      BY <1>3, <2>1
    <3>2. contents[d] = "." /\ d + 1 \in d + 1 .. r - 1 /\ contents[d + 1] \in Digits
      BY <1>4, <3>1
    <3>3. d + 1 <= Len(contents) /\ d <= Len(contents)
      BY <1>3, <3>1, <3>2
    <3> QED BY <1>6, <3>2, <3>3 DEF IsAt
  <2>4. b \in a .. Len(contents) + 1 /\ a \in 1 .. Len(contents) + 1
    BY <1>3, <2>1
  <2>5. IsNumber(Text(a, b)) /\ Text(a, b) \notin Keywords
    <3>1. contents[a] \notin Letters
      BY <1>1
    <3> QED BY <2>2, <2>4, <3>1, NumberText, Beginnings
  <2>6. ASSUME NEW r \in b + 1 .. Len(contents) + 1 PROVE ~ IsToken(Text(a, r))
    <3>1. r \in a .. Len(contents) + 1
      BY <2>4
    <3>2. ~ IsNumber(Text(a, r))
      BY <2>3, <2>4, <3>1, NumberText
    <3> QED BY <1>1, <3>1, <3>2, Beginnings DEF IsToken
  <2> QED BY <1>3, <2>1, <2>5, <2>6 DEF Proper, Longest
<1> QED BY <1>5, <1>6

LEMMA WordProper ==
  ASSUME contents \in Seq(Chars), NEW a \in 1 .. Len(contents), NEW b, NEW type,
         WordBegins(a), b = RunEnd(a, WordChars),
         type = IF Text(a, b) \in Keywords THEN "keyword" ELSE "identifier"
  PROVE  /\ b \in a + 1 .. Len(contents) + 1
         /\ Proper(type, a, b)
         /\ \A p \in a .. b - 1 : contents[p] \in WordChars
<1>1. /\ contents[a] \notin Digits /\ contents[a] # "quote"
      /\ contents[a] \notin Single \cup Pairing \cup {"/"} /\ contents[a] \in WordChars
  BY DEF Single, Pairing, Letters, Digits, WordChars, WordBegins
<1>2. /\ b \in a + 1 .. Len(contents) + 1
      /\ b <= Len(contents) => contents[b] \notin WordChars
      /\ \A p \in a .. b - 1 : contents[p] \in WordChars
  <2>1. a \in 1 .. Len(contents) + 1
    OBVIOUS
  <2> QED BY <1>1, <2>1, RunEndIs, RunEndInside
<1>3. b \in a .. Len(contents) + 1 /\ a \in 1 .. Len(contents) + 1
  BY <1>2
<1>4. WordAt(a, b)
  BY <1>2 DEF WordAt
<1>5. IsWord(Text(a, b))
  BY <1>3, <1>4, WordText
<1>6. ASSUME NEW r \in b + 1 .. Len(contents) + 1 PROVE ~ IsToken(Text(a, r))
  <2>1. r \in a .. Len(contents) + 1 /\ b \in a .. r - 1 /\ b <= Len(contents)
    BY <1>2
  <2>2. ~ WordAt(a, r)
    BY <1>2, <2>1 DEF WordAt
  <2>3. ~ IsWord(Text(a, r))
    BY <1>3, <2>1, <2>2, WordText
  <2> QED BY <1>1, <2>1, <2>3, Beginnings DEF IsToken
<1>7. Longest(a, b)
  BY <1>6 DEF Longest
<1>8. Proper(type, a, b)
  BY <1>5, <1>7 DEF Proper
<1> QED BY <1>2, <1>8

-----------------------------------------------------------------------------
(* What next_token passes, in terms of the text.                            *)

Breaks(a, b) == Cardinality({p \in a .. b - 1 : contents[p] = "nl"})

LEMMA NoBreaks ==
  ASSUME NEW a, NEW b, \A p \in a .. b - 1 : contents[p] # "nl"
  PROVE  Breaks(a, b) = 0
<1>1. {p \in a .. b - 1 : contents[p] = "nl"} = {}
  OBVIOUS
<1> QED BY <1>1, FS_EmptySet DEF Breaks

TokenPassed ==
  \E type \in Types \ {"kEndOfFile"} :
    /\ AddToken(type, cursor')
    /\ Proper(type, cursor, cursor')
    /\ current_line' = current_line + Breaks(cursor, cursor')

SpacePassed ==
  /\ tokens' = tokens /\ cursor' = cursor + 1
  /\ contents[cursor] \in Whitespace \cup Newlines
  /\ current_line' = IF contents[cursor] \in Newlines THEN current_line + 1 ELSE current_line

CommentPassed ==
  /\ tokens' = tokens /\ current_line' = current_line
  /\ IsAt(cursor, "/") /\ IsAt(cursor + 1, "/")
  /\ \A p \in cursor .. cursor' - 1 : contents[p] # "nl"
  /\ cursor' <= Len(contents) => contents[cursor'] = "nl"

NumberDropped ==
  /\ tokens' = tokens /\ current_line' = current_line
  /\ IsNumber(Text(cursor, cursor')) /\ MayBeHuge(cursor, cursor')
  /\ \A p \in cursor .. cursor' - 1 : contents[p] \in Digits \cup {"."}

\* a token of one character, or two that are no line breaks
LEMMA OneLineToken ==
  ASSUME NEW type \in Types \ {"kEndOfFile"}, AddToken(type, cursor'), current_line \in Nat,
         Proper(type, cursor, cursor'), current_line' = current_line,
         \A p \in cursor .. cursor' - 1 : contents[p] # "nl"
  PROVE  TokenPassed
<1>1. Breaks(cursor, cursor') = 0
  BY NoBreaks
<1> QED BY <1>1 DEF TokenPassed

LEMMA NextTokenPasses ==
  ASSUME TypeOK, NextToken
  PROVE  TokenPassed \/ SpacePassed \/ CommentPassed \/ NumberDropped
<1>1. /\ contents \in Seq(Chars) /\ cursor \in 1 .. Len(contents)
      /\ current_line \in Nat /\ Len(contents) \in Nat
  <2>1. ~ AtEnd
    BY DEF NextToken, LexSingle, LexPairing, LexSlash, SkipSpace, LexString, LexNumber, LexWord,
      LexUnexpected, Begins
  <2> QED
    BY <2>1 DEF TypeOK, AtEnd
<1>2. CASE LexSingle
  <2>1. /\ contents[cursor] \in Single /\ cursor' = cursor + 1 /\ AddToken("single", cursor + 1)
        /\ current_line' = current_line
    BY <1>2 DEF LexSingle, Begins, MoveTo
  <2>2. Proper("single", cursor, cursor + 1)
    BY <1>1, <2>1, SingleProper
  <2>3. contents[cursor] # "nl"
    BY <2>1 DEF Single
  <2>4. \A p \in cursor .. cursor' - 1 : contents[p] # "nl"
    BY <1>1, <2>1, <2>3
  <2>5. "single" \in Types \ {"kEndOfFile"}
    BY DEF Types
  <2> QED BY <1>1, <2>1, <2>2, <2>4, <2>5, OneLineToken
<1>3. CASE LexPairing
  <2> DEFINE q == IF IsAt(cursor + 1, "=") THEN cursor + 2 ELSE cursor + 1
  <2>1. /\ contents[cursor] \in Pairing /\ cursor' = q /\ AddToken("pairing", q)
        /\ current_line' = current_line
    BY <1>3 DEF LexPairing, Begins, MoveTo
  <2>2. Proper("pairing", cursor, q)
    BY <1>1, <2>1, PairingProper
  <2>3. contents[cursor] # "nl"
    BY <2>1 DEF Pairing
  <2>4. \A p \in cursor .. q - 1 : contents[p] # "nl"
    BY <1>1, <2>3 DEF IsAt
  <2>5. "pairing" \in Types \ {"kEndOfFile"}
    BY DEF Types
  <2> HIDE DEF q
  <2> QED BY <1>1, <2>1, <2>2, <2>4, <2>5, OneLineToken
<1>4. CASE LexSlash
  <2>1. contents[cursor] = "/" /\ current_line' = current_line
    BY <1>4 DEF LexSlash, Begins
  <2>2. CASE IsAt(cursor + 1, "/")
    <3> DEFINE q == RunEnd(cursor + 2, Chars \ {"nl"})
    <3>1. cursor' = q /\ tokens' = tokens
      BY <1>4, <2>2 DEF LexSlash, MoveTo
    <3>2. cursor + 2 \in 1 .. Len(contents) + 1
      BY <1>1, <2>2 DEF IsAt
    <3>3. /\ q \in cursor + 2 .. Len(contents) + 1
          /\ q <= Len(contents) => contents[q] \notin Chars \ {"nl"}
          /\ \A r \in cursor + 2 .. q - 1 : contents[r] \in Chars \ {"nl"}
      BY <1>1, <3>2, RunEndIs
    <3> HIDE DEF q
    <3>4. q <= Len(contents) => contents[q] = "nl"
      <4>1. q <= Len(contents) => contents[q] \in Chars
        BY <1>1, <3>3
      <4> QED BY <3>3, <4>1
    <3>5. \A p \in cursor .. q - 1 : contents[p] # "nl"
      <4> SUFFICES ASSUME NEW p \in cursor .. q - 1 PROVE contents[p] # "nl"
        OBVIOUS
      <4>1. p = cursor \/ p = cursor + 1 \/ p \in cursor + 2 .. q - 1
        BY <1>1, <3>3
      <4> QED BY <2>1, <2>2, <3>3, <4>1 DEF IsAt
    <3>6. IsAt(cursor, "/")
      BY <1>1, <2>1 DEF IsAt
    <3> QED BY <2>1, <2>2, <3>1, <3>4, <3>5, <3>6 DEF CommentPassed
  <2>3. CASE ~ IsAt(cursor + 1, "/")
    <3>1. cursor' = cursor + 1 /\ AddToken("slash", cursor + 1)
      BY <1>4, <2>3 DEF LexSlash, MoveTo
    <3>2. Proper("slash", cursor, cursor + 1)
      BY <1>1, <2>1, SlashProper
    <3>3. \A p \in cursor .. cursor' - 1 : contents[p] # "nl"
      BY <1>1, <2>1, <3>1
    <3>4. "slash" \in Types \ {"kEndOfFile"}
      BY DEF Types
    <3> QED BY <1>1, <2>1, <3>1, <3>2, <3>3, <3>4, OneLineToken
  <2> QED BY <2>2, <2>3
<1>5. CASE SkipSpace
  BY <1>5 DEF SkipSpace, Begins, MoveTo, SpacePassed
<1>6. CASE LexString
  <2> DEFINE q == RunEnd(cursor + 1, Chars \ {"quote"})
             n == Breaks(cursor, q)
  <2>1. contents[cursor] = "quote"
    BY <1>6 DEF LexString, Begins
  <2>2. q \in cursor + 1 .. Len(contents) + 1 /\ (q <= Len(contents) => contents[q] = "quote")
    <3>1. cursor + 1 \in 1 .. Len(contents) + 1
      BY <1>1
    <3>2. /\ q \in cursor + 1 .. Len(contents) + 1
          /\ q <= Len(contents) => contents[q] \notin Chars \ {"quote"}
      BY <1>1, <3>1, RunEndIs
    <3>3. q <= Len(contents) => contents[q] \in Chars
      BY <1>1, <3>2
    <3> QED BY <3>2, <3>3
  <2>3. current_line' = current_line + n
    BY <1>6, Zenon DEF LexString, Breaks
  <2>4. IF q > Len(contents)
        THEN cursor' = q /\ AddToken("kLexError", q)
        ELSE cursor' = q + 1 /\ AddToken("string", q + 1)
    BY <1>6, Zenon DEF LexString, MoveTo, AddLexError
  <2>5. /\ q > Len(contents) => Proper("kLexError", cursor, q)
        /\ q <= Len(contents) => Proper("string", cursor, q + 1)
    BY <1>1, <2>1, <2>2, StringProper
  <2>6. {"kLexError", "string"} \subseteq Types \ {"kEndOfFile"}
    BY DEF Types
  <2> HIDE DEF q
  <2>7. CASE q > Len(contents)
    BY <2>3, <2>4, <2>5, <2>6, <2>7 DEF TokenPassed
  <2>8. CASE q <= Len(contents)
    <3>1. cursor' = q + 1 /\ AddToken("string", q + 1) /\ Proper("string", cursor, q + 1)
      BY <1>1, <2>2, <2>4, <2>5, <2>8
    <3>2. {p \in cursor .. (q + 1) - 1 : contents[p] = "nl"} = {p \in cursor .. q - 1 : contents[p] = "nl"}
      <4>1. contents[q] # "nl"
        BY <2>2, <2>8
      <4>2. \A p \in cursor .. (q + 1) - 1 : p = q \/ p \in cursor .. q - 1
        BY <1>1, <2>2
      <4>3. \A p \in cursor .. q - 1 : p \in cursor .. (q + 1) - 1
        BY <1>1, <2>2
      <4> QED BY <4>1, <4>2, <4>3
    <3>3. n = Breaks(cursor, q + 1)
      BY <3>2, Zenon DEF Breaks
    <3> HIDE DEF n
    <3> QED BY <2>3, <2>6, <3>1, <3>3 DEF TokenPassed
  <2> QED BY <1>1, <2>2, <2>7, <2>8
<1>7. CASE LexNumber
  <2> DEFINE d == RunEnd(cursor, Digits)
             q == IF IsAt(d, ".") /\ \E c \in Digits : IsAt(d + 1, c)
                  THEN RunEnd(d + 1, Digits) ELSE d
  <2>1. contents[cursor] \in Digits /\ current_line' = current_line
    BY <1>7 DEF LexNumber, Begins
  <2>2. cursor' = q /\ (AddToken("number", q) \/ (MayBeHuge(cursor, q) /\ tokens' = tokens))
    BY <1>7 DEF LexNumber, MoveTo
  <2>3. /\ q \in cursor + 1 .. Len(contents) + 1 /\ Proper("number", cursor, q)
        /\ \A p \in cursor .. q - 1 : contents[p] \in Digits \cup {"."}
    BY <1>1, <2>1, NumberProper
  <2> HIDE DEF q, d
  <2>4. \A p \in cursor .. q - 1 : contents[p] # "nl"
    BY <2>3 DEF Digits
  <2>5. "number" \in Types \ {"kEndOfFile"}
    BY DEF Types
  <2>6. CASE AddToken("number", q)
    BY <1>1, <2>1, <2>2, <2>3, <2>4, <2>5, <2>6, OneLineToken
  <2>7. CASE MayBeHuge(cursor, q) /\ tokens' = tokens
    <3>1. IsNumber(Text(cursor, q))
      BY <2>3 DEF Proper
    <3> QED BY <2>1, <2>2, <2>3, <2>7, <3>1 DEF NumberDropped
  <2> QED BY <2>2, <2>6, <2>7
<1>8. CASE LexWord
  <2> DEFINE q == RunEnd(cursor, WordChars)
             type == IF Text(cursor, q) \in Keywords THEN "keyword" ELSE "identifier"
  <2>1. WordBegins(cursor) /\ current_line' = current_line
    BY <1>8 DEF LexWord, Begins, WordBegins
  <2>2. cursor' = q /\ AddToken(type, q)
    BY <1>8 DEF LexWord, MoveTo, WordChars, Text
  <2>3. /\ q \in cursor + 1 .. Len(contents) + 1 /\ Proper(type, cursor, q)
        /\ \A p \in cursor .. q - 1 : contents[p] \in WordChars
    BY <1>1, <2>1, WordProper
  <2>4. type \in Types \ {"kEndOfFile"}
    BY DEF Types
  <2> HIDE DEF q, type
  <2>5. \A p \in cursor .. q - 1 : contents[p] # "nl"
    BY <2>3 DEF WordChars, Letters, Digits
  <2> QED BY <1>1, <2>1, <2>2, <2>3, <2>4, <2>5, OneLineToken
<1>9. CASE LexUnexpected
  <2>1. /\ contents[cursor] \in Unexpected /\ cursor' = cursor + 1
        /\ AddToken("kLexError", cursor + 1) /\ current_line' = current_line
    BY <1>9 DEF LexUnexpected, Begins, MoveTo, AddLexError
  <2>2. Proper("kLexError", cursor, cursor + 1)
    BY <1>1, <2>1, UnexpectedProper
  <2>3. contents[cursor] # "nl"
    BY <2>1 DEF Unexpected
  <2>4. \A p \in cursor .. cursor' - 1 : contents[p] # "nl"
    BY <1>1, <2>1, <2>3
  <2>5. "kLexError" \in Types \ {"kEndOfFile"}
    BY DEF Types
  <2> QED BY <1>1, <2>1, <2>2, <2>4, <2>5, OneLineToken
<1> QED
  BY <1>2, <1>3, <1>4, <1>5, <1>6, <1>7, <1>8, <1>9 DEF NextToken

-----------------------------------------------------------------------------
(* What next_token does, whichever character it begins with.                *)

TokenSet == [type : Types, from : 1 .. Len(contents) + 1,
             to : 1 .. Len(contents) + 1, line : 1 .. Len(contents) + 1]

\* The cursor goes forward, and no more lines are counted than characters taken.
Taken(q) ==
  /\ q \in cursor + 1 .. Len(contents) + 1
  /\ cursor' = q
  /\ current_line' \in current_line .. current_line + q - cursor
  /\ UNCHANGED <<contents, lexing, calls>>

NothingAdded == UNCHANGED <<tokens, error_count>>

Added(type, q) ==
  /\ AddToken(type, q)
  /\ error_count' = IF type = "kLexError" THEN error_count + 1 ELSE error_count

Lexed ==
  \E q \in Nat :
    /\ Taken(q)
    /\ NothingAdded \/ \E type \in Types \ {"kEndOfFile"} : Added(type, q)

LEMMA NextTokenTakes == TypeOK /\ NextToken => Lexed
<1> SUFFICES ASSUME TypeOK, NextToken PROVE Lexed
  OBVIOUS
<1> USE DEF MoveTo, AddLexError, NothingAdded, Begins, AtEnd, Types
<1>1. /\ contents \in Seq(Chars) /\ cursor \in 1 .. Len(contents)
      /\ current_line \in Nat /\ Len(contents) \in Nat
  <2>1. ~ AtEnd
    BY DEF NextToken, LexSingle, LexPairing, LexSlash, SkipSpace, LexString, LexNumber, LexWord,
      LexUnexpected
  <2> QED
    BY <2>1 DEF TypeOK
<1>2. CASE LexSingle
  <2>1. Taken(cursor + 1) /\ Added("single", cursor + 1)
    BY <1>1, <1>2 DEF LexSingle, Taken, Added
  <2> QED
    BY <1>1, <2>1 DEF Lexed
<1>3. CASE LexPairing
  <2>1. PICK q \in cursor + 1 .. Len(contents) + 1 :
          cursor' = q /\ AddToken("pairing", q)
    BY <1>1, <1>3 DEF LexPairing, IsAt
  <2>2. Taken(q) /\ Added("pairing", q) /\ q \in Nat
    BY <1>1, <1>3, <2>1 DEF LexPairing, Taken, Added
  <2> QED
    BY <2>2 DEF Lexed
<1>4. CASE LexSlash
  <2>1. CASE IsAt(cursor + 1, "/")
    <3> DEFINE q == RunEnd(cursor + 2, Chars \ {"nl"})
    <3>1. cursor + 2 \in 1 .. Len(contents) + 1
      BY <1>1, <2>1 DEF IsAt
    <3>2. q \in cursor + 2 .. Len(contents) + 1
      BY <1>1, <3>1, RunEndInside
    <3>3. cursor' = q /\ UNCHANGED <<tokens, current_line, contents, error_count, lexing, calls>>
      BY <1>4, <2>1 DEF LexSlash
    <3> HIDE DEF q
    <3>4. Taken(q) /\ NothingAdded /\ q \in Nat
      BY <1>1, <3>2, <3>3 DEF Taken
    <3> QED
      BY <3>4 DEF Lexed
  <2>2. CASE ~ IsAt(cursor + 1, "/")
    <3>1. Taken(cursor + 1) /\ Added("slash", cursor + 1)
      BY <1>1, <1>4, <2>2 DEF LexSlash, Taken, Added
    <3> QED
      BY <1>1, <3>1 DEF Lexed
  <2> QED
    BY <2>1, <2>2
<1>5. CASE SkipSpace
  <2>1. Taken(cursor + 1) /\ NothingAdded
    BY <1>1, <1>5 DEF SkipSpace, Taken
  <2> QED
    BY <1>1, <2>1 DEF Lexed
<1>6. CASE LexString
  <2> DEFINE q == RunEnd(cursor + 1, Chars \ {"quote"})
             n == Cardinality({p \in cursor .. q - 1 : contents[p] = "nl"})
  <2>1. q \in cursor + 1 .. Len(contents) + 1
    BY <1>1, RunEndInside
  <2>2. /\ current_line' = current_line + n
        /\ IF q > Len(contents)
           THEN cursor' = q /\ AddToken("kLexError", q) /\ error_count' = error_count + 1
           ELSE cursor' = q + 1 /\ AddToken("string", q + 1) /\ UNCHANGED error_count
        /\ UNCHANGED <<contents, lexing, calls>>
    <3>1. current_line' = current_line + n
      BY <1>6, Zenon DEF LexString
    <3>2. UNCHANGED <<contents, lexing, calls>>
      BY <1>6, Zenon DEF LexString
    <3>3. IF q > Len(contents)
           THEN cursor' = q /\ AddToken("kLexError", q) /\ error_count' = error_count + 1
           ELSE cursor' = q + 1 /\ AddToken("string", q + 1) /\ UNCHANGED error_count
      BY <1>6, Zenon DEF LexString
    <3> QED
      BY <3>1, <3>2, <3>3
  <2> HIDE DEF q
  <2>3. n \in 0 .. q - cursor
    <3>1. cursor \in Nat /\ q \in Nat /\ cursor <= q
      BY <1>1, <2>1
    <3> QED
      BY <3>1, FewBreaks, Zenon
  <2> HIDE DEF n
  <2>4. CASE q > Len(contents)
    <3>1. Taken(q) /\ Added("kLexError", q) /\ q \in Nat
      BY <1>1, <2>1, <2>2, <2>3, <2>4 DEF Taken, Added
    <3> QED
      BY <3>1 DEF Lexed
  <2>5. CASE q <= Len(contents)
    <3>1. Taken(q + 1) /\ Added("string", q + 1) /\ q + 1 \in Nat
      BY <1>1, <2>1, <2>2, <2>3, <2>5 DEF Taken, Added
    <3> QED
      BY <3>1 DEF Lexed
  <2> QED
    BY <1>1, <2>1, <2>4, <2>5
<1>7. CASE LexNumber
  <2> DEFINE d == RunEnd(cursor, Digits)
             q == IF IsAt(d, ".") /\ \E c \in Digits : IsAt(d + 1, c)
                  THEN RunEnd(d + 1, Digits) ELSE d
  <2>1. d \in cursor + 1 .. Len(contents) + 1
    BY <1>1, <1>7, RunEndInside DEF LexNumber
  <2>2. q \in cursor + 1 .. Len(contents) + 1
    <3> HIDE DEF d
    <3>1. ASSUME IsAt(d, ".") PROVE RunEnd(d + 1, Digits) \in d + 1 .. Len(contents) + 1
      BY <1>1, <2>1, <3>1, RunEndInside DEF IsAt
    <3> QED
      BY <1>1, <2>1, <3>1
  <2>3. /\ cursor' = q /\ UNCHANGED <<current_line, contents, error_count, lexing, calls>>
        /\ AddToken("number", q) \/ UNCHANGED tokens
    BY <1>7 DEF LexNumber
  <2> HIDE DEF d, q
  <2>4. Taken(q) /\ (NothingAdded \/ Added("number", q)) /\ q \in Nat
    BY <1>1, <2>2, <2>3 DEF Taken, Added
  <2> QED
    BY <2>4 DEF Lexed
<1>8. CASE LexWord
  <2> DEFINE chars == Letters \cup Digits \cup {"_", "backtick"}
             q == RunEnd(cursor, chars)
             type == IF SubSeq(contents, cursor, q - 1) \in Keywords THEN "keyword" ELSE "identifier"
  <2>1. contents[cursor] \in chars
    BY <1>8 DEF LexWord
  <2>2. q \in cursor + 1 .. Len(contents) + 1
    <3> HIDE DEF chars
    <3> QED
      BY <1>1, <2>1, RunEndInside
  <2>3. /\ cursor' = q /\ AddToken(type, q) /\ type \in {"keyword", "identifier"}
        /\ UNCHANGED <<current_line, contents, error_count, lexing, calls>>
    BY <1>8 DEF LexWord
  <2> HIDE DEF q, type
  <2>4. Taken(q) /\ Added(type, q) /\ q \in Nat
    BY <1>1, <2>2, <2>3 DEF Taken, Added
  <2> QED
    BY <2>3, <2>4 DEF Lexed
<1>9. CASE LexUnexpected
  <2>1. Taken(cursor + 1) /\ Added("kLexError", cursor + 1)
    BY <1>1, <1>9 DEF LexUnexpected, Taken, Added
  <2> QED
    BY <1>1, <2>1 DEF Lexed
<1> QED
  BY <1>2, <1>3, <1>4, <1>5, <1>6, <1>7, <1>8, <1>9 DEF NextToken

-----------------------------------------------------------------------------
(* The invariant.                                                           *)

\* What the bounds of TypeOK rest on: a line and an error take a character each.
CountsInReach == current_line <= cursor /\ error_count < cursor

IInv == TypeOK /\ CountsInReach /\ TokensInOrder /\ ErrorsCounted

ErrorsAt(ts) == {i \in 1 .. Len(ts) : ts[i].type = "kLexError"}

\* A token more is an error more if it is one.
LEMMA OneMore ==
  ASSUME NEW S, NEW ts \in Seq(S), NEW t
  PROVE  Cardinality(ErrorsAt(Append(ts, t))) =
           IF t.type = "kLexError" THEN Cardinality(ErrorsAt(ts)) + 1
           ELSE Cardinality(ErrorsAt(ts))
<1>1. IsFiniteSet(ErrorsAt(ts))
  <2>1. IsFiniteSet(1 .. Len(ts))
    BY FS_Interval
  <2>2. ErrorsAt(ts) \in SUBSET (1 .. Len(ts))
    BY DEF ErrorsAt
  <2> QED
    BY <2>1, <2>2, FS_Subset
<1>2. ErrorsAt(Append(ts, t)) =
        IF t.type = "kLexError" THEN ErrorsAt(ts) \cup {Len(ts) + 1} ELSE ErrorsAt(ts)
  BY DEF ErrorsAt
<1>3. Len(ts) + 1 \notin ErrorsAt(ts)
  BY DEF ErrorsAt
<1> QED
  BY <1>1, <1>2, <1>3, FS_AddElement

LEMMA InitInv == Init => IInv
<1> SUFFICES ASSUME Init PROVE IInv
  OBVIOUS
<1>1. TypeOK
  <2>1. contents = <<>> /\ tokens = <<>> /\ Len(contents) = 0
    BY DEF Init
  <2>2. contents \in Seq(Chars) /\ tokens \in Seq(TokenSet)
    BY <2>1
  <2>3. /\ cursor \in 1 .. Len(contents) + 1 /\ current_line \in 1 .. Len(contents) + 1
        /\ error_count \in 0 .. Len(contents) /\ lexing \in BOOLEAN /\ calls \in 0 .. MaxCalls
    <3>1. lexing \in BOOLEAN
      BY Zenon DEF Init
    <3>2. cursor = 1 /\ current_line = 1 /\ error_count = 0 /\ calls = 0
      BY DEF Init
    <3>3. /\ cursor \in 1 .. Len(contents) + 1 /\ current_line \in 1 .. Len(contents) + 1
          /\ error_count \in 0 .. Len(contents) /\ calls \in 0 .. MaxCalls
      BY <2>1, <3>2, LexerBounds
    <3> QED
      BY <3>1, <3>3
  <2> QED
    BY <2>2, <2>3 DEF TypeOK, TokenSet
<1>2. CountsInReach /\ TokensInOrder
  BY DEF Init, CountsInReach, TokensInOrder
<1>3. ErrorsCounted
  <2>1. {i \in 1 .. Len(tokens) : tokens[i].type = "kLexError"} = {}
    BY DEF Init
  <2> QED
    BY <2>1, FS_EmptySet DEF Init, ErrorsCounted
<1> QED
  BY <1>1, <1>2, <1>3 DEF IInv

\* A token that ends where the cursor is, put after the others.
LEMMA AppendKeeps ==
  ASSUME IInv, NEW type \in Types, NEW q \in cursor .. Len(contents) + 1, NEW line \in 1 .. Len(contents) + 1,
         cursor < q \/ type = "kEndOfFile",
         cursor' = q, contents' = contents,
         tokens' = Append(tokens, Token(type, cursor, q, line)),
         error_count' = IF type = "kLexError" THEN error_count + 1 ELSE error_count
  PROVE  tokens' \in Seq(TokenSet) /\ TokensInOrder' /\ ErrorsCounted'
<1> DEFINE t == Token(type, cursor, q, line)
<1>1. tokens \in Seq(TokenSet) /\ cursor \in 1 .. Len(contents) + 1 /\ error_count \in Nat
  BY DEF IInv, TypeOK, TokenSet
<1>2. /\ t \in TokenSet /\ t.from = cursor /\ t.to = q /\ t.type = type
  BY <1>1 DEF Token, TokenSet
<1> HIDE DEF t
<1>3. tokens' \in Seq(TokenSet)
  BY <1>1, <1>2 DEF t
<1>4. /\ Len(tokens') = Len(tokens) + 1
      /\ \A i \in 1 .. Len(tokens) : tokens'[i] = tokens[i]
      /\ tokens'[Len(tokens) + 1] = t
  BY <1>1 DEF t
<1>5. TokensInOrder'
  <2> SUFFICES ASSUME NEW j \in 1 .. Len(tokens')
               PROVE  /\ tokens'[j].to <= cursor'
                      /\ tokens'[j].from < tokens'[j].to \/ tokens'[j].type = "kEndOfFile"
                      /\ \A i \in 1 .. j - 1 : tokens'[i].to <= tokens'[j].from
    BY DEF TokensInOrder
  <2>1. \A i \in 1 .. Len(tokens) : tokens[i].to <= cursor /\ tokens[i].to \in Nat
    <3> SUFFICES ASSUME NEW i \in 1 .. Len(tokens)
                 PROVE  tokens[i].to <= cursor /\ tokens[i].to \in Nat
      OBVIOUS
    <3>1. tokens[i] \in TokenSet
      BY <1>1
    <3>2. tokens[i].to \in 1 .. Len(contents) + 1
      BY <3>1 DEF TokenSet
    <3> QED
      BY <3>2 DEF IInv, TokensInOrder
  <2>2. CASE j = Len(tokens) + 1
    BY <1>1, <1>2, <1>4, <2>1, <2>2
  <2>3. CASE j \in 1 .. Len(tokens)
    <3>1. /\ tokens[j].to <= q
          /\ tokens[j].from < tokens[j].to \/ tokens[j].type = "kEndOfFile"
          /\ \A i \in 1 .. j - 1 : tokens[i].to <= tokens[j].from
      BY <1>1, <2>1, <2>3 DEF IInv, TokensInOrder
    <3> QED
      BY <1>1, <1>4, <2>3, <3>1
  <2> QED
    BY <1>1, <1>4, <2>2, <2>3
<1>6. ErrorsCounted'
  <2>1. error_count = Cardinality(ErrorsAt(tokens))
    BY DEF IInv, ErrorsCounted, ErrorsAt
  <2>2. error_count' = Cardinality(ErrorsAt(tokens'))
    BY <1>1, <1>2, <2>1, OneMore DEF t
  <2> QED
    BY <2>2 DEF ErrorsCounted, ErrorsAt
<1> QED
  BY <1>3, <1>5, <1>6

LEMMA NextInv == IInv /\ [Next]_vars => IInv'
<1> SUFFICES ASSUME IInv, [Next]_vars PROVE IInv'
  OBVIOUS
<1>1. /\ contents \in Seq(Chars) /\ cursor \in 1 .. Len(contents) + 1
      /\ current_line \in 1 .. Len(contents) + 1 /\ error_count \in 0 .. Len(contents)
      /\ tokens \in Seq(TokenSet) /\ Len(contents) \in Nat
      /\ lexing \in BOOLEAN /\ calls \in 0 .. MaxCalls
      /\ current_line <= cursor /\ error_count < cursor
  BY DEF IInv, TypeOK, TokenSet, CountsInReach
<1>2. TypeOK /\ TokensInOrder /\ ErrorsCounted
  BY DEF IInv
<1>3. CASE \E stream \in BOOLEAN : Load(stream)
  <2>1. PICK stream \in BOOLEAN : Load(stream)
    BY <1>3
  <2>2. Len(contents) = 0 /\ cursor = 1 /\ current_line = 1 /\ error_count = 0
    BY <1>1, <2>1 DEF Load
  <2>3. contents' \in Seq(Chars) /\ Len(contents') \in Nat
    BY <2>1, SourcesAssumption DEF Load
  <2>4. cursor' = cursor /\ current_line' = current_line /\ error_count' = error_count
        /\ lexing' = lexing /\ calls' \in 0 .. MaxCalls
    BY <1>1, <2>1, LexerBounds DEF Load
  <2>5. tokens' \in Seq(TokenSet') /\ TokensInOrder' /\ ErrorsCounted'
    <3>1. CASE tokens' = tokens
      <4>1. TokenSet \in SUBSET TokenSet'
        BY <2>2, <2>3 DEF TokenSet
      <4>2. tokens \in Seq(TokenSet')
        BY <1>1, <4>1
      <4> QED
        BY <1>2, <2>4, <3>1, <4>2 DEF TokensInOrder, ErrorsCounted
    <3>2. CASE tokens' = <<>>
      <4>1. tokens' \in Seq(TokenSet') /\ TokensInOrder'
        BY <3>2 DEF TokensInOrder
      <4>2. {i \in 1 .. Len(tokens') : tokens'[i].type = "kLexError"} = {}
        BY <3>2
      <4>3. ErrorsCounted'
        BY <2>2, <2>4, <4>2, FS_EmptySet DEF ErrorsCounted
      <4> QED
        BY <4>1, <4>3
    <3> QED
      BY <2>1, <3>1, <3>2 DEF Load
  <2>6. TypeOK' /\ CountsInReach'
    BY <1>1, <2>2, <2>3, <2>4, <2>5 DEF TypeOK, TokenSet, CountsInReach
  <2> QED
    BY <2>5, <2>6 DEF IInv
<1>4. CASE NextToken
  <2>1. PICK q \in Nat :
          /\ Taken(q)
          /\ NothingAdded \/ \E type \in Types \ {"kEndOfFile"} : Added(type, q)
    BY <1>2, <1>4, NextTokenTakes DEF Lexed
  <2>2. /\ q \in cursor + 1 .. Len(contents) + 1 /\ cursor' = q /\ contents' = contents
        /\ current_line' \in current_line .. current_line + q - cursor
        /\ lexing' = lexing /\ calls' = calls
    BY <2>1 DEF Taken
  <2>3. TokenSet' = TokenSet
    BY <2>2 DEF TokenSet
  <2>4. current_line' \in Nat /\ 1 <= current_line' /\ current_line' <= q
    BY <1>1, <2>2
  <2>5. CASE NothingAdded
    <3>1. tokens' = tokens /\ error_count' = error_count
      BY <2>5 DEF NothingAdded
    <3>2. TypeOK' /\ CountsInReach'
      BY <1>1, <2>2, <2>3, <2>4, <3>1 DEF TypeOK, TokenSet, CountsInReach
    <3>3. TokensInOrder'
      <4> SUFFICES ASSUME NEW j \in 1 .. Len(tokens)
                   PROVE  tokens[j].to <= q
        BY <1>2, <2>2, <3>1 DEF TokensInOrder
      <4>1. tokens[j] \in TokenSet
        BY <1>1
      <4>2. tokens[j].to \in 1 .. Len(contents) + 1 /\ tokens[j].to <= cursor
        BY <1>2, <4>1 DEF TokenSet, TokensInOrder
      <4> QED
        BY <1>1, <2>2, <4>2
    <3>4. ErrorsCounted'
      BY <1>2, <3>1 DEF ErrorsCounted
    <3> QED
      BY <3>2, <3>3, <3>4 DEF IInv
  <2>6. ASSUME NEW type \in Types \ {"kEndOfFile"}, Added(type, q) PROVE IInv'
    <3>1. /\ tokens' = Append(tokens, Token(type, cursor, q, current_line'))
          /\ error_count' = IF type = "kLexError" THEN error_count + 1 ELSE error_count
      BY <2>6 DEF Added, AddToken
    <3> DEFINE line == current_line'
    <3>2. line \in 1 .. Len(contents) + 1 /\ q \in cursor .. Len(contents) + 1 /\ cursor < q
      BY <1>1, <2>2, <2>4
    <3>3. tokens' = Append(tokens, Token(type, cursor, q, line))
      BY <3>1
    <3> HIDE DEF line
    <3>4. tokens' \in Seq(TokenSet) /\ TokensInOrder' /\ ErrorsCounted'
      BY <2>2, <3>1, <3>2, <3>3, AppendKeeps
    <3>5. error_count' \in 0 .. Len(contents) /\ error_count' < q
      BY <1>1, <2>2, <3>1
    <3>6. TypeOK' /\ CountsInReach'
      BY <1>1, <2>2, <2>3, <2>4, <3>4, <3>5 DEF TypeOK, TokenSet, CountsInReach
    <3> QED
      BY <3>4, <3>6 DEF IInv
  <2> QED
    BY <2>1, <2>5, <2>6
<1>5. CASE EndLex
  <2>1. /\ tokens' = Append(tokens, Token("kEndOfFile", cursor, cursor, current_line))
        /\ lexing' = FALSE /\ UNCHANGED <<contents, cursor, current_line, error_count, calls>>
    BY <1>5 DEF EndLex
  <2>2. tokens' \in Seq(TokenSet) /\ TokensInOrder' /\ ErrorsCounted'
    <3>1. "kEndOfFile" \in Types /\ cursor \in cursor .. Len(contents) + 1
      BY <1>1 DEF Types
    <3> QED
      BY <1>1, <2>1, <3>1, AppendKeeps
  <2>3. TokenSet' = TokenSet
    BY <2>1 DEF TokenSet
  <2>4. TypeOK' /\ CountsInReach'
    BY <1>1, <2>1, <2>2, <2>3 DEF TypeOK, TokenSet, CountsInReach
  <2> QED
    BY <2>2, <2>4 DEF IInv
<1>6. CASE LoadAgain \/ Lex \/ UNCHANGED vars
  <2>1. /\ UNCHANGED <<contents, cursor, current_line, tokens, error_count>>
        /\ lexing' \in BOOLEAN /\ calls' \in 0 .. MaxCalls
    <3>1. lexing' \in BOOLEAN
      BY <1>1, <1>6, Zenon DEF LoadAgain, Lex, vars
    <3>2. UNCHANGED <<contents, cursor, current_line, tokens, error_count>>
      BY <1>6 DEF LoadAgain, Lex, vars
    <3>3. calls' = calls \/ (calls' = calls + 1 /\ calls < MaxCalls)
      BY <1>6 DEF LoadAgain, Lex, vars
    <3>4. calls' \in 0 .. MaxCalls
      BY <1>1, <3>3, LexerBounds
    <3> QED
      BY <3>1, <3>2, <3>4
  <2>2. TypeOK' /\ CountsInReach'
    BY <1>1, <2>1 DEF TypeOK, TokenSet, CountsInReach
  <2>3. TokensInOrder' /\ ErrorsCounted'
    BY <1>2, <2>1 DEF TokensInOrder, ErrorsCounted
  <2> QED
    BY <2>2, <2>3 DEF IInv
<1> QED
  BY <1>3, <1>4, <1>5, <1>6 DEF Next

LEMMA Invariance == Spec => []IInv
BY InitInv, NextInv, PTL DEF Spec

-----------------------------------------------------------------------------
(* The invariant about the text.                                            *)

ProperTokens ==
  \A i \in 1 .. Len(tokens) :
    /\ Proper(tokens[i].type, tokens[i].from, tokens[i].to)
    /\ tokens[i].type = "kEndOfFile" => tokens[i].from = tokens[i].to

\* A comment that the lexer has begun it has passed, up to the end of its line.
CommentsPassed ==
  \A s \in 1 .. cursor - 1 :
    IsAt(s, "/") /\ IsAt(s + 1, "/") /\ ~ InToken(s) =>
      cursor > Len(contents) \/ \E r \in s .. cursor : contents[r] = "nl"

IsBreak(p) ==
  \/ contents[p] = "nl"
  \/ contents[p] \in Newlines /\ ~ InToken(p) /\ ~ InComment(p)

BreaksTo(q) == Cardinality({p \in 1 .. q - 1 : IsBreak(p)})

LineCounted == current_line = 1 + BreaksTo(cursor)

TextInv ==
  IInv /\ ProperTokens /\ NothingLost /\ CommentsPassed /\ LineCounted /\ LinesCounted

LEMMA LinesOfTokens ==
  LinesCounted <=> \A i \in 1 .. Len(tokens) : tokens[i].line = 1 + BreaksTo(tokens[i].to)
  BY DEF LinesCounted, BreaksTo, IsBreak

LEMMA TokensBehind ==
  ASSUME IInv
  PROVE  /\ tokens \in Seq(TokenSet) /\ Len(tokens) \in Nat
         /\ cursor \in 1 .. Len(contents) + 1 /\ Len(contents) \in Nat /\ contents \in Seq(Chars)
         /\ \A i \in 1 .. Len(tokens) :
              /\ tokens[i].from \in Nat /\ tokens[i].from >= 1
              /\ tokens[i].to \in Nat /\ tokens[i].to >= 1 /\ tokens[i].to <= cursor
         /\ \A p : p \in Nat /\ p >= cursor => ~ InToken(p)
<1>1. /\ tokens \in Seq(TokenSet) /\ cursor \in 1 .. Len(contents) + 1 /\ Len(contents) \in Nat
      /\ contents \in Seq(Chars) /\ Len(tokens) \in Nat
  BY DEF IInv, TypeOK, TokenSet
<1>2. ASSUME NEW i \in 1 .. Len(tokens)
      PROVE  /\ tokens[i].from \in Nat /\ tokens[i].from >= 1
             /\ tokens[i].to \in Nat /\ tokens[i].to >= 1 /\ tokens[i].to <= cursor
  <2>1. tokens[i] \in TokenSet
    BY <1>1
  <2>2. tokens[i].from \in 1 .. Len(contents) + 1 /\ tokens[i].to \in 1 .. Len(contents) + 1
    BY <2>1 DEF TokenSet
  <2>3. tokens[i].to <= cursor
    BY DEF IInv, TokensInOrder
  <2> QED BY <2>2, <2>3
<1>3. ASSUME NEW p, p \in Nat, p >= cursor, InToken(p) PROVE FALSE
  <2>1. PICK i \in 1 .. Len(tokens) : p \in tokens[i].from .. tokens[i].to - 1
    BY <1>3 DEF InToken
  <2> QED BY <1>1, <1>2, <1>3, <2>1
<1> QED BY <1>1, <1>2, <1>3

\* A step that adds at most a token, at the cursor.
Extends ==
  /\ contents' = contents
  /\ \/ tokens' = tokens
     \/ \E t : tokens' = Append(tokens, t) /\ t.from = cursor

\* What is behind the cursor stays what it is.
LEMMA BehindKept ==
  ASSUME IInv, Extends, NEW p \in 1 .. cursor - 1
  PROVE  /\ InToken(p)' <=> InToken(p)
         /\ InComment(p)' <=> InComment(p)
         /\ InHugeNumber(p)' <=> InHugeNumber(p)
         /\ IsBreak(p)' <=> IsBreak(p)
<1>1. tokens \in Seq(TokenSet) /\ Len(tokens) \in Nat /\ cursor \in Nat
  BY TokensBehind
<1>2. contents' = contents
  BY DEF Extends
<1>3. ASSUME NEW s \in 1 .. cursor - 1 PROVE InToken(s)' <=> InToken(s)
  <2>1. CASE tokens' = tokens
    BY <2>1 DEF InToken
  <2>2. ASSUME NEW t, tokens' = Append(tokens, t), t.from = cursor
        PROVE  InToken(s)' <=> InToken(s)
    <3>1. /\ Len(tokens') = Len(tokens) + 1
          /\ \A i \in 1 .. Len(tokens) : tokens'[i] = tokens[i]
          /\ tokens'[Len(tokens) + 1] = t
      BY <1>1, <2>2
    <3>2. ASSUME InToken(s) PROVE InToken(s)'
      <4>1. PICK i \in 1 .. Len(tokens) : s \in tokens[i].from .. tokens[i].to - 1
        BY <3>2 DEF InToken
      <4>2. i \in 1 .. Len(tokens') /\ tokens'[i] = tokens[i]
        BY <1>1, <3>1
      <4> QED BY <4>1, <4>2 DEF InToken
    <3>3. ASSUME InToken(s)' PROVE InToken(s)
      <4>1. PICK i \in 1 .. Len(tokens') : s \in tokens'[i].from .. tokens'[i].to - 1
        BY <3>3 DEF InToken
      <4>2. CASE i = Len(tokens) + 1
        <5>1. s \in cursor .. tokens'[i].to - 1
          BY <2>2, <3>1, <4>1, <4>2
        <5> QED BY <1>1, <5>1
      <4>3. CASE i \in 1 .. Len(tokens)
        BY <3>1, <4>1, <4>3 DEF InToken
      <4> QED BY <1>1, <3>1, <4>2, <4>3
    <3> QED BY <3>2, <3>3
  <2> QED BY <2>1, <2>2 DEF Extends
<1>4. \A s \in 1 .. p : s \in 1 .. cursor - 1
  BY <1>1
<1>5. InComment(p)' <=> InComment(p)
  <2>1. \A s \in 1 .. p : (IsAt(s, "/")' <=> IsAt(s, "/")) /\ (IsAt(s + 1, "/")' <=> IsAt(s + 1, "/"))
    BY <1>2 DEF IsAt
  <2> QED BY <1>2, <1>3, <1>4, <2>1 DEF InComment
<1>6. InHugeNumber(p)' <=> InHugeNumber(p)
  BY <1>2 DEF InHugeNumber, MayBeHuge, RunEnd, Text
<1>7. IsBreak(p)' <=> IsBreak(p)
  BY <1>2, <1>3, <1>5 DEF IsBreak
<1> QED BY <1>3, <1>5, <1>6, <1>7

LEMMA BreaksKept ==
  ASSUME IInv, Extends, NEW q \in 1 .. cursor
  PROVE  BreaksTo(q)' = BreaksTo(q)
<1>1. cursor \in Nat
  BY TokensBehind
<1>2. \A p \in 1 .. q - 1 : p \in 1 .. cursor - 1
  BY <1>1
<1>3. \A p \in 1 .. q - 1 : IsBreak(p)' <=> IsBreak(p)
  BY <1>2, BehindKept
<1>4. {p \in 1 .. q - 1 : IsBreak(p)'} = {p \in 1 .. q - 1 : IsBreak(p)}
  BY <1>3
<1> QED BY <1>4, Zenon DEF BreaksTo

\* The breaks up to the new cursor are those up to the old one and those between.
LEMMA MoreBreaks ==
  ASSUME IInv, Extends, cursor' \in Nat, cursor <= cursor'
  PROVE  BreaksTo(cursor)' = BreaksTo(cursor) + Cardinality({p \in cursor .. cursor' - 1 : IsBreak(p)'})
         /\ BreaksTo(cursor) \in Nat
<1> DEFINE A == {p \in 1 .. cursor - 1 : IsBreak(p)}
           B == {p \in cursor .. cursor' - 1 : IsBreak(p)'}
           C == {p \in 1 .. cursor' - 1 : IsBreak(p)'}
<1>1. cursor \in Nat /\ cursor >= 1
  BY TokensBehind
<1>2. \A p \in 1 .. cursor - 1 : IsBreak(p)' <=> IsBreak(p)
  BY BehindKept
<1>3. C = A \cup B
  <2>1. \A p : p \in 1 .. cursor' - 1 <=> p \in 1 .. cursor - 1 \/ p \in cursor .. cursor' - 1
    BY <1>1
  <2> QED BY <1>2, <2>1
<1>4. A \cap B = {}
  <2> SUFFICES ASSUME NEW p \in A \cap B PROVE FALSE
    OBVIOUS
  <2>1. p \in 1 .. cursor - 1 /\ p \in cursor .. cursor' - 1
    OBVIOUS
  <2> HIDE DEF A, B, C
  <2> QED BY <1>1, <2>1
<1>5. IsFiniteSet(A) /\ IsFiniteSet(B)
  <2>1. IsFiniteSet(1 .. cursor - 1) /\ IsFiniteSet(cursor .. cursor' - 1)
    <3>1. 1 \in Int /\ cursor - 1 \in Int /\ cursor \in Int /\ cursor' - 1 \in Int
      BY <1>1
    <3> QED BY <3>1, FS_Interval, Zenon
  <2>2. A \in SUBSET (1 .. cursor - 1) /\ B \in SUBSET (cursor .. cursor' - 1)
    OBVIOUS
  <2> HIDE DEF A, B
  <2> QED BY <2>1, <2>2, FS_Subset
<1>6. BreaksTo(cursor) = Cardinality(A) /\ BreaksTo(cursor)' = Cardinality(C)
  BY Zenon DEF BreaksTo
<1> HIDE DEF A, B, C
<1>7. Cardinality(A \cup B) = Cardinality(A) + Cardinality(B) - Cardinality(A \cap B)
  BY <1>5, FS_Union
<1>8. Cardinality({}) = 0 /\ Cardinality(A) \in Nat /\ Cardinality(B) \in Nat
  BY <1>5, FS_EmptySet, FS_CardinalityType
<1>9. Cardinality(C) = Cardinality(A) + Cardinality(B)
  <2>1. Cardinality(C) = Cardinality(A) + Cardinality(B) - Cardinality({})
    BY <1>3, <1>4, <1>7
  <2> QED BY <1>8, <2>1
<1>10. BreaksTo(cursor)' = BreaksTo(cursor) + Cardinality(B) /\ BreaksTo(cursor) \in Nat
  BY <1>6, <1>8, <1>9
<1> QED BY <1>10 DEF B

LEMMA InitText == Init => TextInv
<1> SUFFICES ASSUME Init PROVE TextInv
  OBVIOUS
<1>1. Len(tokens) = 0 /\ cursor = 1 /\ current_line = 1
  BY DEF Init
<1>2. \A i \in 1 .. Len(tokens) : FALSE
  BY <1>1
<1>3. \A p \in 1 .. cursor - 1 : FALSE
  BY <1>1
<1>4. {p \in 1 .. cursor - 1 : IsBreak(p)} = {}
  BY <1>3
<1>5. BreaksTo(cursor) = 0
  BY <1>4, FS_EmptySet DEF BreaksTo
<1>6. LineCounted
  BY <1>1, <1>5 DEF LineCounted
<1>7. ProperTokens /\ LinesCounted
  BY <1>2 DEF ProperTokens, LinesCounted
<1>8. NothingLost /\ CommentsPassed
  BY <1>3 DEF NothingLost, CommentsPassed
<1> QED BY <1>6, <1>7, <1>8, InitInv DEF TextInv

LEMMA LoadText ==
  ASSUME TextInv, NEW stream \in BOOLEAN, Load(stream)
  PROVE  ProperTokens' /\ NothingLost' /\ CommentsPassed' /\ LineCounted' /\ LinesCounted'
<1>1. /\ contents = <<>> /\ contents' \in Seq(Chars) /\ cursor' = cursor
      /\ current_line' = current_line /\ (tokens' = tokens \/ tokens' = <<>>)
  BY SourcesAssumption DEF Load
<1>2. cursor = 1 /\ Len(tokens) \in Nat /\ Len(contents) = 0
  BY <1>1, TokensBehind DEF TextInv
<1>3. \A p \in 1 .. cursor - 1 : FALSE
  BY <1>2
<1>4. {p \in 1 .. cursor - 1 : IsBreak(p)} = {} /\ {p \in 1 .. cursor' - 1 : IsBreak(p)'} = {}
  BY <1>1, <1>3
<1>5. BreaksTo(cursor) = 0 /\ BreaksTo(cursor)' = 0
  BY <1>4, FS_EmptySet DEF BreaksTo
<1>6. NothingLost' /\ CommentsPassed' /\ LineCounted'
  BY <1>1, <1>3, <1>5 DEF NothingLost, CommentsPassed, LineCounted, TextInv
<1>7. ASSUME NEW i \in 1 .. Len(tokens)
      PROVE  tokens[i].type = "kEndOfFile" /\ tokens[i].from = 1 /\ tokens[i].to = 1
  <2>1. tokens[i].from \in Nat /\ tokens[i].from >= 1 /\ tokens[i].to = 1
    BY <1>2, TokensBehind DEF TextInv
  <2>2. tokens[i].type = "kEndOfFile"
    BY <2>1 DEF TextInv, IInv, TokensInOrder
  <2> QED BY <2>1, <2>2 DEF TextInv, ProperTokens
<1>8. CASE tokens' = <<>>
  <2>1. \A i \in 1 .. Len(tokens') : FALSE
    BY <1>8
  <2> QED BY <1>6, <2>1 DEF ProperTokens, LinesCounted
<1>9. CASE tokens' = tokens
  <2>1. Text(1, 1)' \notin Keywords
    <3>1. Len(SubSeq(contents', 1, 0)) = 0
      BY <1>1
    <3>2. Len(<<"o", "r">>) # 0 /\ Len(<<"f", "u", "n">>) # 0
      OBVIOUS
    <3>3. \A s \in Keywords : Len(s) # 0
      BY <3>2 DEF Keywords
    <3>4. SubSeq(contents', 1, 0) \notin Keywords
      BY <3>1, <3>3
    <3> QED BY <3>4 DEF Text
  <2>2. Proper("kEndOfFile", 1, 1)'
    BY <2>1 DEF Proper
  <2>3. ProperTokens'
    BY <1>7, <1>9, <2>2 DEF ProperTokens
  <2>4. LinesCounted'
    <3>1. \A i \in 1 .. Len(tokens) : tokens[i].line = 1 + BreaksTo(tokens[i].to)
      BY LinesOfTokens DEF TextInv
    <3>2. BreaksTo(1) = 0
      BY <1>2, <1>5
    <3>3. BreaksTo(1)' = 0
      BY <1>1, <1>2, <1>5 DEF BreaksTo
    <3>4. ASSUME NEW i \in 1 .. Len(tokens)
          PROVE  tokens'[i].line = 1 + Cardinality({p \in 1 .. tokens'[i].to - 1 : IsBreak(p)'})
      <4>1. {p \in 1 .. tokens'[i].to - 1 : IsBreak(p)'} = {}
        BY <1>7, <1>9
      <4>2. tokens'[i].line = 1
        BY <1>7, <1>9, <3>1, <3>2
      <4> QED BY <4>1, <4>2, FS_EmptySet
    <3> QED BY <1>9, <3>4 DEF LinesCounted, IsBreak
  <2> QED BY <1>6, <2>3, <2>4
<1> QED BY <1>1, <1>8, <1>9

\* What a token put at the cursor leaves true.
LEMMA AddedText ==
  ASSUME TextInv, contents' = contents, NEW t, t.from = cursor, t.to = cursor',
         tokens' = Append(tokens, t), cursor' \in Nat, cursor <= cursor',
         LineCounted', t.line = current_line',
         Proper(t.type, t.from, t.to), t.type = "kEndOfFile" => t.from = t.to
  PROVE  ProperTokens' /\ LinesCounted'
<1>1. Extends
  BY DEF Extends
<1>2. /\ tokens \in Seq(TokenSet) /\ Len(tokens) \in Nat /\ cursor \in Nat
      /\ \A i \in 1 .. Len(tokens) : tokens[i].to \in 1 .. cursor
  BY TokensBehind DEF TextInv
<1>3. /\ Len(tokens') = Len(tokens) + 1
      /\ \A i \in 1 .. Len(tokens) : tokens'[i] = tokens[i]
      /\ tokens'[Len(tokens) + 1] = t
      /\ \A i \in 1 .. Len(tokens') : i = Len(tokens) + 1 \/ i \in 1 .. Len(tokens)
  BY <1>2
<1>4. \A type, a, b : Proper(type, a, b)' = Proper(type, a, b)
  BY DEF Proper, Longest, Text
<1>5. ProperTokens'
  BY <1>3, <1>4 DEF TextInv, ProperTokens
<1>6. LinesCounted'
  <2>1. \A i \in 1 .. Len(tokens) : tokens[i].line = 1 + BreaksTo(tokens[i].to)
    BY LinesOfTokens DEF TextInv
  <2>2. \A q \in 1 .. cursor : BreaksTo(q)' = BreaksTo(q)
    BY <1>1, BreaksKept DEF TextInv
  <2>3. \A i \in 1 .. Len(tokens) :
          tokens'[i].line = 1 + Cardinality({p \in 1 .. tokens'[i].to - 1 : IsBreak(p)'})
    <3> SUFFICES ASSUME NEW i \in 1 .. Len(tokens)
                 PROVE  tokens'[i].line = 1 + Cardinality({p \in 1 .. tokens'[i].to - 1 : IsBreak(p)'})
      OBVIOUS
    <3> DEFINE q == tokens[i].to
    <3>1. q \in 1 .. cursor /\ tokens[i].line = 1 + BreaksTo(q)
      BY <1>2, <2>1
    <3>2. tokens'[i].to = q /\ tokens'[i].line = 1 + BreaksTo(q)
      BY <1>3, <3>1
    <3>3. \A p \in 1 .. q - 1 : IsBreak(p)' <=> IsBreak(p)
      <4>1. \A p \in 1 .. q - 1 : p \in 1 .. cursor - 1
        BY <1>2, <3>1
      <4> QED BY <1>1, <4>1, BehindKept DEF TextInv
    <3> HIDE DEF q
    <3>4. {p \in 1 .. q - 1 : IsBreak(p)'} = {p \in 1 .. q - 1 : IsBreak(p)}
      BY <3>3
    <3> QED BY <3>2, <3>4 DEF BreaksTo
  <2>4. t.line = 1 + Cardinality({p \in 1 .. t.to - 1 : IsBreak(p)'})
    BY DEF LineCounted, BreaksTo
  <2>5. \A i \in 1 .. Len(tokens') :
          tokens'[i].line = 1 + Cardinality({p \in 1 .. tokens'[i].to - 1 : IsBreak(p)'})
    BY <1>3, <2>3, <2>4
  <2> QED BY <2>5 DEF LinesCounted, IsBreak
<1> QED BY <1>5, <1>6

LEMMA EndText ==
  ASSUME TextInv, EndLex
  PROVE  ProperTokens' /\ NothingLost' /\ CommentsPassed' /\ LineCounted' /\ LinesCounted'
<1> DEFINE t == Token("kEndOfFile", cursor, cursor, current_line)
<1>1. /\ contents' = contents /\ cursor' = cursor /\ current_line' = current_line
      /\ tokens' = Append(tokens, t)
  BY DEF EndLex
<1>2. t.type = "kEndOfFile" /\ t.from = cursor /\ t.to = cursor /\ t.line = current_line
  BY DEF Token
<1> HIDE DEF t
<1>3. cursor \in 1 .. Len(contents) + 1 /\ cursor \in Nat /\ contents \in Seq(Chars)
  BY TokensBehind DEF TextInv
<1>4. Extends
  BY <1>1, <1>2 DEF Extends
<1>5. \A p \in 1 .. cursor - 1 : /\ InToken(p)' <=> InToken(p)
                                 /\ InComment(p)' <=> InComment(p)
                                 /\ InHugeNumber(p)' <=> InHugeNumber(p)
  BY <1>4, BehindKept DEF TextInv
<1>6. NothingLost' /\ CommentsPassed'
  BY <1>1, <1>5 DEF TextInv, NothingLost, CommentsPassed, IsAt
<1>7. LineCounted'
  <2>1. cursor \in 1 .. cursor
    BY <1>3
  <2>2. ASSUME NEW q \in 1 .. cursor, q = cursor PROVE BreaksTo(cursor)' = BreaksTo(cursor)
    <3>1. BreaksTo(q)' = BreaksTo(q)
      BY <1>4, BreaksKept DEF TextInv
    <3> QED BY <1>1, <2>2, <3>1 DEF BreaksTo
  <2>3. BreaksTo(cursor)' = BreaksTo(cursor)
    <3>1. PICK q \in 1 .. cursor : q = cursor
      BY <2>1
    <3> QED BY <2>2, <3>1
  <2> QED BY <1>1, <2>3 DEF TextInv, LineCounted
<1>8. Proper("kEndOfFile", cursor, cursor)
  <2>1. Text(cursor, cursor) \notin Keywords
    <3>1. cursor \in cursor .. Len(contents) + 1
      BY <1>3
    <3>2. ASSUME Text(cursor, cursor) \in Keywords PROVE cursor < cursor
      BY <1>3, <3>1, <3>2, KeywordText
    <3> QED BY <1>3, <3>2
  <2> QED BY <2>1 DEF Proper
<1>9. ProperTokens' /\ LinesCounted'
  BY <1>1, <1>2, <1>3, <1>7, <1>8, AddedText
<1> QED BY <1>6, <1>7, <1>9

\* the places a step passes, and those before
LEMMA Places ==
  ASSUME NEW a \in Nat, NEW b \in Nat, NEW n \in Nat, a >= 1, a < b, b <= n + 1
  PROVE  /\ \A p \in 1 .. b - 1 : p \in 1 .. a - 1 \/ p \in a .. b - 1
         /\ \A p \in a .. b - 1 :
              /\ p \in Nat /\ p >= a /\ p <= n /\ p + 1 \in Nat
              /\ a \in 1 .. p /\ b \in p + 1 .. n + 1 /\ b \in p .. b
              /\ \A q \in a .. p : q \in a .. b - 1
         /\ a \in a .. b - 1
         /\ \A p \in 1 .. a - 1 : \A q \in p .. a : q \in p .. b
  OBVIOUS

LEMMA PassText ==
  ASSUME TextInv, NextToken
  PROVE  ProperTokens' /\ NothingLost' /\ CommentsPassed' /\ LineCounted' /\ LinesCounted'
<1>1. TypeOK /\ cursor \in 1 .. Len(contents) + 1 /\ cursor \in Nat /\ contents \in Seq(Chars)
      /\ Len(tokens) \in Nat /\ tokens \in Seq(TokenSet) /\ Len(contents) \in Nat
      /\ current_line = 1 + BreaksTo(cursor)
  BY TokensBehind DEF TextInv, IInv, LineCounted
<1>2. cursor <= Len(contents)
  <2>1. ~ AtEnd
    BY DEF NextToken, LexSingle, LexPairing, LexSlash, SkipSpace, LexString, LexNumber, LexWord,
       LexUnexpected, Begins
  <2>2. cursor \in Nat /\ Len(contents) \in Nat
    BY <1>1
  <2> QED BY <2>1, <2>2 DEF AtEnd
<1>3. cursor' \in cursor + 1 .. Len(contents) + 1 /\ contents' = contents
  BY <1>1, NextTokenTakes DEF Lexed, Taken
<1>4. TokenPassed \/ SpacePassed \/ CommentPassed \/ NumberDropped
  BY <1>1, NextTokenPasses
<1>5. Extends
  <2>1. CASE TokenPassed
    BY <1>3, <2>1 DEF TokenPassed, Extends, AddToken, Token
  <2> QED BY <1>3, <1>4, <2>1 DEF Extends, SpacePassed, CommentPassed, NumberDropped
<1>0. /\ cursor \in Nat /\ cursor >= 1 /\ cursor' \in Nat /\ cursor < cursor' /\ cursor <= cursor'
      /\ Len(contents) \in Nat /\ cursor' <= Len(contents) + 1
  <2>1. cursor \in 1 .. Len(contents) + 1 /\ Len(contents) \in Nat
    BY <1>1
  <2> QED BY <1>3, <2>1
<1>6. /\ \A p \in 1 .. cursor' - 1 : p \in 1 .. cursor - 1 \/ p \in cursor .. cursor' - 1
      /\ \A p \in cursor .. cursor' - 1 : p \in Nat /\ p >= cursor /\ p <= Len(contents)
  BY <1>0, Places
<1>7. \A p \in 1 .. cursor - 1 : /\ InToken(p)' <=> InToken(p)
                                 /\ InComment(p)' <=> InComment(p)
                                 /\ InHugeNumber(p)' <=> InHugeNumber(p)
  BY <1>5, BehindKept DEF TextInv
<1>8. \A s : (IsAt(s, "/")' <=> IsAt(s, "/")) /\ (IsAt(s + 1, "/")' <=> IsAt(s + 1, "/"))
  BY <1>3 DEF IsAt
<1>9. ASSUME tokens' = tokens, NEW p \in cursor .. cursor' - 1 PROVE ~ InToken(p)'
  <2>1. ~ InToken(p)
    BY <1>6, TokensBehind DEF TextInv
  <2> QED BY <1>9, <2>1 DEF InToken
<1>10. TokenPassed => \A p \in cursor .. cursor' - 1 : InToken(p)'
  <2> SUFFICES ASSUME TokenPassed, NEW p \in cursor .. cursor' - 1 PROVE InToken(p)'
    OBVIOUS
  <2>1. PICK t : tokens' = Append(tokens, t) /\ t.from = cursor /\ t.to = cursor'
    BY DEF TokenPassed, AddToken, Token
  <2>2. Len(tokens) + 1 \in 1 .. Len(tokens') /\ tokens'[Len(tokens) + 1] = t
    BY <1>1, <2>1
  <2> QED BY <2>1, <2>2 DEF InToken
<1>11. CommentPassed => \A p \in cursor .. cursor' - 1 : InComment(p)'
  <2> SUFFICES ASSUME CommentPassed, NEW p \in cursor .. cursor' - 1 PROVE InComment(p)'
    OBVIOUS
  <2>1. PICK c \in Nat : c = cursor
    BY <1>1
  <2>2. IsAt(c, "/")' /\ IsAt(c + 1, "/")'
    BY <1>8, <2>1 DEF CommentPassed
  <2>3. ~ InToken(c)'
    <3>1. c \in cursor .. cursor' - 1
      BY <1>0, <2>1, Places
    <3>2. tokens' = tokens
      BY DEF CommentPassed
    <3> QED BY <1>9, <3>1, <3>2
  <2>4. c \in 1 .. p /\ \A q \in c .. p : q \in cursor .. cursor' - 1
    BY <1>0, <2>1, Places
  <2>5. \A q \in c .. p : contents'[q] # "nl"
    BY <1>3, <2>4 DEF CommentPassed
  <2> QED BY <2>2, <2>3, <2>4, <2>5 DEF InComment
<1>12. NumberDropped => \A p \in cursor .. cursor' - 1 : InHugeNumber(p)'
  <2> SUFFICES ASSUME NumberDropped, NEW p \in cursor .. cursor' - 1 PROVE InHugeNumber(p)'
    OBVIOUS
  <2>1. PICK c \in Nat, d \in Nat : c = cursor /\ d = cursor'
    BY <1>0
  <2>2. IsNumber(Text(c, d)) /\ MayBeHuge(c, d)
    BY <2>1 DEF NumberDropped
  <2>3. IsNumber(Text(c, d))' /\ MayBeHuge(c, d)'
    BY <1>3, <2>2 DEF Text, MayBeHuge, RunEnd
  <2>4. c \in 1 .. p /\ d \in p + 1 .. Len(contents') + 1
    <3>1. Len(contents') = Len(contents)
      BY <1>3
    <3> QED BY <1>0, <2>1, <3>1, Places
  <2> QED BY <2>3, <2>4 DEF InHugeNumber
<1>13. NothingLost'
  <2> SUFFICES ASSUME NEW p \in 1 .. cursor' - 1
               PROVE  \/ InToken(p)'
                      \/ contents'[p] \in Whitespace \cup Newlines
                      \/ InComment(p)' \/ InHugeNumber(p)'
    BY DEF NothingLost
  <2>1. CASE p \in 1 .. cursor - 1
    BY <1>3, <1>7, <2>1 DEF TextInv, NothingLost
  <2>2. CASE p \in cursor .. cursor' - 1
    <3>1. CASE SpacePassed
      <4>1. p = cursor
        BY <1>1, <2>2, <3>1 DEF SpacePassed
      <4> QED BY <1>3, <3>1, <4>1 DEF SpacePassed
    <3> QED BY <1>4, <1>10, <1>11, <1>12, <2>2, <3>1
  <2> QED BY <1>6, <2>1, <2>2
<1>14. CommentsPassed'
  <2> SUFFICES ASSUME NEW s \in 1 .. cursor' - 1, IsAt(s, "/")', IsAt(s + 1, "/")', ~ InToken(s)'
               PROVE  cursor' > Len(contents') \/ \E r \in s .. cursor' : contents'[r] = "nl"
    BY DEF CommentsPassed
  <2>1. IsAt(s, "/") /\ IsAt(s + 1, "/") /\ contents[s] = "/"
    BY <1>8 DEF IsAt
  <2>2. CASE s \in 1 .. cursor - 1
    <3>1. \E r \in s .. cursor : contents[r] = "nl"
      BY <1>1, <1>2, <1>7, <2>1, <2>2 DEF TextInv, CommentsPassed
    <3>2. \A r \in s .. cursor : r \in s .. cursor'
      BY <1>0
    <3> QED BY <1>3, <3>1, <3>2
  <2>3. CASE s \in cursor .. cursor' - 1
    <3>1. ~ TokenPassed
      BY <1>10, <2>3
    <3>2. ~ SpacePassed
      <4> SUFFICES ASSUME SpacePassed PROVE FALSE
        OBVIOUS
      <4>1. s = cursor
        BY <1>1, <2>3 DEF SpacePassed
      <4>2. contents[s] \in Whitespace \cup Newlines
        BY <4>1 DEF SpacePassed
      <4> QED BY <2>1, <4>2 DEF Whitespace, Newlines
    <3>3. ~ NumberDropped
      <4>1. NumberDropped => contents[s] \in Digits \cup {"."}
        BY <2>3 DEF NumberDropped
      <4> QED BY <2>1, <4>1 DEF Digits
    <3>4. cursor' <= Len(contents) => contents[cursor'] = "nl"
      BY <1>4, <3>1, <3>2, <3>3 DEF CommentPassed
    <3>5. cursor' \in s .. cursor'
      BY <1>0, <2>3, Places
    <3> QED BY <1>0, <1>3, <3>4, <3>5
  <2> QED BY <1>6, <2>2, <2>3
<1> DEFINE New == {p \in cursor .. cursor' - 1 : IsBreak(p)'}
<1>15. BreaksTo(cursor)' = BreaksTo(cursor) + Cardinality(New) /\ BreaksTo(cursor) \in Nat
  BY <1>0, <1>5, MoreBreaks DEF TextInv
<1>16. current_line' = current_line + Cardinality(New)
  <2>1. CASE TokenPassed
    <3>1. New = {p \in cursor .. cursor' - 1 : contents[p] = "nl"}
      BY <1>3, <1>10, <2>1 DEF IsBreak
    <3>2. Cardinality(New) = Breaks(cursor, cursor')
      BY <3>1 DEF Breaks
    <3> HIDE DEF New
    <3> QED BY <2>1, <3>2 DEF TokenPassed
  <2>2. CASE SpacePassed
    <3>1. PICK c \in Nat : c = cursor
      BY <1>1
    <3>2. c \in cursor .. cursor' - 1 /\ \A p \in cursor .. cursor' - 1 : p = c
      BY <1>0, <2>2, <3>1 DEF SpacePassed
    <3>3. ~ InToken(c)'
      BY <1>9, <2>2, <3>2 DEF SpacePassed
    <3>4. contents[c] \in Whitespace \cup Newlines
      BY <2>2, <3>1 DEF SpacePassed
    <3>5. ~ InComment(c)' \/ contents[c] = "nl"
      <4> SUFFICES ASSUME InComment(c)', contents[c] # "nl" PROVE FALSE
        OBVIOUS
      <4>1. PICK s \in 1 .. c :
              /\ IsAt(s, "/")' /\ IsAt(s + 1, "/")' /\ ~ InToken(s)'
              /\ \A q \in s .. c : contents'[q] # "nl"
        BY DEF InComment
      <4>2. IsAt(s, "/") /\ IsAt(s + 1, "/") /\ contents[s] = "/"
        BY <1>8, <4>1 DEF IsAt
      <4>3. s # c
        BY <3>4, <4>2 DEF Whitespace, Newlines
      <4>4. s \in 1 .. cursor - 1
        BY <3>1, <4>3
      <4>5. \E r \in s .. cursor : contents[r] = "nl"
        BY <1>1, <1>2, <1>7, <4>1, <4>2, <4>4 DEF TextInv, CommentsPassed
      <4> QED BY <1>3, <3>1, <4>1, <4>5
    <3>6. IsBreak(c)' <=> contents[c] \in Newlines
      <4>1. "nl" \in Newlines
        BY DEF Newlines
      <4> QED BY <1>3, <3>3, <3>5, <4>1 DEF IsBreak
    <3>7. CASE contents[c] \in Newlines
      <4>1. New = {c}
        BY <3>2, <3>6, <3>7
      <4>2. Cardinality(New) = 1
        BY <4>1, FS_Singleton
      <4> HIDE DEF New
      <4> QED BY <2>2, <3>1, <3>7, <4>2 DEF SpacePassed
    <3>8. CASE contents[c] \notin Newlines
      <4>1. New = {}
        BY <3>2, <3>6, <3>8
      <4>2. Cardinality(New) = 0
        BY <4>1, FS_EmptySet
      <4> HIDE DEF New
      <4>3. current_line' = current_line
        BY <2>2, <3>1, <3>8 DEF SpacePassed
      <4> QED BY <1>1, <1>15, <4>2, <4>3
    <3> QED BY <3>7, <3>8
  <2>3. CASE CommentPassed \/ NumberDropped
    <3>1. ASSUME NEW p \in cursor .. cursor' - 1 PROVE ~ IsBreak(p)'
      <4>1. CASE CommentPassed
        BY <1>3, <1>11, <4>1 DEF IsBreak, CommentPassed
      <4>2. CASE NumberDropped
        <5>1. contents[p] \in Digits \cup {"."}
          BY <4>2 DEF NumberDropped
        <5>2. contents[p] # "nl" /\ contents[p] \notin Newlines
          BY <5>1 DEF Digits, Newlines
        <5> QED BY <1>3, <5>2 DEF IsBreak
      <4> QED BY <2>3, <4>1, <4>2
    <3>2. New = {}
      BY <3>1
    <3>3. Cardinality(New) = 0
      BY <3>2, FS_EmptySet
    <3> HIDE DEF New
    <3>4. current_line' = current_line
      BY <2>3 DEF CommentPassed, NumberDropped
    <3> QED BY <1>1, <1>15, <3>3, <3>4
  <2> QED BY <1>4, <2>1, <2>2, <2>3
<1>17. LineCounted'
  <2>1. Cardinality(New) \in Nat
    <3>1. cursor \in Int /\ cursor' - 1 \in Int
      BY <1>0
    <3>2. IsFiniteSet(cursor .. cursor' - 1)
      BY <3>1, FS_Interval, Zenon
    <3>3. New \in SUBSET (cursor .. cursor' - 1)
      OBVIOUS
    <3> HIDE DEF New
    <3> QED BY <3>2, <3>3, FS_Subset, FS_CardinalityType
  <2> HIDE DEF New
  <2>2. current_line' = 1 + BreaksTo(cursor)'
    BY <1>1, <1>15, <1>16, <2>1
  <2> QED BY <2>2 DEF LineCounted
<1>18. ProperTokens' /\ LinesCounted'
  <2>1. CASE TokenPassed
    <3>1. PICK type \in Types \ {"kEndOfFile"} :
            AddToken(type, cursor') /\ Proper(type, cursor, cursor')
      BY <2>1 DEF TokenPassed
    <3> DEFINE t == Token(type, cursor, cursor', current_line')
    <3>2. /\ tokens' = Append(tokens, t) /\ t.type = type /\ t.from = cursor /\ t.to = cursor'
          /\ t.line = current_line'
      BY <3>1 DEF AddToken, Token
    <3>3. type # "kEndOfFile"
      OBVIOUS
    <3> HIDE DEF t
    <3> QED BY <1>0, <1>3, <1>17, <3>1, <3>2, <3>3, AddedText
  <2>2. CASE tokens' = tokens
    <3>1. \A type, a, b : Proper(type, a, b)' = Proper(type, a, b)
      BY <1>3 DEF Proper, Longest, Text
    <3>2. ProperTokens'
      BY <2>2, <3>1 DEF TextInv, ProperTokens
    <3>3. \A i \in 1 .. Len(tokens) :
            tokens[i].to \in 1 .. cursor /\ tokens[i].line = 1 + BreaksTo(tokens[i].to)
      BY <1>1, LinesOfTokens, TokensBehind DEF TextInv
    <3>4. ASSUME NEW i \in 1 .. Len(tokens)
          PROVE  tokens[i].line = 1 + Cardinality({p \in 1 .. tokens[i].to - 1 : IsBreak(p)'})
      <4> DEFINE q == tokens[i].to
      <4>1. q \in 1 .. cursor /\ tokens[i].line = 1 + BreaksTo(q)
        BY <3>3
      <4>2. \A p \in 1 .. q - 1 : IsBreak(p)' <=> IsBreak(p)
        <5>1. \A p \in 1 .. q - 1 : p \in 1 .. cursor - 1
          BY <1>1, <4>1
        <5> QED BY <1>5, <5>1, BehindKept DEF TextInv
      <4> HIDE DEF q
      <4>3. {p \in 1 .. q - 1 : IsBreak(p)'} = {p \in 1 .. q - 1 : IsBreak(p)}
        BY <4>2
      <4>4. tokens[i].line = 1 + Cardinality({p \in 1 .. q - 1 : IsBreak(p)'})
        BY <4>1, <4>3 DEF BreaksTo
      <4> QED BY <4>4 DEF q
    <3> QED BY <2>2, <3>2, <3>4 DEF LinesCounted, IsBreak
  <2> QED BY <1>4, <2>1, <2>2 DEF SpacePassed, CommentPassed, NumberDropped
<1> QED BY <1>13, <1>14, <1>17, <1>18

LEMMA NextText == TextInv /\ [Next]_vars => TextInv'
<1> SUFFICES ASSUME TextInv, [Next]_vars PROVE TextInv'
  OBVIOUS
<1>1. IInv'
  BY NextInv DEF TextInv
<1>2. CASE \E stream \in BOOLEAN : Load(stream)
  BY <1>1, <1>2, LoadText DEF TextInv
<1>3. CASE NextToken
  BY <1>1, <1>3, PassText DEF TextInv
<1>4. CASE EndLex
  BY <1>1, <1>4, EndText DEF TextInv
<1>5. CASE LoadAgain \/ Lex \/ UNCHANGED vars
  <2>1. UNCHANGED <<contents, cursor, current_line, tokens>>
    BY <1>5 DEF LoadAgain, Lex, vars
  <2>2. ProperTokens'
    BY <2>1 DEF TextInv, ProperTokens, Proper, Longest, Text
  <2>3. /\ \A p : InToken(p)' <=> InToken(p)
        /\ \A p : InComment(p)' <=> InComment(p)
        /\ \A p : InHugeNumber(p)' <=> InHugeNumber(p)
    BY <2>1 DEF InToken, InComment, InHugeNumber, IsAt, MayBeHuge, RunEnd, Text
  <2>4. NothingLost' /\ CommentsPassed'
    BY <2>1, <2>3 DEF TextInv, NothingLost, CommentsPassed, IsAt
  <2>5. LineCounted' /\ LinesCounted'
    <3>1. \A p : IsBreak(p)' <=> IsBreak(p)
      BY <2>1, <2>3 DEF IsBreak
    <3>2. LineCounted'
      BY <2>1, <3>1 DEF TextInv, LineCounted, BreaksTo
    <3>3. LinesCounted'
      BY <2>1, <2>3 DEF TextInv, LinesCounted
    <3> QED BY <3>2, <3>3
  <2> QED BY <1>1, <2>2, <2>4, <2>5 DEF TextInv
<1> QED BY <1>2, <1>3, <1>4, <1>5 DEF Next

LEMMA TextInvariance == Spec => []TextInv
BY InitText, NextText, PTL DEF Spec

-----------------------------------------------------------------------------
(* The theorems.                                                            *)

\* However long the text, and however often it is lexed: the cursor stays in it,
\* so do all tokens, and neither a line nor an error is counted without a
\* character that is one.
THEOREM LexerTypeCorrect == Spec => []TypeOK
BY Invariance, PTL DEF IInv

\* Each next_token begins where the last one stopped: the tokens, and with them
\* the views that the parser holds, are in the order of the text and share none
\* of it.
THEOREM TokensStayInOrder == Spec => []TokensInOrder
BY Invariance, PTL DEF IInv

\* No error is counted without the token that tells of it, nor the other way
\* round: ok() is what the token stream says.
THEOREM ErrorsHaveTokens == Spec => []ErrorsCounted
BY Invariance, PTL DEF IInv

\* Whatever the lexer has passed is in a token, but space, line breaks, comments
\* and the digits of a number out of range: no branch of next_token drops a
\* character that it should have taken.
THEOREM NothingIsLost == Spec => []NothingLost
BY TextInvariance, PTL DEF TextInv

\* Every token is what its type says and no longer one could begin there, for
\* every text: neither a number's dot nor an operator's second character is ever
\* left to the next token, or taken from it.
THEOREM TokensAreLongest == Spec => []LongestMatch
<1>1. TextInv => LongestMatch
  BY DEF TextInv, ProperTokens, Proper, Longest, LongestMatch, Lexeme
<1> QED BY <1>1, TextInvariance, PTL

\* A token's line counts the line breaks before its end, those in strings and
\* after comments too, for every text.
THEOREM LinesAreCounted == Spec => []LinesCounted
BY TextInvariance, PTL DEF TextInv
=============================================================================
