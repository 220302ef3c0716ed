----------------------------- MODULE LexicalRules -----------------------------
(***************************************************************************)
(* The lexical rules of the repository's README.md, and what the tokens of  *)
(* Lexer have to do with them.                                              *)
(***************************************************************************)
EXTENDS Lexer

In(s, chars) == \A i \in 1 .. Len(s) : s[i] \in chars

\* number -> digit+ ( "." digit+ )?
IsNumber(s) ==
  \/ Len(s) > 0 /\ In(s, Digits)
  \/ \E d \in 2 .. Len(s) - 1 :
       /\ s[d] = "."
       /\ In(SubSeq(s, 1, d - 1), Digits) /\ In(SubSeq(s, d + 1, Len(s)), Digits)

\* string -> "\"" + ([[alnums]])* + "\"", over any character but the quote
IsString(s) ==
  /\ Len(s) >= 2 /\ s[1] = "quote" /\ s[Len(s)] = "quote"
  /\ In(SubSeq(s, 2, Len(s) - 1), Chars \ {"quote"})

\* identifier -> [a-zA-Z_] + [a-zA-Z0-9_]*, and the code's backtick
IsWord(s) ==
  /\ Len(s) > 0 /\ s[1] \in Letters \cup {"_"}
  /\ In(s, Letters \cup Digits \cup {"_", "backtick"})

IsSymbol(s) ==
  \/ Len(s) = 1 /\ s[1] \in Single \cup Pairing \cup {"/"}
  \/ Len(s) = 2 /\ s[1] \in Pairing /\ s[2] = "="

IsToken(s) == IsNumber(s) \/ IsString(s) \/ IsWord(s) \/ IsSymbol(s)

Text(from, to) == SubSeq(contents, from, to - 1)
Lexeme(t) == Text(t.from, t.to)

InHugeNumber(p) ==
  \E from \in 1 .. p, to \in p + 1 .. Len(contents) + 1 :
    IsNumber(Text(from, to)) /\ MayBeHuge(from, to)

-----------------------------------------------------------------------------
\* Every character the lexer has passed is in a token, unless it is space, a line
\* break, part of a comment, or of a number that may not be representable.
NothingLost ==
  \A p \in 1 .. cursor - 1 :
    \/ InToken(p)
    \/ contents[p] \in Whitespace \cup Newlines
    \/ InComment(p) \/ InHugeNumber(p)

\* A token is what its type says, as long as it can be: nothing that begins where
\* it does and goes on further is a token too.
LongestMatch ==
  \A i \in 1 .. Len(tokens) :
    LET t == tokens[i] IN
    /\ t.type = "number" => IsNumber(Lexeme(t))
    /\ t.type = "string" => IsString(Lexeme(t))
    /\ t.type \in {"identifier", "keyword"} => IsWord(Lexeme(t))
    /\ t.type = "keyword" <=> Lexeme(t) \in Keywords
    /\ t.type \in {"single", "pairing", "slash"} => IsSymbol(Lexeme(t))
    /\ t.type # "kEndOfFile" =>
         \A q \in t.to + 1 .. Len(contents) + 1 : ~ IsToken(Text(t.from, q))
=============================================================================
