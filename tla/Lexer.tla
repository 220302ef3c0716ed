--------------------------------- MODULE Lexer ---------------------------------
(***************************************************************************)
(* The lexer: driver/src/lexer.cpp.  A client loads sources into it and has *)
(* it lex them; one step of lexing is one call of next_token.               *)
(*                                                                         *)
(* A character is one of a few that stand for all those the lexer treats    *)
(* alike.  Positions begin at 1: `cursor` is the position of the next       *)
(* character, and a token records where its lexeme is and not its text.     *)
(***************************************************************************)
EXTENDS Integers, Sequences, FiniteSets

CONSTANTS
  Sources,    \* the texts that may be loaded
  MaxCalls,   \* bound: calls of load and lex
  MaxDigits   \* a number of more digits before or after the dot may be out of
              \* long double's range

Single == {"(", ")", "{", "}", ",", ".", "+", ";"}   \* a token each: these, - and *
Pairing == {"!", "="}         \* a token each, and one with "=" after it: ! = < >
Letters == {"o", "r", "f", "u", "n"}   \* std::isalpha
Digits == {"0"}
Whitespace == {" "}
Newlines == {"nl", "vt"}      \* "\n", and "\v" and "\f" which end no comment
Unexpected == {"?", "backtick"}  \* begins no token

Chars == Single \cup Pairing \cup Letters \cup Digits \cup Whitespace \cup Newlines
           \cup Unexpected \cup {"/", "_", "quote"}

ASSUME SourcesAssumption == Sources \subseteq Seq(Chars)
ASSUME LexerBounds == MaxCalls \in Nat /\ MaxDigits \in Nat

Keywords == {<<"o", "r">>, <<"f", "u", "n">>}

VARIABLES
  contents,
  cursor,
  current_line,
  tokens,
  error_count,
  lexing,        \* is lex() in its loop?
  calls          \* how many calls of load and lex there have been

vars == <<contents, cursor, current_line, tokens, error_count, lexing, calls>>

Types == {"single", "pairing", "slash", "string", "number", "identifier", "keyword",
          "kLexError", "kEndOfFile"}

\* the lexeme is contents[from .. to - 1]; the end of file has none
Token(type, from, to, line) == [type |-> type, from |-> from, to |-> to, line |-> line]

AtEnd == cursor > Len(contents)
IsAt(p, c) == p <= Len(contents) /\ contents[p] = c

\* the first position from p on that holds none of these characters
RunEnd(p, chars) ==
  CHOOSE q \in p .. Len(contents) + 1 :
    /\ q <= Len(contents) => contents[q] \notin chars
    /\ \A r \in p .. q - 1 : contents[r] \in chars

-----------------------------------------------------------------------------
(* next_token: each action is what it does after one kind of character.     *)

Begins(chars) == lexing /\ ~ AtEnd /\ contents[cursor] \in chars

\* take the characters up to position q; lex() has set head to the cursor
MoveTo(q) == cursor' = q
AddToken(type, q) ==
  tokens' = Append(tokens, Token(type, cursor, q, current_line'))
\* Mutant: the error is not counted.
MutantAddLexError(q) == AddToken("kLexError", q) /\ UNCHANGED error_count

AddLexError(q) == AddToken("kLexError", q) /\ error_count' = error_count + 1

LexSingle ==
  /\ Begins(Single)
  /\ MoveTo(cursor + 1)
  /\ UNCHANGED current_line
  /\ AddToken("single", cursor + 1)
  /\ UNCHANGED <<contents, error_count, lexing, calls>>

\* advance_if_is('=')
LexPairing ==
  /\ Begins(Pairing)
  /\ LET q == IF IsAt(cursor + 1, "=") THEN cursor + 2 ELSE cursor + 1 IN
     /\ MoveTo(q)
     /\ UNCHANGED current_line
     /\ AddToken("pairing", q)
  /\ UNCHANGED <<contents, error_count, lexing, calls>>

\* Mutant: the characters of a comment are not taken.
MutantLexComment ==
  /\ Begins({"/"})
  /\ UNCHANGED current_line
  /\ IF IsAt(cursor + 1, "/")
     THEN MoveTo(cursor) /\ UNCHANGED tokens
     ELSE MoveTo(cursor + 1) /\ AddToken("slash", cursor + 1)
  /\ UNCHANGED <<contents, error_count, lexing, calls>>

\* a slash, or a comment up to the end of the line
LexSlash ==
  /\ Begins({"/"})
  /\ UNCHANGED current_line
  /\ IF IsAt(cursor + 1, "/")
     THEN MoveTo(RunEnd(cursor + 2, Chars \ {"nl"})) /\ UNCHANGED tokens
     ELSE MoveTo(cursor + 1) /\ AddToken("slash", cursor + 1)
  /\ UNCHANGED <<contents, error_count, lexing, calls>>

SkipSpace ==
  /\ Begins(Whitespace \cup Newlines)
  /\ MoveTo(cursor + 1)
  /\ current_line' = IF contents[cursor] \in Newlines THEN current_line + 1 ELSE current_line
  /\ UNCHANGED <<contents, tokens, error_count, lexing, calls>>

\* Mutant: line breaks in strings are not counted.
MutantStringLines ==
  /\ Begins({"quote"})
  /\ UNCHANGED current_line
  /\ LET q == RunEnd(cursor + 1, Chars \ {"quote"}) IN
     IF q > Len(contents)
     THEN MoveTo(q) /\ AddLexError(q)
     ELSE MoveTo(q + 1) /\ AddToken("string", q + 1) /\ UNCHANGED error_count
  /\ UNCHANGED <<contents, lexing, calls>>

\* Mutant: the closing quote is taken whether it is there or not.
MutantStringEnd ==
  /\ Begins({"quote"})
  /\ LET q == RunEnd(cursor + 1, Chars \ {"quote"}) IN
     /\ current_line' =
          current_line + Cardinality({p \in cursor .. q - 1 : contents[p] = "nl"})
     /\ MoveTo(q + 1)
     /\ IF q > Len(contents)
        THEN AddLexError(q)
        ELSE AddToken("string", q + 1) /\ UNCHANGED error_count
  /\ UNCHANGED <<contents, lexing, calls>>

\* a string goes on over lines; without its closing quote it is an error, and
\* all the rest of the source is part of it
LexString ==
  /\ Begins({"quote"})
  /\ LET q == RunEnd(cursor + 1, Chars \ {"quote"}) IN
     /\ current_line' =
          current_line + Cardinality({p \in cursor .. q - 1 : contents[p] = "nl"})
     /\ IF q > Len(contents)
        THEN MoveTo(q) /\ AddLexError(q)
        ELSE MoveTo(q + 1) /\ AddToken("string", q + 1) /\ UNCHANGED error_count
  /\ UNCHANGED <<contents, lexing, calls>>

\* may the number of the characters from .. to - 1 be too large or too small?
MayBeHuge(from, to) ==
  LET d == RunEnd(from, Digits) IN d - from > MaxDigits \/ to - d > MaxDigits + 1

\* Mutant: a dot after a number is part of it.
MutantLexNumber ==
  /\ Begins(Digits)
  /\ UNCHANGED current_line
  /\ LET d == RunEnd(cursor, Digits)
         q == IF IsAt(d, ".") THEN RunEnd(d + 1, Digits) ELSE d
     IN /\ MoveTo(q)
        /\ AddToken("number", q) \/ (MayBeHuge(cursor, q) /\ UNCHANGED tokens)
  /\ UNCHANGED <<contents, error_count, lexing, calls>>

\* lex_number; a number that from_chars cannot represent leaves no token
LexNumber ==
  /\ Begins(Digits)
  /\ UNCHANGED current_line
  /\ LET d == RunEnd(cursor, Digits)
         q == IF IsAt(d, ".") /\ \E c \in Digits : IsAt(d + 1, c)
              THEN RunEnd(d + 1, Digits) ELSE d
     IN /\ MoveTo(q)
        /\ AddToken("number", q) \/ (MayBeHuge(cursor, q) /\ UNCHANGED tokens)
  /\ UNCHANGED <<contents, error_count, lexing, calls>>

\* lex_identifier; a word's characters after the first may be backticks
LexWord ==
  /\ Begins(Letters \cup {"_"})
  /\ UNCHANGED current_line
  /\ LET q == RunEnd(cursor, Letters \cup Digits \cup {"_", "backtick"}) IN
     /\ MoveTo(q)
     /\ AddToken(IF SubSeq(contents, cursor, q - 1) \in Keywords THEN "keyword" ELSE "identifier", q)
  /\ UNCHANGED <<contents, error_count, lexing, calls>>

\* Mutant: an unexpected character is passed over.
MutantLexUnexpected ==
  /\ Begins(Unexpected)
  /\ MoveTo(cursor + 1)
  /\ UNCHANGED <<contents, current_line, tokens, error_count, lexing, calls>>

\* Mutant: the error is counted and leaves no token.
MutantLexUnexpectedCounted ==
  /\ Begins(Unexpected)
  /\ MoveTo(cursor + 1)
  /\ UNCHANGED <<contents, current_line, tokens, lexing, calls>>
  /\ error_count' = error_count + 1

LexUnexpected ==
  /\ Begins(Unexpected)
  /\ MoveTo(cursor + 1)
  /\ UNCHANGED current_line
  /\ AddLexError(cursor + 1)
  /\ UNCHANGED <<contents, lexing, calls>>

-----------------------------------------------------------------------------
(* load and lex.                                                            *)

Init ==
  /\ contents = <<>>
  /\ cursor = 1 /\ current_line = 1
  /\ tokens = <<>> /\ error_count = 0
  /\ lexing = FALSE /\ calls = 0

\* load(path) and load(istream) of an empty lexer; only the second clears the
\* tokens that an empty source before it has left
Load(stream) ==
  /\ ~ lexing /\ calls < MaxCalls
  /\ contents = <<>>
  /\ calls' = calls + 1
  /\ contents' \in Sources
  /\ tokens' = IF stream THEN <<>> ELSE tokens
  /\ UNCHANGED <<cursor, current_line, error_count, lexing>>

\* AlreadyExistsError
LoadAgain ==
  /\ ~ lexing /\ calls < MaxCalls
  /\ contents # <<>>
  /\ calls' = calls + 1
  /\ UNCHANGED <<contents, cursor, current_line, tokens, error_count, lexing>>

Lex ==
  /\ ~ lexing /\ calls < MaxCalls
  /\ calls' = calls + 1
  /\ lexing' = TRUE
  /\ UNCHANGED <<contents, cursor, current_line, tokens, error_count>>

\* Mutant: the next call of lex() begins again.
MutantEndLex ==
  /\ lexing /\ AtEnd
  /\ lexing' = FALSE
  /\ cursor' = 1
  /\ tokens' = Append(tokens, Token("kEndOfFile", cursor, cursor, current_line))
  /\ UNCHANGED <<contents, current_line, error_count, calls>>

\* the loop of lex() ends
EndLex ==
  /\ lexing /\ AtEnd
  /\ lexing' = FALSE
  /\ tokens' = Append(tokens, Token("kEndOfFile", cursor, cursor, current_line))
  /\ UNCHANGED <<contents, cursor, current_line, error_count, calls>>

NextToken ==
  \/ LexSingle \/ LexPairing \/ LexSlash \/ SkipSpace \/ LexString \/ LexNumber \/ LexWord
  \/ LexUnexpected

Next ==
  \/ \E stream \in BOOLEAN : Load(stream)
  \/ LoadAgain \/ Lex \/ NextToken \/ EndLex

Spec == Init /\ [][Next]_vars

-----------------------------------------------------------------------------
\* Type invariant.
TypeOK ==
  /\ contents \in Seq(Chars)
  /\ cursor \in 1 .. Len(contents) + 1
  /\ current_line \in 1 .. Len(contents) + 1
  /\ tokens \in Seq([type : Types, from : 1 .. Len(contents) + 1,
                      to : 1 .. Len(contents) + 1, line : 1 .. Len(contents) + 1])
  /\ error_count \in 0 .. Len(contents)
  /\ lexing \in BOOLEAN
  /\ calls \in 0 .. MaxCalls

\* Tokens are in the order of the source, none is empty but the end of file, and
\* none overlaps another or what is still to be lexed: each next_token starts
\* where the last one stopped, in later calls of lex() too.
TokensInOrder ==
  \A j \in 1 .. Len(tokens) :
    /\ tokens[j].to <= cursor
    /\ tokens[j].from < tokens[j].to \/ tokens[j].type = "kEndOfFile"
    /\ \A i \in 1 .. j - 1 : tokens[i].to <= tokens[j].from

\* ok() tells the driver of every error: each that was counted has its token.
ErrorsCounted ==
  error_count = Cardinality({i \in 1 .. Len(tokens) : tokens[i].type = "kLexError"})

InToken(p) == \E i \in 1 .. Len(tokens) : p \in tokens[i].from .. tokens[i].to - 1
InComment(p) ==
  \E s \in 1 .. p :
    /\ IsAt(s, "/") /\ IsAt(s + 1, "/") /\ ~ InToken(s)
    /\ \A q \in s .. p : contents[q] # "nl"

\* The line of a token is that of its last character, in strings over several
\* lines and after comments.  "\n" ends a line wherever it is; "\v" and "\f" do
\* only where they are neither in a string nor in a comment.
LinesCounted ==
  \A i \in 1 .. Len(tokens) :
    tokens[i].line =
      1 + Cardinality({p \in 1 .. tokens[i].to - 1 :
                         \/ contents[p] = "nl"
                         \/ contents[p] \in Newlines /\ ~ InToken(p) /\ ~ InComment(p)})
=============================================================================
