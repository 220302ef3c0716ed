------------------------------- MODULE MCLexer -------------------------------
(***************************************************************************)
(* Small instances of Lexer, whose tokens are compared with LexicalRules.   *)
(***************************************************************************)
EXTENDS LexicalRules

Words == {"o", "r", "backtick", "0", "?"}
Symbols == {"=", "!", "(", "_", " "}
Numbers == {"0", ".", "o", "/", "nl"}
Texts == {"quote", "nl", "vt", "/", "o"}
Alphabets == {Words, Symbols, Numbers, Texts}

\* bound: characters of a source
MaxLength == 5

AllSources == UNION {[1 .. n -> alphabet] : n \in 0 .. MaxLength, alphabet \in Alphabets}
=============================================================================
