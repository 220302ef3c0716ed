------------------------------ MODULE MCPipeline ------------------------------
(***************************************************************************)
(* Small instances of Pipeline: texts put together from pieces.             *)
(***************************************************************************)
EXTENDS Pipeline, Printer, SequencesExt

Words == {<<"o">>, <<"0">>, <<"0", "0", "0">>, <<"quote">>, <<"?">>}
Space == {<<" ">>, <<"nl">>, <<"/", "/">>}
Marks == {<<"+">>, <<"=">>, <<";">>, <<"(">>, <<")">>}

\* texts of at most n of these pieces
Rows(n, pieces) == {FlattenSeq(row) : row \in UNION {[1 .. k -> pieces] : k \in 0 .. n}}

\* texts with one piece of each set, or as many of the first as there are
Ordered(sets) ==
  LET Begun[k \in 0 .. Len(sets)] ==
        IF k = 0 THEN {<<>>} ELSE {t \o p : t \in Begun[k - 1], p \in sets[k]}
  IN UNION {Begun[k] : k \in 0 .. Len(sets)}

Functions == Ordered(<<
  {<<"f", "u", "n">>, <<"f", "u", "n", " ">>},
  {<<"o">>, <<"o", "r">>, <<"?">>, <<"0">>, <<"0", "0", "0">>, <<"quote">>},
  {<<"(">>, <<"{">>}, {<<")">>, <<"o", ")">>, <<"0", ",">>, <<"?", ")">>}, {<<"{">>, <<";">>},
  {<<"}">>, <<"?", "}">>, <<"o", ";", "}">>}, {<<>>, <<"?">>, <<"o", ";">>}>>)

\* calls of a name, of what a bracket ends, and of what is in the brackets
Callings == Ordered(<<
  {<<"o">>, <<"o", "(", ")">>, <<"(", "o", ")">>, <<"(", "o", "=", "o", ")">>, <<"o", "+", "o">>},
  {<<>>, <<" ">>, <<"+">>, <<";">>},
  {<<"(", ")">>, <<"(", "0", ")">>, <<"(", "o", "=", "o", ")">>}, {<<>>, <<";">>}>>)

AllTexts == Rows(3, Words \cup Space \cup Marks)
              \cup Rows(5, {<<"o">>, <<"+">>, <<";">>, <<"?">>})
              \cup Functions \cup Callings
=============================================================================
