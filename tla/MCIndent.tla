------------------------------ MODULE MCIndent ------------------------------
(***************************************************************************)
(* The lexer with indents and dedents on every text of up to a few lines.  *)
(***************************************************************************)
EXTENDS IndentLexer

MCPattern == [margin |-> IndentPattern]

CONSTANTS Lines, MaxLines

\* Texts of up to MaxLines lines.
RECURSIVE TextsOf(_)
TextsOf(n) == IF n = 0 THEN {<<>>}
              ELSE {l \o <<"nl">> \o t : l \in Lines, t \in TextsOf(n - 1)}

MCTexts == UNION {TextsOf(n) : n \in 1..MaxLines}
MCLines == {<<"a">>, <<"sp", "a">>, <<"tab", "a">>, <<"sp", "tab", "a", "a">>,
            <<"sp", "sp", "sp", "a">>, <<>>}
=============================================================================
