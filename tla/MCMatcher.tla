----------------------------- MODULE MCMatcher -----------------------------
(***************************************************************************)
(* The matcher with the lexer of grammar files on all short texts, and its *)
(* refinement of the cursor of module Scanner.                             *)
(***************************************************************************)
EXTENDS GrammarLexer

CONSTANTS Starts, Letters, MaxRest

\* Every text of up to MaxRest letters behind every start.
MCTexts == {s \o r : s \in Starts, r \in UNION {[1..n -> Letters] : n \in 0..MaxRest}}

MCStarts  == {<<>>, <<"=", "=">>, <<"%", "%">>, <<"{", "sp">>,
              <<"=", "=", "<", "a", ">", "{">>, <<"+", "a", "sp">>,
              <<"%", "%", "a", "%", "%">>, <<"=", "=", "nl", "=", "=">>}
MCLetters == {"{", "}", "/", "*", "q", "nl", "a", "bs"}

\* Comments in UTF-8.
HighLetters == {"/", "lead", "cont"}
=============================================================================
