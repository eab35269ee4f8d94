---------------------------- MODULE GrammarLexer ----------------------------
(***************************************************************************)
(* The matcher of module Matcher running the automata and actions of       *)
(* module MetaLexer: the lexer of grammar files, neoast_lexer_next of      *)
(* src/src/codegen/bootstrap/bootstrap.c.  What its actions rely on, and   *)
(* what the stack of lexer states and the brace buffer keep to.            *)
(***************************************************************************)
EXTENDS MetaLexer, Matcher

\* The rules whose action the switch of a lexer state has a case for.
RulesOf == [LEX_STATE_DEFAULT |-> 1..24, S_LL_RULES |-> 1..8,
            S_LL_STATE |-> 1..6, S_GG_RULES |-> 1..10,
            S_MATCH_BRACE |-> 1..8, S_COMMENT |-> 1..3]

\* An automaton goes to its own states, over characters of the text only,
\* accepts one of the rules and leaves indentation alone.
Serves(p, rules) ==
    /\ p.start \in DOMAIN p.edge
    /\ \A s \in DOMAIN p.edge :
         /\ \A c \in DOMAIN p.edge[s] : p.edge[s][c] \in DOMAIN p.edge
         /\ "eof" \notin DOMAIN p.edge[s]
         /\ p.accept[s] \in rules \cup {0}
         /\ p.meta[s] = <<>> /\ p.dent[s] = "none"

\* The six automata of the generated lexer fit the six switches.
ASSUME PatternAssumption ==
    /\ DOMAIN MetaPattern = DOMAIN RulesOf
    /\ \A s \in DOMAIN RulesOf : Serves(MetaPattern[s], RulesOf[s])

-----------------------------------------------------------------------------

\* A comment or an action is left for the lexer state it was found in, and
\* the sections of a grammar file do not nest: a stack is one of these, with
\* an action and a comment at most on top.
Sections == {<<"LEX_STATE_DEFAULT">>,
             <<"LEX_STATE_DEFAULT", "S_LL_RULES">>,
             <<"LEX_STATE_DEFAULT", "S_LL_RULES", "S_LL_STATE">>,
             <<"LEX_STATE_DEFAULT", "S_GG_RULES">>}
Inside   == {<<>>, <<"S_MATCH_BRACE">>, <<"S_COMMENT">>,
             <<"S_MATCH_BRACE", "S_COMMENT">>}

SectionsDoNotNest == \E s \in Sections, t \in Inside : user.stack = s \o t

\* The text of an action and its terminator have room, as long as no brace is
\* nested in it and no piece is longer than the buffer: those two are added
\* without enough room being made (README, known gaps).
InBrace == "S_MATCH_BRACE" \in {user.stack[i] : i \in DOMAIN user.stack}

BraceHasRoom ==
    InBrace => /\ user.counter > 0
               /\ ~user.unchecked => Len(user.held) < user.size
=============================================================================
