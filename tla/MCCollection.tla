---------------------------- MODULE MCCollection ----------------------------
(***************************************************************************)
(* P -> ( P ) | n    has states that differ in their lookaheads only, and  *)
(* one that moves to itself.                                               *)
(***************************************************************************)
EXTENDS Collection

Rule(token, grammar) == [token |-> token, grammar |-> grammar]
MCRules == <<Rule("AUGMENT", <<"P">>), Rule("P", <<"(", "P", ")">>),
             Rule("P", <<"n">>)>>
MCFirstOfs == [AUGMENT |-> {"(", "n"}, P |-> {"(", "n"}]

\* The closure as a least fixed point.
M == INSTANCE MCClosure WITH Kernels <- {}

First  == M!LeastClosed(AugmentVector)
Closed == {M!LeastClosed(I) : I \in M!Reachable({AugmentVector})}
GotoTable == [I \in Closed |->
                [s \in Moves(I) |-> M!LeastClosed(InitialItems(I, s))]]
GotoOf(I, s) == GotoTable[I][s]

\* The construction is that of the canonical LR(1) automaton: whatever the
\* order of the hash tables, each state that can be reached is found, each of
\* its transitions drawn once and to the right state, and the recursion ends.
Found == {states_[p] : p \in DOMAIN states_} \cup {First}
Edges == UNION {{<<states_[p], s, states_[dfa[p][s]]>> : s \in DOMAIN dfa[p]} :
                  p \in DOMAIN dfa}

A == INSTANCE Automaton WITH
       Start <- First, Symbols <- C!Symbols, Moves <- Moves, Goto <- GotoOf,
       found <- Found, edges <- Edges

ImplementsAutomaton == A!Spec
=============================================================================
