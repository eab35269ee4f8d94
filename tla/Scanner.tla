------------------------------ MODULE Scanner ------------------------------
(***************************************************************************)
(* What a generated lexer promises, without its buffer: a cursor over the  *)
(* whole text that cuts off, again and again, the longest prefix the       *)
(* pattern of the current lexer state accepts, says at which line and      *)
(* column it found it, and runs the action of the rule.  Module Matcher    *)
(* implements this with a buffer that is filled in pieces, shifted and     *)
(* enlarged (src/src/lexer/matcher.c).                                     *)
(*                                                                         *)
(* A pattern is the automaton the generator writes for a lexer state:      *)
(* start state, accepted rule of every state (0: none) and edges.  What    *)
(* the actions of a lexer work on, the stack of lexer states included, is  *)
(* one value, `user'.                                                      *)
(***************************************************************************)
EXTENDS Naturals, Sequences, FiniteSets

CONSTANTS Texts,         \* the inputs to choose from, sequences of characters
          Pattern,       \* lexer state -> [start, accept, edge]
          FirstUser,     \* `user' of a new lexer
          StateOf(_),    \* the lexer state on top of the stack of `user'
          Act(_, _, _),  \* `user' after the action of a rule on a text
          TabSize        \* opt_.T, the distance of the tab stops

VARIABLES text,       \* the whole input
          at,         \* how much of it the tokens have consumed
          user,       \* what the actions work on
          token       \* the last token, or how the lexer ended

vars == <<text, at, user, token>>

NoToken == [kind |-> "none", rule |-> 0, text |-> <<>>, line |-> 0, col |-> 0]
Lexing  == token.kind \in {"none", "rule"}

\* The state of automaton p after n characters of t behind a; the empty set
\* where it does not get that far.
Reached(p, t, a) ==
    LET reach[n \in 0..Len(t) - a] ==
          IF n = 0 THEN {p.start}
          ELSE {p.edge[s][t[a + n]] :
                  s \in {q \in reach[n - 1] : t[a + n] \in DOMAIN p.edge[q]}}
    IN  reach

\* The lengths of the non-empty prefixes of t behind a that p accepts.
Accepted(p, t, a) ==
    LET reach == Reached(p, t, a)
    IN  {n \in 1..Len(t) - a : \E s \in reach[n] : p.accept[s] > 0}

Longest(p, t, a) == CHOOSE n \in Accepted(p, t, a) :
                      \A k \in Accepted(p, t, a) : k <= n

RuleOf(p, t, a, n) == p.accept[CHOOSE s \in Reached(p, t, a)[n] : TRUE]

\* Line, and column counted from 0 in UTF-8 characters, behind position a.
LineAt(t, a) == 1 + Cardinality({i \in 1..a : t[i] = "nl"})

Columns(t) ==
    LET col[i \in 0..Len(t)] ==
          CASE i = 0         -> 0
            [] t[i] = "nl"   -> 0
            [] t[i] = "tab"  -> (col[i - 1] \div TabSize + 1) * TabSize
            [] t[i] = "cont" -> col[i - 1]
            [] OTHER         -> col[i - 1] + 1
    IN  col
ColumnAt(t, a) == Columns(t)[a]

Init ==
    /\ text \in Texts
    /\ at = 0
    /\ user = FirstUser
    /\ token = NoToken

Current == Pattern[StateOf(user)]

Match ==
    /\ Lexing
    /\ Accepted(Current, text, at) # {}
    /\ LET n    == Longest(Current, text, at)
           rule == RuleOf(Current, text, at, n)
           part == SubSeq(text, at + 1, at + n)
       IN  /\ token' = [kind |-> "rule", rule |-> rule, text |-> part,
                        line |-> LineAt(text, at), col |-> ColumnAt(text, at)]
           /\ user' = Act(user, rule, part)
           /\ at' = at + n
    /\ UNCHANGED text

\* Text is left and no rule of the lexer state matches it.
Fail ==
    /\ Lexing
    /\ at < Len(text)
    /\ Accepted(Current, text, at) = {}
    /\ token' = [kind |-> "error", rule |-> 0, text |-> <<>>,
                 line |-> LineAt(text, at), col |-> ColumnAt(text, at)]
    /\ UNCHANGED <<text, at, user>>

Finish ==
    /\ Lexing
    /\ at = Len(text)
    /\ token' = [token EXCEPT !.kind = "end"]
    /\ UNCHANGED <<text, at, user>>

Next == Match \/ Fail \/ Finish

Spec == Init /\ [][Next]_vars
=============================================================================
