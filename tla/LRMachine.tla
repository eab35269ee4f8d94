----------------------------- MODULE LRMachine -----------------------------
(***************************************************************************)
(* What the runtime promises to a grammar: the textbook LR machine, whose  *)
(* stack holds the value of each symbol.  `$1 .. $n' of an action are the  *)
(* values of the symbols the rule replaces, a rejected parse keeps         *)
(* nothing, and an accepted parse returns the value of the one symbol that *)
(* is left.  There are no slots, no moves and no failed assertions here.   *)
(***************************************************************************)
EXTENDS Integers, Sequences

CONSTANTS TokenN, ActionTokenN, Table, Rules, ActionRules,
          Leaf(_, _), Node(_, _), MaxLexed, MaxParses

EOF     == 0
LexFail == -1
Actions == 0 .. ActionTokenN - 1

VARIABLES
  status,      \* "idle", "parsing", "accepted" or "rejected"
  symbols,     \* the stack: each symbol with its state and its value
  tok,         \* the lookahead
  value,       \* the value of the lookahead, <<>> when it has none
  result,      \* the value of the last accepted parse
  lexed,       \* calls of the lexer in this parse
  parses

vars == <<status, symbols, tok, value, result, lexed, parses>>

\* The state the automaton is in with stack s.
StateOf(s) == IF s = <<>> THEN 0 ELSE s[Len(s)].state
Entry      == Table[StateOf(symbols)][tok]

Init ==
  /\ status = "idle" /\ symbols = <<>> /\ tok = EOF
  /\ value = <<>> /\ result = <<>> /\ lexed = 0 /\ parses = 0

Lex(p, n) ==
  \E t \in Actions \cup {LexFail} :
    /\ n < MaxLexed \/ t \in {EOF, LexFail}
    /\ tok' = t
    /\ value' = IF t \in {EOF, LexFail} THEN <<>> ELSE <<Leaf(p, n)>>
    /\ lexed' = n

Start ==
  /\ status \in {"idle", "accepted", "rejected"}
  /\ parses < MaxParses
  /\ parses' = parses + 1
  /\ status' = "parsing"
  /\ symbols' = <<>> /\ result' = <<>>
  /\ Lex(parses + 1, 1)

Shift ==
  /\ status = "parsing" /\ tok # LexFail /\ Entry.op = "shift"
  /\ symbols' = Append(symbols,
                       [token |-> tok, state |-> Entry.arg, val |-> value[1]])
  /\ Lex(parses, lexed + 1)
  /\ UNCHANGED <<status, result, parses>>

\* A rule without an action passes its first value on.
Reduce ==
  /\ status = "parsing" /\ tok # LexFail /\ Entry.op = "reduce"
  /\ LET rule == Rules[Entry.arg]
         n    == rule.tok_n
         rest == SubSeq(symbols, 1, Len(symbols) - n)
         args == [k \in 1 .. n |-> symbols[Len(rest) + k].val]
     IN /\ n <= Len(symbols)
        /\ symbols' = Append(rest,
             [token |-> rule.token,
              state |-> Table[StateOf(rest)][rule.token].arg,
              val   |-> IF Entry.arg \in ActionRules
                        THEN Node(Entry.arg, args)
                        ELSE args[1]])
  /\ UNCHANGED <<status, tok, value, result, lexed, parses>>

Accept ==
  /\ status = "parsing" /\ tok # LexFail /\ Entry.op = "accept"
  /\ status' = "accepted"
  /\ result' = <<symbols[Len(symbols)].val>>
  /\ symbols' = <<>> /\ value' = <<>>
  /\ UNCHANGED <<tok, lexed, parses>>

Reject ==
  /\ status = "parsing"
  /\ tok = LexFail \/ Entry.op = "error"
  /\ status' = "rejected"
  /\ symbols' = <<>> /\ value' = <<>>
  /\ UNCHANGED <<tok, result, lexed, parses>>

Next == Start \/ Shift \/ Reduce \/ Accept \/ Reject

Spec == Init /\ [][Next]_vars
=============================================================================
