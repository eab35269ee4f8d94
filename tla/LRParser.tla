------------------------------ MODULE LRParser ------------------------------
(***************************************************************************)
(* The table driven parser of the C runtime: parser_parse_lr and           *)
(* g_lr_reduce (src/src/lr.c), on the buffers of src/src/parser.c.         *)
(*                                                                         *)
(* The runtime keeps no stack of values.  The parsing stack alternates     *)
(* states with indices ("slots") of two tables, token_table and            *)
(* value_table, and the lexer writes the lookahead straight into the slot  *)
(* that follows the last one in use.  A reduction writes its result over   *)
(* the first slot it pops and slides the lookahead down behind it.         *)
(***************************************************************************)
EXTENDS Integers, Sequences

CONSTANTS
  TokenN,         \* parser->token_n, terminals and nonterminals
  ActionTokenN,   \* parser->action_token_n, the terminals (0 is end of input)
  StateN,         \* rows of the parsing table
  Table,          \* parsing_table[state][token]
  Rules,          \* parser->grammar_rules without the augment rule
  ActionRules,    \* the rules that were given an action
  Destructors,    \* the tokens whose destructor is not NULL
  Leaf(_, _),     \* the value the lexer gives to the n-th token of a parse
  Node(_, _),     \* the value the action of a rule builds from its arguments
  Null,           \* the value of a zeroed slot
  Garbage,        \* the value of memory nobody has written
  MaxLexed,       \* bound: calls of the lexer in one parse
  MaxParses       \* bound: parses that use the same buffers

EOF      == 0
LexFail  == -1
Unknown  == -1          \* a position nobody has written
Tokens   == 0 .. TokenN - 1
Actions  == 0 .. ActionTokenN - 1
States   == 0 .. StateN - 1
Slots    == 0 .. MaxLexed - 1

\* A table word: the bit that is set in it and what TOK_MASK leaves of it.
Entries ==
       [op : {"shift"},  arg : States]
  \cup [op : {"reduce"}, arg : DOMAIN Rules]
  \cup [op : {"error", "accept"}, arg : {0}]

ASSUME SizeAssumption ==
  /\ TokenN \in Nat /\ ActionTokenN \in Nat /\ StateN \in Nat
  /\ 0 < ActionTokenN /\ ActionTokenN < TokenN /\ 0 < StateN
  /\ MaxLexed \in Nat \ {0} /\ MaxParses \in Nat

ASSUME RuleAssumption ==
  /\ Rules \in Seq([token : ActionTokenN .. TokenN - 1, tok_n : Nat])
  /\ ActionRules \subseteq DOMAIN Rules
  /\ Destructors \subseteq Tokens \ {EOF}

\* End of input stands in no production, so no state shifts it, and the
\* columns of nonterminals hold gotos.
ASSUME TableAssumption ==
  /\ Table \in [States -> [Tokens -> Entries]]
  /\ \A s \in States : Table[s][EOF].op # "shift"
  /\ \A s \in States, t \in ActionTokenN .. TokenN - 1 :
       Table[s][t].op \in {"shift", "error"}

VARIABLES
  status,         \* where the parse is: see TypeOK
  stack,          \* parsing_stack->data[0 .. pos - 1]
  token_table,
  value_table,    \* the values, each with the position it was given
  i,              \* slot of the lookahead (lex_val points to the same slot)
  tok,            \* the lookahead, LexFail when the lexer failed
  prev_tok,
  current_state,
  dest_idx,       \* slot of the last reduction
  ret,            \* what parser_parse_lr returned
  report,         \* what the last syntax error told parser_error
  input,          \* history: the tokens ll_next returned in this parse
  freed,          \* history: the values handed to destructors in this parse
  parses          \* history: the parses started

vars == <<status, stack, token_table, value_table, i, tok, prev_tok,
          current_state, dest_idx, ret, report, input, freed, parses>>

Positions == Unknown .. MaxLexed
IsCell(c) == c = [val |-> c.val, pos |-> c.pos] /\ c.pos \in Positions

TypeOK ==
  /\ status \in {"idle", "parsing", "unwinding", "accepted", "rejected"}
  /\ stack \in Seq(Nat)
  /\ token_table \in [Slots -> Tokens \cup {LexFail}]
  /\ DOMAIN value_table = Slots
  /\ \A s \in Slots : IsCell(value_table[s])
  /\ i \in Slots
  /\ tok \in Actions \cup {LexFail}
  /\ prev_tok \in Tokens
  /\ current_state \in States
  /\ dest_idx \in Slots
  /\ ret \in Slots \cup {-1}
  /\ input \in Seq(Actions \cup {LexFail})
  /\ Len(input) <= MaxLexed
  /\ parses \in 0 .. MaxParses

(***************************************************************************)
(* The buffers as parser_allocate_buffers leaves them: malloc fills        *)
(* neither table; the tokens may be chosen, because every step that reads  *)
(* token_table reads a slot that its parse has written.                    *)
(***************************************************************************)
Init ==
  /\ status = "idle"
  /\ stack = <<>>
  /\ token_table = [s \in Slots |-> EOF]
  /\ value_table = [s \in Slots |-> [val |-> Garbage, pos |-> Unknown]]
  /\ i = 0 /\ tok = EOF /\ prev_tok = 0 /\ current_state = 0 /\ dest_idx = 0
  /\ ret = -1
  /\ report = <<>>
  /\ input = <<>> /\ freed = <<>> /\ parses = 0

(***************************************************************************)
(* The n-th call of ll_next in parse p, which returns t and fills `slot'.  *)
(* At end of input the generated lexer writes no value, and it writes the  *)
(* position only if there was still text to scan.  The last call the bound *)
(* allows returns end of input or an error.                                *)
(***************************************************************************)
CallLexer(p, n, slot, t) ==
  /\ n < MaxLexed \/ t \in {EOF, LexFail}
  /\ tok' = t
  /\ token_table' = [token_table EXCEPT ![slot] = t]
  /\ \/ /\ t \notin {EOF, LexFail}
        /\ value_table' = [value_table EXCEPT
                             ![slot] = [val |-> Leaf(p, n), pos |-> n]]
     \/ /\ t \in {EOF, LexFail}
        /\ \/ UNCHANGED value_table
           \/ value_table' = [value_table EXCEPT
                  ![slot] = [val |-> value_table[slot].val, pos |-> n]]

\* prefix_parse_input: parser_reset_buffers, then the first lines of
\* parser_parse_lr.
Start ==
  /\ status \in {"idle", "accepted", "rejected"}
  /\ parses < MaxParses
  /\ parses' = parses + 1
  /\ status' = "parsing"
  /\ stack' = <<0>>
  /\ current_state' = 0 /\ i' = 0 /\ prev_tok' = 0 /\ dest_idx' = 0
  /\ \E t \in Actions \cup {LexFail} :
       /\ CallLexer(parses + 1, 1, 0, t)
       /\ input' = <<t>>
  /\ ret' = -1 /\ report' = <<>> /\ freed' = <<>>

Entry == Table[current_state][tok]
Parsing(op) == status = "parsing" /\ tok # LexFail /\ Entry.op = op

Shift ==
  /\ Parsing("shift")
  /\ current_state' = Entry.arg
  /\ stack' = stack \o <<i, Entry.arg>>
  /\ prev_tok' = tok
  /\ i' = i + 1
  /\ \E t \in Actions \cup {LexFail} :
       /\ CallLexer(parses, Len(input) + 1, i + 1, t)
       /\ input' = Append(input, t)
  /\ UNCHANGED <<status, dest_idx, ret, report, freed, parses>>

(***************************************************************************)
(* g_lr_reduce.  The symbols it pops occupy the end of the stack; a rule   *)
(* without symbols pops nothing and takes the slot of the last reduction   *)
(* for its own.                                                            *)
(***************************************************************************)
Rule      == Rules[Entry.arg]
ArgCount  == Rule.tok_n
\* Mutant: one word popped for a symbol instead of two.
RemainingHalf == SubSeq(stack, 1, Len(stack) - ArgCount)
Remaining == SubSeq(stack, 1, Len(stack) - 2 * ArgCount)
ArgSlot(k) == stack[Len(Remaining) + 2 * k - 1]
\* Mutant: the arguments in the order they are popped.
ArgsAsPopped == [k \in 1 .. ArgCount |-> value_table[ArgSlot(ArgCount + 1 - k)]]
Args      == [k \in 1 .. ArgCount |-> value_table[ArgSlot(k)]]
\* Mutant: the slot popped first instead of the one popped last.
DestSlotOfLast == IF ArgCount = 0 THEN dest_idx ELSE ArgSlot(ArgCount)
DestSlot  == IF ArgCount = 0 THEN dest_idx ELSE ArgSlot(1)

\* What parser_reduce leaves in dest.  A rule with an action fills the value
\* only; the default copies the first argument whole.  g_lr_reduce copies dest
\* to the table before it completes the position in dest.
Reduced ==
  CASE Entry.arg \in ActionRules ->
         [val |-> Node(Entry.arg, [k \in 1 .. ArgCount |-> Args[k].val]),
          pos |-> Unknown]
    [] Entry.arg \notin ActionRules /\ ArgCount > 0 -> Args[1]
    [] OTHER -> [val |-> Garbage, pos |-> Unknown]

\* Mutant: the goto of the state in front of the reduction.
GotoOfCurrent == Table[current_state][Rule.token].arg

Goto == Table[Remaining[Len(Remaining)]][Rule.token].arg

\* The asserts of g_lr_reduce and of its caller.  A failed assert calls
\* abort(): no step follows.
TokenIsAction  == tok < ActionTokenN
StackHoldsArgs == Len(stack) % 2 = 1 /\ Len(stack) > 2 * ArgCount
LookaheadIntact ==
  i # DestSlot => [token_table EXCEPT ![DestSlot] = Rule.token][i] = tok

\* The lookahead slides behind the result unless the result is in its slot.
Reduce ==
  /\ Parsing("reduce")
  /\ TokenIsAction /\ StackHoldsArgs /\ LookaheadIntact
  /\ LET values == [value_table EXCEPT ![DestSlot] = Reduced]
         tokens == [token_table EXCEPT ![DestSlot] = Rule.token]
     IN IF i = DestSlot
        THEN /\ value_table' = values
             /\ token_table' = tokens
             /\ i' = i
        ELSE /\ value_table' = [values EXCEPT ![DestSlot + 1] = values[i]]
             /\ token_table' = [tokens EXCEPT ![DestSlot + 1] = tokens[i]]
             /\ i' = DestSlot + 1
  /\ stack' = Remaining \o <<DestSlot, Goto>>
  /\ current_state' = Goto
  /\ dest_idx' = DestSlot
  /\ prev_tok' = Rule.token
  /\ UNCHANGED <<status, tok, ret, report, input, freed, parses>>

\* Mutant: the slot of the lookahead is returned.
AcceptLookahead ==
  /\ Parsing("accept")
  /\ status' = "accepted"
  /\ ret' = i
  /\ UNCHANGED <<stack, token_table, value_table, i, tok, prev_tok,
                 current_state, dest_idx, report, input, freed, parses>>

Accept ==
  /\ Parsing("accept")
  /\ status' = "accepted"
  /\ ret' = dest_idx
  /\ UNCHANGED <<stack, token_table, value_table, i, tok, prev_tok,
                 current_state, dest_idx, report, input, freed, parses>>

\* run_destructor: the destructor gets the value, then the slot is zeroed.
RunDestructor(slot) ==
  IF token_table[slot] \in Destructors
  THEN /\ freed' = Append(freed, value_table[slot].val)
       /\ value_table' = [value_table EXCEPT
                            ![slot] = [val |-> Null, pos |-> 0]]
  ELSE UNCHANGED <<freed, value_table>>

\* The lexer failed: only the symbols on the stack are freed.
LexError ==
  /\ status = "parsing" /\ tok = LexFail
  /\ status' = "unwinding"
  /\ UNCHANGED <<stack, token_table, value_table, i, tok, prev_tok,
                 current_state, dest_idx, ret, report, input, freed, parses>>

\* Mutant: only the stack is freed, as after an error of the lexer.
SyntaxErrorKeepsLookahead ==
  /\ Parsing("error")
  /\ report' = [tok |-> tok, prev |-> prev_tok, pos |-> value_table[i].pos,
                expected |-> {t \in Tokens :
                                Table[current_state][t].op # "error"}]
  /\ status' = "unwinding"
  /\ UNCHANGED <<stack, token_table, value_table, i, tok, prev_tok,
                 current_state, dest_idx, ret, input, freed, parses>>

\* lr_parse_error reports every column that is not an error and then the
\* lookahead is freed, before the stack.
SyntaxError ==
  /\ Parsing("error")
  /\ report' = [tok |-> tok, prev |-> prev_tok, pos |-> value_table[i].pos,
                expected |-> {t \in Tokens :
                                Table[current_state][t].op # "error"}]
  /\ RunDestructor(i)
  /\ status' = "unwinding"
  /\ UNCHANGED <<stack, token_table, i, tok, prev_tok, current_state,
                 dest_idx, ret, input, parses>>

\* One turn of the loop of parser_run_destructors.
Unwind ==
  /\ status = "unwinding" /\ Len(stack) > 1
  /\ RunDestructor(stack[Len(stack) - 1])
  /\ stack' = SubSeq(stack, 1, Len(stack) - 2)
  /\ UNCHANGED <<status, token_table, i, tok, prev_tok, current_state,
                 dest_idx, ret, report, input, parses>>

\* Mutant: the loop waits for an empty stack, but its last word is a state.
RejectOnEmptyStack ==
  /\ status = "unwinding" /\ Len(stack) = 0
  /\ status' = "rejected"
  /\ ret' = -1
  /\ UNCHANGED <<stack, token_table, value_table, i, tok, prev_tok,
                 current_state, dest_idx, report, input, freed, parses>>

Reject ==
  /\ status = "unwinding" /\ Len(stack) <= 1
  /\ status' = "rejected"
  /\ ret' = -1
  /\ UNCHANGED <<stack, token_table, value_table, i, tok, prev_tok,
                 current_state, dest_idx, report, input, freed, parses>>

Step == \/ Shift \/ Reduce \/ Accept
        \/ LexError \/ SyntaxError \/ Unwind \/ Reject

Next == Start \/ Step

Spec == Init /\ [][Next]_vars

\* Nothing in the loop waits: once a parse has begun it keeps stepping.
FairSpec == Spec /\ WF_vars(Step)

=============================================================================
