--------------------------- MODULE LRParserProps ---------------------------
(***************************************************************************)
(* What LRParser is held to: the discipline of its slots, the asserts of   *)
(* the code, the values it hands on, and the machine of LRMachine, which   *)
(* it implements as long as no rule is empty.                              *)
(***************************************************************************)
EXTENDS LRParser, FiniteSets

Depth == (Len(stack) - 1) \div 2

(***************************************************************************)
(* "As rules reduce we reduce our footprint on the buffers" (lr.c): the    *)
(* k-th symbol on the stack lives in slot k - 1 and a lookahead that has a *)
(* value lives in the slot after the last symbol, so live values never     *)
(* share a slot and a parse needs one slot more than its stack is deep.    *)
(***************************************************************************)
SlotDiscipline ==
  status = "parsing" =>
    /\ \A k \in 1 .. Depth : stack[2 * k] = k - 1
    /\ tok > EOF => i = Depth

(***************************************************************************)
(* The asserts of g_lr_reduce and parser_parse_lr hold: the stack has what *)
(* a rule pops, the lookahead is a terminal, and its slot still holds it   *)
(* when it is moved (lr.c:282).                                            *)
(***************************************************************************)
AssertsHold ==
  Parsing("reduce") => TokenIsAction /\ StackHoldsArgs /\ LookaheadIntact

(***************************************************************************)
(* The values, when a value is the sequence of the tokens it was built     *)
(* from: the tokens m + 1 to n of parse p.  Of the tokens the lexer        *)
(* returned, the end of the input and an error have no value.              *)
(***************************************************************************)
Piece(p, m, n) == [k \in 1 .. n - m |-> <<p, m + k>>]
ValueCount == Cardinality({k \in DOMAIN input : input[k] > EOF})

(***************************************************************************)
(* The value parser_parse_lr returns was built from every token of the     *)
(* input, each used once and in order: no slot was overwritten while its   *)
(* value was still needed and none was read after it had been reused.      *)
(***************************************************************************)
AcceptedValueIsWholeInput ==
  status = "accepted" => value_table[ret].val = Piece(parses, 0, ValueCount)

(***************************************************************************)
(* %destructor: when a parse fails, every value the lexer and the actions  *)
(* made reaches a destructor, once: the lookahead first, then the stack    *)
(* from the top.  Each value ends where the one freed before it began, and *)
(* the last one begins with the first token.                               *)
(***************************************************************************)
FailureFreesEachValueOnce ==
  status = "rejected" =>
    /\ \A k \in DOMAIN freed : freed[k] # <<>>
    /\ LET left(k) == IF k = 0 THEN ValueCount ELSE freed[k][1][2] - 1
       IN /\ \A k \in DOMAIN freed :
               freed[k] = Piece(parses, left(k), left(k - 1))
          /\ left(Len(freed)) = 0

(***************************************************************************)
(* A parse ends: the loop leaves by one of its three returns.  No state    *)
(* waits for anything, so the only way not to end would be to reduce or to *)
(* unwind forever.                                                         *)
(***************************************************************************)
EveryParseEnds == status = "parsing" ~> status \in {"accepted", "rejected"}

(***************************************************************************)
(* "Copy the positional data of the first argument back to the             *)
(* destination" (lr.c:79): a reduction leaves its result the position of   *)
(* its first argument.                                                     *)
(***************************************************************************)
ResultHasFirstPosition ==
  [][Reduce /\ ArgCount > 0 =>
       value_table'[DestSlot].pos = Args[1].pos]_vars

(***************************************************************************)
(* What the theorems ask of a grammar and its table.  A state of an LR     *)
(* automaton that holds an item with the dot behind n symbols is reached   *)
(* over n symbols at least: `dots' is the largest such n.  The state that  *)
(* accepts is the one behind the start symbol, which no terminal leads to. *)
(***************************************************************************)
NoEmptyRule == \A r \in DOMAIN Rules : Rules[r].tok_n > 0

CountsDots(dots) ==
  /\ dots \in [DOMAIN Table -> Nat] /\ dots[0] = 0
  /\ \A s \in DOMAIN Table : \A t \in DOMAIN Table[s] :
       /\ Table[s][t].op = "shift"  => dots[Table[s][t].arg] <= dots[s] + 1
       /\ Table[s][t].op = "reduce" => Rules[Table[s][t].arg].tok_n <= dots[s]

ByGoto(s) ==
  s # 0 /\ \A q \in DOMAIN Table : \A t \in DOMAIN Table[q] :
             Table[q][t].op = "shift" /\ t < ActionTokenN => Table[q][t].arg # s

AcceptsByGoto ==
  \A s \in DOMAIN Table : \A t \in DOMAIN Table[s] :
    Table[s][t].op = "accept" => ByGoto(s)

(***************************************************************************)
(* What they ask of the values, to tell where each one goes: a leaf is its *)
(* token, an action joins its arguments, a rule without an action has the  *)
(* one symbol whose value it keeps, and every token has a destructor.      *)
(***************************************************************************)
IsCut(cut, n, upto) ==
  /\ cut \in [0 .. n -> 0 .. upto]
  /\ \A j, k \in 0 .. n : j < k => cut[j] < cut[k]

ValuesAreTokens ==
  /\ \A p \in 1 .. MaxParses, n \in 1 .. MaxLexed : Leaf(p, n) = Piece(p, n - 1, n)
  /\ \A r \in ActionRules, p \in 1 .. MaxParses :
       \A cut \in [0 .. Rules[r].tok_n -> 0 .. MaxLexed] :
         IsCut(cut, Rules[r].tok_n, MaxLexed) =>
           Node(r, [k \in 1 .. Rules[r].tok_n |-> Piece(p, cut[k - 1], cut[k])])
             = Piece(p, cut[0], cut[Rules[r].tok_n])
  /\ \A r \in DOMAIN Rules \ ActionRules : Rules[r].tok_n = 1

EveryTokenDestroyed == (DOMAIN Table[0]) \ {EOF} \subseteq Destructors

(***************************************************************************)
(* A symbol <<A, n>> of `items[s]': state s has an item of A with the dot  *)
(* behind n symbols, so n symbols further down there is a goto on A.       *)
(***************************************************************************)
HasItems(items) ==
  /\ items \in [DOMAIN Table -> SUBSET ((DOMAIN Table[0]) \X (Nat \ {0}))]
  /\ items[0] = {}
  /\ \A s \in DOMAIN Table : \A t \in DOMAIN Table[s] :
       /\ Table[s][t].op = "shift" =>
            \A w \in items[Table[s][t].arg] :
              IF w[2] = 1 THEN Table[s][w[1]].op = "shift"
                          ELSE <<w[1], w[2] - 1>> \in items[s]
       /\ Table[s][t].op = "reduce" =>
            <<Rules[Table[s][t].arg].token, Rules[Table[s][t].arg].tok_n>>
              \in items[s]

\* Nothing leads back to the first state, and only the first state leads to
\* the one that accepts, at the end of the input.
AcceptsAtEnd ==
  \A s \in DOMAIN Table : \A t \in DOMAIN Table[s] :
    /\ Table[s][t].op = "shift" => Table[s][t].arg # 0
    /\ Table[s][t].op = "accept" =>
         /\ t = EOF
         /\ \A q \in DOMAIN Table : \A u \in DOMAIN Table[q] :
              Table[q][u].op = "shift" /\ Table[q][u].arg = s => q = 0

(***************************************************************************)
(* The language of the parser's grammar.  Production 0 is the augment rule *)
(* and <<r, d>> an item of production r with the dot behind d symbols.     *)
(* words[t] are the words of token t and begun[<<r, d>>] those of the      *)
(* first d symbols of production r.  A word is derived if it is in every   *)
(* two families that are closed under the productions.                     *)
(***************************************************************************)
Terminals == Actions \ {EOF}
Text      == Seq(Terminals)
IsBodies(bodies) ==
  /\ bodies \in [0 .. Len(Rules) -> Seq((DOMAIN Table[0]) \ {EOF})]
  /\ Len(bodies[0]) = 1
  /\ \A r \in DOMAIN Rules : Len(bodies[r]) = Rules[r].tok_n
Items(bodies) ==
  {m \in (0 .. Len(Rules)) \X Nat : m[2] <= Len(bodies[m[1]])}

IsLanguage(bodies, words, begun) ==
  /\ \A t \in Terminals : <<t>> \in words[t]
  /\ \A r \in DOMAIN bodies : <<>> \in begun[<<r, 0>>]
  /\ \A r \in DOMAIN bodies : \A d \in DOMAIN bodies[r] :
       \A x \in begun[<<r, d - 1>>], y \in words[bodies[r][d]] :
         x \o y \in begun[<<r, d>>]
  /\ \A r \in DOMAIN Rules :
       begun[<<r, Rules[r].tok_n>>] \subseteq words[Rules[r].token]

Derives(bodies, m, w) ==
  \A words \in [Tokens -> SUBSET Text], begun \in [Items(bodies) -> SUBSET Text] :
    IsLanguage(bodies, words, begun) => w \in begun[m]
DerivesToken(bodies, t, w) ==
  \A words \in [Tokens -> SUBSET Text], begun \in [Items(bodies) -> SUBSET Text] :
    IsLanguage(bodies, words, begun) => w \in words[t]
Sentence(bodies, w) == Derives(bodies, <<0, 1>>, w)

Between(w, m, n) == [k \in 1 .. n - m |-> w[m + k]]

(***************************************************************************)
(* What was lexed in front of the lookahead always begins a sentence, when *)
(* an error is reported too: the parser never reads past the first token   *)
(* that cannot follow.  What it accepts is a sentence.                     *)
(***************************************************************************)
ReadsSentences(bodies) ==
  LET consumed == Between(input, 0, Len(input) - 1)
  IN  /\ status # "idle" =>
           \E v \in Text : Sentence(bodies, consumed \o v)
      /\ status = "accepted" => Sentence(bodies, consumed)

(***************************************************************************)
(* What that asks of the table: its states hold items of the productions,  *)
(* with the dot at the begin only where another item calls for one.        *)
(***************************************************************************)
HasProductions(items, bodies) ==
  /\ items \in [DOMAIN Table -> SUBSET Items(bodies)]
  /\ \A s \in DOMAIN Table :
       /\ items[s] # {}
       /\ <<0, 0>> \in items[s] => s = 0
       /\ s = 0 => \A m \in items[s] : m[2] = 0
       /\ \A m \in items[s] : m[1] > 0 /\ m[2] = 0 =>
            Table[s][Rules[m[1]].token].op = "shift"
       /\ \A t \in DOMAIN Table[s] :
            /\ Table[s][t].op = "shift" =>
                 /\ Table[s][t].arg # 0
                 /\ \A m \in items[Table[s][t].arg] : m[2] > 0 =>
                      /\ bodies[m[1]][m[2]] = t
                      /\ <<m[1], m[2] - 1>> \in items[s]
            /\ Table[s][t].op = "reduce" =>
                 LET r == Table[s][t].arg IN <<r, Rules[r].tok_n>> \in items[s]
            /\ Table[s][t].op = "accept" => <<0, 1>> \in items[s]

\* One item calls for the other: its dot is in front of the other's token.
CallsFor(bodies, m, c) ==
  /\ c[1] > 0 /\ c[2] = 0
  /\ m[2] < Len(bodies[m[1]]) /\ bodies[m[1]][m[2] + 1] = Rules[c[1]].token

Grounded(items, bodies) ==
  \A s \in DOMAIN Table : \A G \in SUBSET items[s] :
    /\ \A m \in items[s] : m[2] > 0 \/ m[1] = 0 => m \in G
    /\ \A m \in G : \A c \in items[s] : CallsFor(bodies, m, c) => c \in G
    => G = items[s]

\* Every token has a word.
Productive(bodies) ==
  \A P \in SUBSET (DOMAIN Table[0]) :
    /\ 1 .. ActionTokenN - 1 \subseteq P
    /\ \A r \in DOMAIN Rules :
         (\A d \in DOMAIN bodies[r] : bodies[r][d] \in P) => Rules[r].token \in P
    => (DOMAIN Table[0]) \ {EOF} \subseteq P

Describes(items, bodies) ==
  /\ IsBodies(bodies) /\ Productive(bodies)
  /\ HasProductions(items, bodies) /\ Grounded(items, bodies)

-----------------------------------------------------------------------------
\* The stack of LRMachine, read off the slots.
Symbols ==
  IF status = "parsing"
  THEN [k \in 1 .. Depth |->
          [token |-> token_table[stack[2 * k]],
           state |-> stack[2 * k + 1],
           val   |-> value_table[stack[2 * k]].val]]
  ELSE <<>>

Machine == INSTANCE LRMachine WITH
  status  <- IF status = "unwinding" THEN "rejected" ELSE status,
  symbols <- Symbols,
  value   <- IF status = "parsing" /\ tok > EOF
             THEN <<value_table[i].val>> ELSE <<>>,
  result  <- IF status = "accepted" THEN <<value_table[ret].val>> ELSE <<>>,
  lexed   <- Len(input)

(***************************************************************************)
(* The slots implement a stack of values: every action gets the values of  *)
(* the symbols its rule replaces, and an accepted parse returns the value  *)
(* of the start symbol.                                                    *)
(***************************************************************************)
ImplementsMachine == Machine!Spec
=============================================================================
