----------------------------- MODULE MCLRParser -----------------------------
(***************************************************************************)
(* Instances of LRParser with the tables of small grammars, which are      *)
(* assumed to be what TableGen makes of the grammars.                      *)
(* A value is the sequence of the input tokens it was built from,          *)
(* <<parse, n>> for the n-th token of a parse, so that what reaches an     *)
(* action, a destructor or the caller can be compared with the input.      *)
(***************************************************************************)
EXTENDS LRParserProps, SequencesExt

S(n) == [op |-> "shift",  arg |-> n]
R(n) == [op |-> "reduce", arg |-> n]
E    == [op |-> "error",  arg |-> 0]
A    == [op |-> "accept", arg |-> 0]

\* rows and columns counted from 0, as the code counts them
Matrix(rows) ==
  [s \in 0 .. Len(rows) - 1 |-> [t \in 0 .. Len(rows[1]) - 1 |->
     rows[s + 1][t + 1]]]

MCLeaf(p, n)    == << <<p, n>> >>
MCNode(r, args) == FlattenSeq(args)
MCNull          == <<>>
MCGarbage       == << <<0, 0>> >>

-----------------------------------------------------------------------------
Production(token, grammar) == [token |-> token, grammar |-> grammar]
NoPrecedence == [t \in {} |-> "left"]

(***************************************************************************)
(* S -> E | (nothing)    E -> n | E + E | ( E )      `+' is %left          *)
(* The shape of src/test/input/calculator.y: an empty input is a program.  *)
(***************************************************************************)
CalcTerminals == <<"$", "n", "+", "(", ")">>
CalcTypes     == <<"S", "E">>
CalcGrammar   ==
  <<Production("AUGMENT", <<"S">>), Production("S", <<"E">>),
    Production("S", <<>>), Production("E", <<"n">>),
    Production("E", <<"E", "+", "E">>), Production("E", <<"(", "E", ")">>)>>
CalcActions   == {1, 2, 4, 5}

Calc == INSTANCE TableGen WITH Terminals <- CalcTerminals, Types <- CalcTypes,
          Productions <- CalcGrammar, Precedence <- [t \in {"+"} |-> "left"]
CalcTable == Matrix(<<
  <<R(2), S(1), E,    S(2), E,    S(3), S(4)>>,
  <<R(3), E,    R(3), E,    R(3), E,    E   >>,
  <<E,    S(1), E,    S(2), E,    E,    S(5)>>,
  <<A,    E,    E,    E,    E,    E,    E   >>,
  <<R(1), E,    S(6), E,    E,    E,    E   >>,
  <<E,    E,    S(6), E,    S(7), E,    E   >>,
  <<E,    S(1), E,    S(2), E,    E,    S(8)>>,
  <<R(5), E,    R(5), E,    R(5), E,    E   >>,
  <<R(4), E,    R(4), E,    R(4), E,    E   >> >>)
CalcRules ==
  <<[token |-> 5, tok_n |-> 1], [token |-> 5, tok_n |-> 0],
    [token |-> 6, tok_n |-> 1], [token |-> 6, tok_n |-> 3],
    [token |-> 6, tok_n |-> 3]>>

(***************************************************************************)
(* L -> L x | (nothing)                                                    *)
(***************************************************************************)
List == INSTANCE TableGen WITH Terminals <- <<"$", "x">>, Types <- <<"L">>,
          Productions <- <<Production("AUGMENT", <<"L">>),
                           Production("L", <<"L", "x">>), Production("L", <<>>)>>,
          Precedence <- NoPrecedence
ListTable == Matrix(<<
  <<R(2), R(2), S(1)>>,
  <<A,    S(2), E   >>,
  <<R(1), R(1), E   >> >>)
ListRules == <<[token |-> 2, tok_n |-> 2], [token |-> 2, tok_n |-> 0]>>

(***************************************************************************)
(* S -> a X    X -> b c O    O -> (nothing)                                *)
(***************************************************************************)
EmptyTail == INSTANCE TableGen WITH
          Terminals <- <<"$", "a", "b", "c">>, Types <- <<"S", "X", "O">>,
          Productions <- <<Production("AUGMENT", <<"S">>),
                           Production("S", <<"a", "X">>),
                           Production("X", <<"b", "c", "O">>), Production("O", <<>>)>>,
          Precedence <- NoPrecedence
TailTable == Matrix(<<
  <<E,    S(1), E,    E,    S(2), E,    E   >>,
  <<E,    E,    S(3), E,    E,    S(4), E   >>,
  <<A,    E,    E,    E,    E,    E,    E   >>,
  <<E,    E,    E,    S(5), E,    E,    E   >>,
  <<R(1), E,    E,    E,    E,    E,    E   >>,
  <<R(3), E,    E,    E,    E,    E,    S(6)>>,
  <<R(2), E,    E,    E,    E,    E,    E   >> >>)
TailRules ==
  <<[token |-> 4, tok_n |-> 2], [token |-> 5, tok_n |-> 3],
    [token |-> 6, tok_n |-> 0]>>

\* The generator reports no conflict and prints these tables and rules.
ASSUME GeneratedAssumption ==
  /\ Calc!Solved /\ Calc!IsGenerated(CalcTable) /\ Calc!PrintedRules = CalcRules
  /\ List!Solved /\ List!IsGenerated(ListTable) /\ List!PrintedRules = ListRules
  /\ EmptyTail!Solved /\ EmptyTail!IsGenerated(TailTable)
  /\ EmptyTail!PrintedRules = TailRules

(***************************************************************************)
(* S -> E    E -> n | E + E | ( E )      the calculator without its empty  *)
(* rule: what the theorems of LRParserProofs ask of a grammar and of its   *)
(* table is true of it.                                                    *)
(***************************************************************************)
SumGen == INSTANCE TableGen WITH Terminals <- CalcTerminals, Types <- CalcTypes,
          Productions <- [n \in 1 .. 5 |-> CalcGrammar[IF n < 3 THEN n ELSE n + 1]],
          Precedence <- [t \in {"+"} |-> "left"]
SumTable == Matrix(<<
  <<E,    S(1), E,    S(2), E,    S(3), S(4)>>,
  <<R(2), E,    R(2), E,    R(2), E,    E   >>,
  <<E,    S(1), E,    S(2), E,    E,    S(5)>>,
  <<A,    E,    E,    E,    E,    E,    E   >>,
  <<R(1), E,    S(6), E,    E,    E,    E   >>,
  <<E,    E,    S(6), E,    S(7), E,    E   >>,
  <<E,    S(1), E,    S(2), E,    E,    S(8)>>,
  <<R(4), E,    R(4), E,    R(4), E,    E   >>,
  <<R(3), E,    R(3), E,    R(3), E,    E   >> >>)
SumRules == [n \in 1 .. 4 |-> CalcRules[IF n < 2 THEN n ELSE n + 1]]
SumItems ==
  LET S1 == <<5, 1>>  E1 == <<6, 1>>  E2 == <<6, 2>>  E3 == <<6, 3>>
  IN [s \in 0 .. 8 |-> << {}, {E1}, {E1}, {}, {S1, E1}, {E1, E2}, {E2},
                          {E3}, {E1, E3} >>[s + 1]]
SumDots  == [s \in 0 .. 8 |-> <<0, 1, 1, 1, 1, 2, 2, 3, 3>>[s + 1]]
Sum == INSTANCE LRParserProps WITH
          TokenN <- 7, ActionTokenN <- 5, StateN <- 9,
          Table <- SumTable, Rules <- SumRules, ActionRules <- {1, 3, 4},
          Destructors <- 1 .. 6

ASSUME TheoremsApplyAssumption ==
  /\ SumGen!Solved /\ SumGen!IsGenerated(SumTable)
  /\ SumGen!PrintedRules = SumRules
  /\ Sum!NoEmptyRule /\ Sum!CountsDots(SumDots) /\ Sum!AcceptsByGoto
  /\ Sum!ValuesAreTokens /\ Sum!EveryTokenDestroyed
  /\ Sum!HasItems(SumItems) /\ Sum!AcceptsAtEnd

(***************************************************************************)
(* The generated states of all four have the items ReadsSentences asks     *)
(* for, with rules that are empty and without.                             *)
(***************************************************************************)
CalcP == INSTANCE LRParserProps WITH
          TokenN <- 7, ActionTokenN <- 5, StateN <- 9, Table <- CalcTable,
          Rules <- CalcRules, ActionRules <- {}, Destructors <- {}
ListP == INSTANCE LRParserProps WITH
          TokenN <- 3, ActionTokenN <- 2, StateN <- 3, Table <- ListTable,
          Rules <- ListRules, ActionRules <- {}, Destructors <- {}
TailP == INSTANCE LRParserProps WITH
          TokenN <- 7, ActionTokenN <- 4, StateN <- 7, Table <- TailTable,
          Rules <- TailRules, ActionRules <- {}, Destructors <- {}

ASSUME ProductionsAssumption ==
  /\ CalcP!Describes(Calc!ItemsOf(CalcTable), Calc!Bodies)
  /\ ListP!Describes(List!ItemsOf(ListTable), List!Bodies)
  /\ TailP!Describes(EmptyTail!ItemsOf(TailTable), EmptyTail!Bodies)
  /\ Sum!Describes(SumGen!ItemsOf(SumTable), SumGen!Bodies)

-----------------------------------------------------------------------------
CalcLanguage == INSTANCE Language WITH
    Terminals <- Range(CalcTerminals), Productions <- CalcGrammar,
    MaxWord <- MaxLexed
Sentences  == CalcLanguage!Words["S"]
Beginnings == CalcLanguage!Beginnings["S"]

\* The symbols lexed before the lookahead.
Consumed == [n \in 1 .. Len(input) - 1 |-> CalcTerminals[input[n] + 1]]

(***************************************************************************)
(* The generated parser recognises the language of its grammar: what it    *)
(* has consumed always begins a sentence, what it accepts is one, and it   *)
(* reports an error at the first token that cannot follow, although states *)
(* share their lookaheads and conflicts are solved by precedence.          *)
(***************************************************************************)
RecognizesTheGrammar ==
  /\ status = "parsing"  => Consumed \in Beginnings
  /\ status = "accepted" => Consumed \in Sentences
  /\ report # <<>> =>
       IF report.tok = EOF THEN Consumed \notin Sentences
       ELSE Append(Consumed, CalcTerminals[report.tok + 1]) \notin Beginnings
=============================================================================
