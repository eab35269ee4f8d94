----------------------------- MODULE MetaLexer -----------------------------
(***************************************************************************)
(* The lexer of grammar files: the automata and actions that               *)
(* src/src/codegen/bootstrap/bootstrap.c has for the rules of              *)
(* src/src/codegen/compiler_compiler.y, as the patterns and the action of  *)
(* module Matcher.                                                         *)
(*                                                                         *)
(* States of an automaton have the names of the labels in the code.  A     *)
(* character is "nl", "sp" (a blank), "a" (a letter or _), "9" (a digit),  *)
(* "q" and "dq" (the quotes), "bs" (the backslash), "other" (the printable *)
(* rest) or itself; the letters behind the % of a keyword are one          *)
(* character, the name of the keyword.                                     *)
(***************************************************************************)
EXTENDS Naturals, Sequences, TLC

CONSTANT BraceBlock   \* size of a new brace buffer, 1024 in the code

ASSUME BraceAssumption == BraceBlock \in Nat \ {0}

Keywords == [option |-> 11, token |-> 12, start |-> 13, union |-> 14,
             type |-> 15, left |-> 16, right |-> 17, top |-> 18,
             include |-> 19, bottom |-> 20, destructor |-> 21]

Ascii     == {"sp", "a", "9", "q", "dq", "bs", "other", "{", "}", "/", "*", "=",
              "%", "<", ">", ":", "|", ";", "+"} \cup DOMAIN Keywords
Printable == Ascii
AnyByte       == Ascii \cup {"nl", "tab", "lead", "cont", "ff"}
Word      == {"a", "9"}
Space     == {"sp", "nl", "tab"}

\* The tests of a state, in the order of the code: the first that holds.
On(chars, state) == [c \in chars |-> state]

Automaton(accept, edge) ==
    [start  |-> "S0",
     edge   |-> edge,
     accept |-> [s \in DOMAIN edge |-> IF s \in DOMAIN accept THEN accept[s]
                                       ELSE 0],
     meta   |-> [s \in DOMAIN edge |-> <<>>],
     dent   |-> [s \in DOMAIN edge |-> "none"]]

Stop == [c \in {} |-> "S0"]

DefaultPattern == Automaton(
    [S25 |-> 8, S39 |-> 9, S41 |-> 10, S47 |-> 23, S53 |-> 24, S55 |-> 1,
     S60 |-> 2, S64 |-> 3, S66 |-> 4, S77 |-> 6, S79 |-> 7, S106 |-> 5,
     S108 |-> 5, S158 |-> 22, S163 |-> 22] @@ Keywords,
    [S0   |-> On({"{"}, "S53") @@ On({"a"}, "S47") @@ On({">"}, "S41")
              @@ On({"="}, "S25") @@ On({"<"}, "S39") @@ On({"/"}, "S16")
              @@ On({"+"}, "S43") @@ On({"q"}, "S22") @@ On({"%"}, "S28")
              @@ On({"dq"}, "S19") @@ On(Space, "S55"),
     S16  |-> On({"/"}, "S60") @@ On({"*"}, "S64"),
     S19  |-> On({"bs"}, "S68") @@ On({"dq"}, "S66") @@ On(AnyByte, "S19"),
     S22  |-> On({"bs"}, "S73") @@ On(Printable, "S71"),
     S25  |-> On({"="}, "S77"),
     S28  |-> On({"%"}, "S79") @@ [k \in DOMAIN Keywords |-> k],
     S39  |-> Stop,
     S41  |-> Stop,
     S43  |-> On({"a"}, "S100"),
     S47  |-> On(Word, "S47"),
     S53  |-> Stop,
     S55  |-> On(Space, "S55"),
     S60  |-> On(AnyByte \ {"nl"}, "S60"),
     S64  |-> Stop,
     S66  |-> Stop,
     S68  |-> On(AnyByte \ {"nl"}, "S19"),
     S71  |-> On({"q"}, "S106"),
     S73  |-> On({"q"}, "S108") @@ On(AnyByte \ {"nl"}, "S71"),
     S77  |-> Stop,
     S79  |-> Stop,
     S100 |-> On(Word, "S100") @@ On({"sp"}, "S132"),
     S106 |-> Stop,
     S108 |-> On({"q"}, "S106"),
     S132 |-> On({"nl"}, "S132") @@ On(Space, "S158") @@ On(AnyByte, "S163"),
     S158 |-> On({"nl"}, "S132") @@ On(Space, "S158") @@ On(AnyByte, "S163"),
     S163 |-> On(AnyByte \ {"nl"}, "S163")]
    @@ [k \in DOMAIN Keywords |-> Stop])

LexerRulesPattern == Automaton(
    [S10 |-> 1, S27 |-> 8, S29 |-> 2, S34 |-> 3, S38 |-> 4, S40 |-> 5,
     S48 |-> 7, S57 |-> 6],
    [S0  |-> On({"{"}, "S27") @@ On({"="}, "S18") @@ On({"<"}, "S20")
             @@ On({"/"}, "S15") @@ On({"dq"}, "S24") @@ On({"nl"}, "S10")
             @@ On(Space, "S29"),
     S10 |-> On(Space, "S29"),
     S15 |-> On({"/"}, "S34") @@ On({"*"}, "S38"),
     S18 |-> On({"="}, "S40"),
     S20 |-> On({"a"}, "S42"),
     S24 |-> On({"bs"}, "S50") @@ On({"dq"}, "S48") @@ On(AnyByte, "S24"),
     S27 |-> Stop,
     S29 |-> On(Space, "S29"),
     S34 |-> On(AnyByte \ {"nl"}, "S34"),
     S38 |-> Stop,
     S40 |-> Stop,
     S42 |-> On(Word, "S42") @@ On({">"}, "S53"),
     S48 |-> Stop,
     S50 |-> On(AnyByte \ {"nl"}, "S24"),
     S53 |-> On({"{"}, "S57") @@ On(Space, "S53"),
     S57 |-> Stop])

StateRulesPattern == Automaton(
    [S14 |-> 5, S16 |-> 6, S18 |-> 1, S23 |-> 2, S27 |-> 3, S29 |-> 4],
    [S0  |-> On({"}"}, "S16") @@ On({"{"}, "S14") @@ On({"/"}, "S8")
             @@ On({"dq"}, "S11") @@ On(Space, "S18"),
     S8  |-> On({"/"}, "S23") @@ On({"*"}, "S27"),
     S11 |-> On({"bs"}, "S31") @@ On({"dq"}, "S29") @@ On(AnyByte, "S11"),
     S14 |-> Stop,
     S16 |-> Stop,
     S18 |-> On(Space, "S18"),
     S23 |-> On(AnyByte \ {"nl"}, "S23"),
     S27 |-> Stop,
     S29 |-> Stop,
     S31 |-> On(AnyByte \ {"nl"}, "S11")])

GrammarPattern == Automaton(
    [S22 |-> 6, S28 |-> 7, S30 |-> 8, S32 |-> 9, S34 |-> 10, S36 |-> 1,
     S41 |-> 2, S45 |-> 4, S53 |-> 5, S55 |-> 3, S57 |-> 3],
    [S0  |-> On({"|"}, "S30") @@ On({"{"}, "S34") @@ On({"a"}, "S22")
             @@ On({";"}, "S32") @@ On({":"}, "S28") @@ On({"/"}, "S14")
             @@ On({"q"}, "S17") @@ On({"%"}, "S20") @@ On(Space, "S36"),
     S14 |-> On({"/"}, "S41") @@ On({"*"}, "S45"),
     S17 |-> On({"bs"}, "S49") @@ On(Printable, "S47"),
     S20 |-> On({"%"}, "S53"),
     S22 |-> On(Word, "S22"),
     S28 |-> Stop, S30 |-> Stop, S32 |-> Stop, S34 |-> Stop,
     S36 |-> On(Space, "S36"),
     S41 |-> On(AnyByte \ {"nl"}, "S41"),
     S45 |-> Stop,
     S47 |-> On({"q"}, "S55"),
     S49 |-> On({"q"}, "S57") @@ On(AnyByte \ {"nl"}, "S47"),
     S53 |-> Stop, S55 |-> Stop,
     S57 |-> On({"q"}, "S55")])

BracePattern == Automaton(
    [S6 |-> 6, S16 |-> 7, S18 |-> 8, S20 |-> 5, S28 |-> 1, S30 |-> 2,
     S40 |-> 4, S45 |-> 3, S47 |-> 3],
    [S0  |-> On({"}"}, "S18") @@ On({"{"}, "S16") @@ On({"/"}, "S6")
             @@ On({"q"}, "S10") @@ On({"dq"}, "S13") @@ On(AnyByte, "S20"),
     S6  |-> On({"/"}, "S30") @@ On({"*"}, "S28"),
     S10 |-> On({"bs"}, "S36") @@ On(Printable, "S34"),
     S13 |-> On({"bs"}, "S42") @@ On({"dq"}, "S40") @@ On(AnyByte, "S13"),
     S16 |-> Stop,
     S18 |-> Stop,
     S20 |-> On(AnyByte \ {"}", "{", "dq", "q", "/"}, "S20"),
     S28 |-> Stop,
     S30 |-> On(AnyByte \ {"nl"}, "S30"),
     S34 |-> On({"q"}, "S45"),
     S36 |-> On({"q"}, "S47") @@ On(AnyByte \ {"nl"}, "S34"),
     S40 |-> Stop,
     S42 |-> On(AnyByte \ {"nl"}, "S13"),
     S45 |-> Stop,
     S47 |-> On({"q"}, "S45")])

CommentPattern == Automaton(
    [S2 |-> 3, S5 |-> 1, S9 |-> 2],
    [S0 |-> On({"*"}, "S2") @@ On(AnyByte, "S5"),
     S2 |-> On({"/"}, "S9"),
     S5 |-> On(AnyByte \ {"*"}, "S5"),
     S9 |-> Stop])

MetaPattern ==
    [LEX_STATE_DEFAULT |-> DefaultPattern, S_LL_RULES |-> LexerRulesPattern,
     S_LL_STATE |-> StateRulesPattern, S_GG_RULES |-> GrammarPattern,
     S_MATCH_BRACE |-> BracePattern, S_COMMENT |-> CommentPattern]

-----------------------------------------------------------------------------
(* The actions.  `user' is the stack of lexer states, the brace buffer     *)
(* (counter, size, text) and the last token returned.  `unchecked' says    *)
(* that the buffer has been written without making sure of its room.       *)

NoTokenYet == [token |-> "none", value |-> <<>>]

MetaUser == [stack |-> <<"LEX_STATE_DEFAULT">>, counter |-> 0, size |-> 0,
              held |-> <<>>, unchecked |-> FALSE, returned |-> NoTokenYet]

MetaState(u) == u.stack[Len(u.stack)]

Push(u, s)   == [u EXCEPT !.stack = Append(@, s)]
Pop(u)       == [u EXCEPT !.stack = SubSeq(@, 1, Len(@) - 1)]
Return(u, t, v) == [u EXCEPT !.returned = [token |-> t, value |-> v]]
Inner(t)     == SubSeq(t, 2, Len(t) - 1)

\* ll_match_brace
OpenBrace(u) ==
    [Push(u, "S_MATCH_BRACE") EXCEPT
       !.counter = 1, !.size = BraceBlock, !.held = <<>>, !.unchecked = FALSE]

\* Mutant: the terminator has no room.
AddToBraceFull(u, t) ==
    [u EXCEPT !.size = IF Len(t) + Len(u.held) > @ THEN 2 * @ ELSE @,
              !.held = @ \o t,
              !.unchecked = @ \/ Len(t) > u.size]

\* ll_add_to_brace: the buffer is doubled once, however long the text is.
AddToBrace(u, t) ==
    [u EXCEPT !.size = IF Len(t) + Len(u.held) >= @ THEN 2 * @ ELSE @,
              !.held = @ \o t,
              !.unchecked = @ \/ Len(t) > u.size]

\* A brace inside an action is added without looking at the room.
NestedBrace(u, c, count) ==
    [u EXCEPT !.counter = count, !.held = Append(@, c), !.unchecked = TRUE]

CloseBrace(u) ==
    IF u.counter - 1 <= 0
    THEN Return([Pop(u) EXCEPT !.counter = 0], "ACTION", u.held)
    ELSE NestedBrace(u, "}", u.counter - 1)

\* ll_handle_ascii: the character a quoted one stands for; a letter behind the
\* backslash stands for those with a meaning, everything else is reported.
HandleAscii(t) ==
    CASE t[2] # "bs"                -> t[2]
      [] t[3] \in {"q", "dq", "bs"} -> t[3]
      [] t[3] = "a"                 -> "control"
      [] OTHER                      -> "nul"

\* The name between < and > of a lexer state.
StateName(t) ==
    LET end == CHOOSE i \in DOMAIN t : t[i] = ">"
    IN  SubSeq(t, 2, end - 1)

\* The pattern of a macro begins behind the blanks that follow its name.
MacroValue(t) ==
    LET from == CHOOSE i \in DOMAIN t :
                  /\ \E j \in 1..i - 1 : t[j] = "sp"
                  /\ t[i] # "sp"
                  /\ \A j \in 2..i - 1 : t[j] = "sp" \/ t[j] \in Word
    IN  SubSeq(t, from, Len(t))

DefaultAction(u, rule, t) ==
    CASE rule \in {1, 2} -> u
      [] rule = 3  -> Push(u, "S_COMMENT")
      [] rule = 4  -> Return(u, "LITERAL", Inner(t))
      [] rule = 5  -> Return(u, "ASCII", HandleAscii(t))
      [] rule = 6  -> Return(Push(u, "S_LL_RULES"), "LL", <<>>)
      [] rule = 7  -> Return(Push(u, "S_GG_RULES"), "GG", <<>>)
      [] rule \in {8, 9, 10} -> Return(u, t[1], <<>>)
      [] rule \in 11..21     -> Return(u, t[2], <<>>)
      [] rule = 22 -> Return(u, "MACRO", MacroValue(t))
      [] rule = 23 -> Return(u, "IDENTIFIER", t)
      [] rule = 24 -> OpenBrace(u)

LexerRulesAction(u, rule, t) ==
    CASE rule \in {1, 2, 3} -> u
      [] rule = 4 -> Push(u, "S_COMMENT")
      [] rule = 5 -> Return(Pop(u), "LL", <<>>)
      [] rule = 6 -> Return(Push(u, "S_LL_STATE"), "LEX_STATE", StateName(t))
      [] rule = 7 -> Return(u, "LITERAL", Inner(t))
      [] rule = 8 -> OpenBrace(u)

StateRulesAction(u, rule, t) ==
    CASE rule \in {1, 2} -> u
      [] rule = 3 -> Push(u, "S_COMMENT")
      [] rule = 4 -> Return(u, "LITERAL", Inner(t))
      [] rule = 5 -> OpenBrace(u)
      [] rule = 6 -> Return(Pop(u), "END_STATE", <<>>)

\* Mutant: the end of the rules is taken for their begin.
GrammarActionNested(u, rule, t) ==
    IF rule = 5 THEN Return(Push(u, "S_GG_RULES"), "GG", <<>>) ELSE u

GrammarAction(u, rule, t) ==
    CASE rule \in {1, 2} -> u
      [] rule = 3 -> Return(u, "ASCII", HandleAscii(t))
      [] rule = 4 -> Push(u, "S_COMMENT")
      [] rule = 5 -> Return(Pop(u), "GG", <<>>)
      [] rule = 6 -> Return(u, "IDENTIFIER", t)
      [] rule \in {7, 8, 9} -> Return(u, t[1], <<>>)
      [] rule = 10 -> OpenBrace(u)

BraceAction(u, rule, t) ==
    CASE rule = 1    -> Push(u, "S_COMMENT")
      [] rule \in 2..6 -> AddToBrace(u, t)
      [] rule = 7    -> NestedBrace(u, "{", u.counter + 1)
      [] rule = 8    -> CloseBrace(u)

CommentAction(u, rule, t) == IF rule = 2 THEN Pop(u) ELSE u

MetaAction(u, rule, t) ==
    CASE MetaState(u) = "LEX_STATE_DEFAULT" -> DefaultAction(u, rule, t)
      [] MetaState(u) = "S_LL_RULES"        -> LexerRulesAction(u, rule, t)
      [] MetaState(u) = "S_LL_STATE"        -> StateRulesAction(u, rule, t)
      [] MetaState(u) = "S_GG_RULES"        -> GrammarAction(u, rule, t)
      [] MetaState(u) = "S_MATCH_BRACE"     -> BraceAction(u, rule, t)
      [] MetaState(u) = "S_COMMENT"         -> CommentAction(u, rule, t)
=============================================================================
