---------------------------- MODULE IndentLexer ----------------------------
(***************************************************************************)
(* The matcher with a lexer that returns indents and dedents: the rules    *)
(*     1  [ \t]*\i      2  [ \t]*\j      3  a+      4  [ \t]+      5  \n   *)
(* as gencode_dfa writes them.  A state whose last edge is \j starts with  *)
(* FSM_DENT; the edges of \j and \i are tried, in that order, with the     *)
(* character behind the margin already read.                               *)
(***************************************************************************)
EXTENDS Matcher

Margin == <<[label |-> "DED", rule |-> 2], [label |-> "IND", rule |-> 1]>>

IndentPattern ==
    LET S == {"S0", "margin", "dedent", "word", "newline"}
        Blank == {"sp", "tab"}
    IN  [start  |-> "S0",
         accept |-> [s \in S |-> CASE s = "margin"  -> 4 [] s = "dedent" -> 2
                                   [] s = "word"    -> 3 [] s = "newline" -> 5
                                   [] OTHER         -> 0],
         edge   |-> [s \in S |->
                       CASE s = "S0" -> [c \in Blank \cup {"a", "nl"} |->
                                           CASE c \in Blank -> "margin"
                                             [] c = "a"     -> "word"
                                             [] OTHER       -> "newline"]
                         [] s = "margin" -> [c \in Blank |-> "margin"]
                         [] s = "word"   -> [c \in {"a"} |-> "word"]
                         [] OTHER        -> [c \in {} |-> "S0"]],
         meta   |-> [s \in S |-> IF s \in {"S0", "margin"} THEN Margin ELSE <<>>],
         dent   |-> [s \in S |-> IF s \in {"S0", "margin"} THEN "dedent"
                                 ELSE "none"]]

\* The actions count the indents and dedents that have been returned.
Count0 == [indents |-> 0, dedents |-> 0]
CountState(u) == "margin"
CountAct(u, rule, t) ==
    CASE rule = 1 -> [u EXCEPT !.indents = @ + 1]
      [] rule = 2 -> [u EXCEPT !.dedents = @ + 1]
      [] OTHER    -> u

-----------------------------------------------------------------------------
Between == pc \in {"loop", "done"}

\* Every stop was set by an indent that was returned, and every stop that is
\* dropped becomes one dedent, returned or pending: none is lost or returned
\* twice although the line is scanned again for pending dedents.
DentsBalance == Between => user.indents = user.dedents + m.ded + Len(m.tab)

\* The stops increase; when a word has been returned as the first of a line,
\* no dedent is pending and the last stop is the column of the word.  There is
\* none at column 0, and none either where a dedent went below the lowest stop
\* without reaching the margin: `adjust stop when indents are not aligned'
\* only adjusts a stop that is left.
Increasing(s) == \A i, j \in DOMAIN s : i < j => s[i] < s[j]

FirstOnLine == LET a == m.num + m.txt
               IN  \A i \in 1..a : text[i] = "a" =>
                     \E j \in i..a : text[j] = "nl"

StopsFollowTheLine ==
    /\ Increasing(m.tab)
    /\ pc = "loop" /\ token.rule = 3 /\ FirstOnLine
       => /\ m.ded = 0
          /\ m.tab # <<>> => LastStop(m) = token.col
          /\ token.col = 0 => m.tab = <<>>

Begins == LET a == m.num + m.cur IN a = 0 \/ text[a] = "nl"

\* Between two scans the matcher knows whether it is at the begin of a line,
\* except behind an empty dedent of a line the buffer was just shifted to: the
\* newline in front of it is gone.
ShiftedDedent == m.got = "unk" /\ m.cur = 0 /\ token.rule = 2

BeginOfLineKnown ==
    pc = "loop" => ((m.got \in {"bob", "nl"}) <=> Begins) \/ ShiftedDedent
=============================================================================
