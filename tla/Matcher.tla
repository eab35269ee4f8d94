------------------------------ MODULE Matcher ------------------------------
(***************************************************************************)
(* The text matcher of a generated lexer: src/src/lexer/matcher.c, the     *)
(* inline functions of matcher_priv.h and matcher_fsm.h, the automata that *)
(* cg_pattern.cc writes and the token loop that cg_neoast_lexer.cc writes  *)
(* around them.                                                            *)
(*                                                                         *)
(* m is the NeoastMatcher: positions are indices into buf, so txt stands   *)
(* for txt_ - buf_ and lpb for lpb_ - buf_.  Block is CONST_BLOCK.  One    *)
(* action is the test of the token loop with the start of a scan, one      *)
(* state of the automaton, the end of a scan, or the delivery of a token.  *)
(*                                                                         *)
(* A character is a member of a small set.  "nl", "tab", "sp" are what     *)
(* they are called; "lead" is a byte in 0xC0..0xFE, "cont" one in          *)
(* 0x80..0xBF, "ff" is 0xFF; "nul" is the terminator; everything else is a *)
(* character of the patterns.                                              *)
(***************************************************************************)
EXTENDS Naturals, Sequences, FiniteSets, FiniteSetsExt

CONSTANTS Texts, Pattern, FirstUser, StateOf(_), Act(_, _, _), TabSize,
          Block,        \* CONST_BLOCK: growth of the buffer
          Fresh,        \* what memory nobody has written contains
          ShortReads,   \* the input may return fewer characters than asked
          SignedChar    \* char is signed (matcher_get returns a char)

ASSUME TextAssumption  == \A t \in Texts : t \in Seq({t[i] : i \in DOMAIN t})
ASSUME BlockAssumption == Block \in Nat /\ Block >= 2
ASSUME TabAssumption   == TabSize \in Nat \ {0}
ASSUME FlagAssumption  == ShortReads \in BOOLEAN /\ SignedChar \in BOOLEAN

VARIABLES text,    \* the whole input
          fed,     \* how many of its characters the input has delivered
          m,       \* the matcher
          fsm,     \* the running automaton: state, bol and nul of fsm_
          pc,      \* where the lexer is
          user,    \* what the actions of the rules work on
          token    \* the last token, or how the lexer ended

vars == <<text, fed, m, fsm, pc, user, token>>

NoToken == [kind |-> "none", rule |-> 0, text |-> <<>>, line |-> 0, col |-> 0]

NewMatcher ==
    [buf |-> [i \in 0..2 * Block - 1 |-> IF i = 0 THEN "nul" ELSE Fresh],
     max |-> 2 * Block, txt |-> 0, len |-> 0, cap |-> 0, cur |-> 0, pos |-> 0,
     end |-> 0, ind |-> 0, got |-> "bob", chr |-> "nul", lpb |-> 0, lno |-> 1,
     cno |-> 0, num |-> 0, eof |-> FALSE, ded |-> 0, col |-> 0, tab |-> <<>>,
     mrk |-> FALSE]

Init ==
    /\ text \in Texts
    /\ fed = 0
    /\ m = NewMatcher
    /\ fsm = [state |-> 0, bol |-> FALSE, nul |-> FALSE]
    /\ pc = "loop"
    /\ user = FirstUser
    /\ token = NoToken

-----------------------------------------------------------------------------
(* Lines and columns, counted up to the start of the match.                *)

NextTab(k) == k + (TabSize - (k % TabSize))

Counted(x) ==
    LET count[i \in x.lpb..x.txt] ==
          IF i = x.lpb THEN <<x.lno, x.cno>>
          ELSE LET n == count[i - 1][1]
                   k == count[i - 1][2]
                   c == x.buf[i - 1]
               IN  CASE c = "nl"   -> <<n + 1, 0>>
                     [] c = "tab"  -> <<n, NextTab(k)>>
                     [] c = "cont" -> <<n, k>>
                     [] OTHER      -> <<n, k + 1>>
    IN  [x EXCEPT !.lno = count[x.txt][1], !.cno = count[x.txt][2],
                  !.lpb = x.txt]

-----------------------------------------------------------------------------
(* The buffer.                                                             *)

\* Mutant: the lines in front of the match are not counted.
ShiftedUncounted(x) ==
    LET gap == x.txt
    IN  [x EXCEPT
           !.cur = @ - gap, !.ind = @ - gap, !.pos = @ - gap, !.end = @ - gap,
           !.num = @ + gap, !.txt = 0, !.lpb = 0,
           !.buf = [i \in DOMAIN @ |-> IF i < x.end - gap THEN @[i + gap]
                                       ELSE @[i]]]

\* The match moves to the front of the buffer; what is behind it stays.
Shifted(x) ==
    LET gap == x.txt
    IN  [Counted(x) EXCEPT
           !.cur = @ - gap, !.ind = @ - gap, !.pos = @ - gap, !.end = @ - gap,
           !.num = @ + gap, !.txt = 0, !.lpb = 0,
           !.buf = [i \in DOMAIN @ |-> IF i < x.end - gap THEN @[i + gap]
                                       ELSE @[i]]]

Expanded(x) ==
    LET y   == Shifted(x)
        max == Min({k \in {x.max * 2, x.max * 4} : k >= y.end + Block})
    IN  [y EXCEPT !.max = max,
                  !.buf = [i \in 0..max - 1 |-> IF i < x.max THEN @[i]
                                                ELSE Fresh]]

Grown(x) ==
    CASE x.max - x.end >= Block + 1     -> x
      [] x.max - x.end < Block + 1
         /\ x.max - x.end + x.txt >= Block -> Shifted(x)
      [] OTHER                          -> Expanded(x)

\* A character is wanted and none is buffered: matcher_get_more and
\* matcher_peek_more make room, read, and take an empty read for the end.
Wants(x) == x.pos >= x.end /\ ~x.eof

Roomy(x) == IF x.end + 1 >= x.max THEN Grown(x) ELSE x

Read(x, k) ==
    LET r == Roomy(x)
    IN  [r EXCEPT !.end = @ + k,
                  !.eof = (r.pos >= r.end + k),
                  !.buf = [i \in DOMAIN @ |->
                             IF i \in r.end..r.end + k - 1
                             THEN text[fed + 1 + i - r.end] ELSE @[i]]]

\* How many characters the input may deliver to x.
Deliveries(x) ==
    LET r == Roomy(x)
        n == Min({r.max - r.end - 1, Len(text) - fed})
    IN  IF ShortReads /\ n > 0 THEN 1..n ELSE {n}

Ready(x, k) == IF Wants(x) THEN Read(x, k) ELSE x
Chunks(x)   == IF Wants(x) THEN Deliveries(x) ELSE {0}

\* matcher_at_end, of a matcher that has been made ready.
AtEnd(x) == x.pos >= x.end

\* A buffered character is returned as a char, a fresh one as an unsigned
\* char; "negative" is a value no pattern mentions.
AsChar(c) ==
    CASE SignedChar /\ c \in {"lead", "cont"} -> "negative"
      [] SignedChar /\ c = "ff"               -> "eof"
      [] OTHER                                -> c

\* The character FSM_CHAR returns to x, which was ready or had to read.
Char(x, wanted) ==
    CASE AtEnd(x) -> "eof"
      [] ~AtEnd(x) /\ wanted -> x.buf[x.pos]
      [] OTHER -> AsChar(x.buf[x.pos])

\* Mutant: the character in front is looked up one too early.
SetCurrentEarly(x) ==
    [x EXCEPT !.pos = x.cur,
              !.got = IF x.cur > 1 THEN x.buf[x.cur - 2] ELSE "unk"]

SetCurrent(x) ==
    [x EXCEPT !.pos = x.cur,
              !.got = IF x.cur > 0 THEN x.buf[x.cur - 1] ELSE "unk"]

\* Mutant: the character is forgotten before it is put back.
ResetTextLost(x) == [x EXCEPT !.chr = "nul"]

ResetText(x) ==
    IF x.chr = "nul" THEN x
    ELSE [x EXCEPT !.buf[x.txt + x.len] = x.chr, !.chr = "nul"]

Terminated(x) ==
    IF x.chr # "nul" THEN x
    ELSE [x EXCEPT !.chr = x.buf[x.txt + x.len], !.buf[x.txt + x.len] = "nul"]

-----------------------------------------------------------------------------
(* Indentation.                                                            *)

LastStop(x) == x.tab[Len(x.tab)]

Newline(x) ==
    LET col[i \in x.ind..x.pos] ==
          IF i = x.ind THEN x.col
          ELSE IF x.buf[i - 1] = "tab" THEN NextTab(col[i - 1])
          ELSE col[i - 1] + 1
        to == IF x.ind + 1 < x.pos THEN x.pos - 1 ELSE x.ind
    IN  [x EXCEPT !.mrk = TRUE, !.col = col[to], !.ind = to]

Indent(x) == x.col > 0 /\ (x.tab = <<>> \/ LastStop(x) < x.col)
Dedent(x) == x.tab # <<>> /\ LastStop(x) > x.col

\* Mutant: one dedent for all the stops that are dropped.
RestoppedOnce(x) ==
    CASE x.mrk /\ Indent(x) -> [x EXCEPT !.tab = Append(@, x.col)]
      [] x.mrk /\ Dedent(x) ->
           LET n == Max({0} \cup {i \in 1..Len(x.tab) - 1 : x.tab[i] <= x.col})
           IN  [x EXCEPT !.ded = @ + 1,
                         !.tab = [i \in 1..n |-> IF i = n THEN x.col ELSE @[i]]]
      [] OTHER -> x

\* Mutant: the last stop is not adjusted.
RestoppedUnaligned(x) ==
    CASE x.mrk /\ Indent(x) -> [x EXCEPT !.tab = Append(@, x.col)]
      [] x.mrk /\ Dedent(x) ->
           LET n == Max({0} \cup {i \in 1..Len(x.tab) - 1 : x.tab[i] <= x.col})
           IN  [x EXCEPT !.ded = @ + Len(x.tab) - n, !.tab = SubSeq(@, 1, n)]
      [] OTHER -> x

\* What a scan that looked at the margin does to the tab stops.
Restopped(x) ==
    CASE x.mrk /\ Indent(x) -> [x EXCEPT !.tab = Append(@, x.col)]
      [] x.mrk /\ Dedent(x) ->
           LET n == Max({0} \cup {i \in 1..Len(x.tab) - 1 : x.tab[i] <= x.col})
           IN  [x EXCEPT !.ded = @ + Len(x.tab) - n,
                         !.tab = [i \in 1..n |-> IF i = n THEN x.col ELSE @[i]]]
      [] OTHER -> x

-----------------------------------------------------------------------------
(* The automaton of a lexer state, as gencode_dfa writes it.               *)

Current == Pattern[StateOf(user)]

Take(x, rule, c) ==
    [x EXCEPT !.cap = rule, !.cur = IF c = "eof" THEN x.pos ELSE x.pos - 1]

\* What the code of a state does before it reads: a character that has not
\* been read is not given back.
Entered(x, p, s) ==
    IF p.accept[s] > 0 THEN Take(x, p.accept[s], "eof") ELSE x

MetaHolds(label, x, c) ==
    CASE label = "DED" -> fsm.bol /\ Dedent(x)
      [] label = "IND" -> fsm.bol /\ Indent(x)
      [] label = "EOB" -> c = "eof"
      [] label = "BOL" -> fsm.bol

\* The first meta edge of the state that holds takes its rule.
Metas(x, p, s, c) ==
    LET edges == p.meta[s]
        y     == IF fsm.bol /\ \E i \in DOMAIN edges :
                                 edges[i].label \in {"DED", "IND"}
                 THEN Newline(x) ELSE x
        holds == {i \in DOMAIN edges : MetaHolds(edges[i].label, y, c)}
    IN  IF holds = {} THEN y ELSE Take(y, edges[Min(holds)].rule, c)

\* The automaton starts: FSM_INIT, FSM_FIND with cap_ = 0.
Start(x, bol) ==
    /\ m' = [x EXCEPT !.cap = 0, !.cur = x.pos]
    /\ fsm' = [state |-> Current.start, bol |-> bol, nul |-> FALSE]
    /\ pc' = "fsm"

-----------------------------------------------------------------------------
(* The token loop.  An intermediate matcher is bound by \E over a set of   *)
(* one element where several conjuncts use it.                             *)

\* while (!matcher_at_end): there is text, matcher_scan begins.
Scan ==
    /\ pc = "loop"
    /\ \E k \in Chunks(m) :
         \E x \in {Ready(m, k)} :
             /\ ~AtEnd(x)
             /\ fed' = fed + k
             /\ Start([ResetText(x) EXCEPT !.len = 0, !.txt = x.cur,
                                           !.mrk = FALSE, !.ind = x.pos,
                                           !.col = 0],
                      x.got \in {"bob", "nl"})
    /\ UNCHANGED <<text, user, token>>

Finish ==
    /\ pc = "loop"
    /\ \E k \in Chunks(m) :
         /\ AtEnd(Ready(m, k))
         /\ m' = Ready(m, k)
         /\ fed' = fed + k
    /\ pc' = "done"
    /\ token' = [token EXCEPT !.kind = "end"]
    /\ UNCHANGED <<text, fsm, user>>

\* FSM_DENT: dedents are pending, the state is left without reading.
Jump ==
    LET p == Current
        s == fsm.state
    IN  /\ pc = "fsm"
        /\ p.dent[s] # "none" /\ m.ded > 0
        /\ m' = Entered(m, p, s)
        /\ fsm' = [fsm EXCEPT !.state = p.dent[s], !.nul = TRUE]
        /\ UNCHANGED <<text, fed, pc, user, token>>

\* A state with edges reads a character, tries its meta edges and follows
\* the edge of the character; without one the automaton halts.
Step ==
    LET p == Current
        s == fsm.state
    IN  /\ pc = "fsm"
        /\ p.dent[s] = "none" \/ m.ded = 0
        /\ DOMAIN p.edge[s] # {} \/ p.meta[s] # <<>>
        /\ \E k \in Chunks(m) :
             \E x \in {Ready(Entered(m, p, s), k)} :
             \E c \in {Char(x, Wants(m))} :
             \E y \in {Metas([x EXCEPT !.pos = IF AtEnd(x) THEN @ ELSE @ + 1],
                             p, s, c)} :
                 /\ fed' = fed + k
                 /\ m' = y
                 /\ IF c \in DOMAIN p.edge[s]
                    THEN /\ fsm' = [fsm EXCEPT !.state = p.edge[s][c]]
                         /\ UNCHANGED pc
                    ELSE /\ pc' = "scanned"
                         /\ UNCHANGED fsm
        /\ UNCHANGED <<text, user, token>>

\* A state without edges halts without reading.
Halt ==
    LET p == Current
        s == fsm.state
    IN  /\ pc = "fsm"
        /\ p.dent[s] = "none" \/ m.ded = 0
        /\ DOMAIN p.edge[s] = {} /\ p.meta[s] = <<>>
        /\ m' = Entered(m, p, s)
        /\ pc' = "scanned"
        /\ UNCHANGED <<text, fed, fsm, user, token>>

\* Mutant: the line is scanned again from its begin.
RescanAtBol ==
    \E x \in {Restopped(m)} :
        /\ pc = "scanned"
        /\ x.ded > 0 /\ x.col = 0 /\ fsm.bol
        /\ Start([x EXCEPT !.ded = @ + Len(x.tab), !.tab = <<>>, !.pos = x.ind,
                           !.mrk = FALSE], TRUE)
        /\ UNCHANGED <<text, fed, user, token>>

\* Dedents are pending at the margin: all stops are dropped and the line is
\* scanned again, without being at the begin of a line.
Rescan ==
    \E x \in {Restopped(m)} :
        /\ pc = "scanned"
        /\ x.ded > 0 /\ x.col = 0 /\ fsm.bol
        /\ Start([x EXCEPT !.ded = @ + Len(x.tab), !.tab = <<>>, !.pos = x.ind],
                 FALSE)
        /\ UNCHANGED <<text, fed, user, token>>

\* The rest of matcher_scan: an empty match is rejected, unless it is a
\* dedent, and the next match starts behind this one.
ScanEnd ==
    \E x \in {Restopped(m)} :
    LET y == [x EXCEPT !.ded = IF @ > 0 THEN @ - 1 ELSE @,
                       !.cur = IF x.cap = 0 THEN x.txt ELSE @,
                       !.len = (IF x.cap = 0 THEN x.txt ELSE x.cur) - x.txt]
        rejected == y.len = 0 /\ ~fsm.nul
    IN  /\ pc = "scanned"
        /\ x.ded = 0 \/ x.col # 0 \/ ~fsm.bol
        /\ \/ /\ rejected
              /\ \E k \in Chunks([y EXCEPT !.pos = y.cur]) :
                   LET z == Ready([y EXCEPT !.pos = y.cur], k)
                   IN  /\ m' = [SetCurrent(z) EXCEPT !.cap = 0]
                       /\ fed' = fed + k
           \/ /\ ~rejected
              /\ m' = IF y.len = 0 /\ y.cur = y.end THEN y ELSE SetCurrent(y)
              /\ UNCHANGED fed
        /\ pc' = "deliver"
        /\ UNCHANGED <<text, fsm, user, token>>

\* yytext and yyposition are set, then the action of the rule runs; without
\* a rule the lexer reports an error, or the end when nothing is left.
Deliver ==
    \E x \in {Counted(Terminated(m))} :
    LET part == [i \in 1..x.len |-> x.buf[x.txt + i - 1]]
    IN  /\ pc = "deliver"
        /\ m' = x
        /\ token' = [kind |-> CASE x.cap > 0 -> "rule"
                                [] x.cap = 0 /\ ~AtEnd(x) -> "error"
                                [] OTHER -> "end",
                     rule |-> x.cap, text |-> part, line |-> x.lno,
                     col |-> x.cno]
        /\ user' = IF x.cap > 0 THEN Act(user, x.cap, part) ELSE user
        /\ pc' = IF x.cap > 0 THEN "loop" ELSE "done"
        /\ UNCHANGED <<text, fed, fsm>>

Done == pc = "done" /\ UNCHANGED vars

Next == Scan \/ Finish \/ Jump \/ Step \/ Halt \/ Rescan \/ ScanEnd \/ Deliver
        \/ Done

Spec == Init /\ [][Next]_vars /\ WF_vars(Next)

-----------------------------------------------------------------------------

\* The matcher's positions stay inside its buffer and the automaton in a
\* state of the pattern.
TypeOK ==
    /\ text \in Texts /\ fed \in 0..Len(text)
    /\ pc \in {"loop", "fsm", "scanned", "deliver", "done"}
    /\ DOMAIN m.buf = 0..m.max - 1
    /\ {m.txt, m.txt + m.len, m.cur, m.pos, m.ind, m.lpb} \subseteq 0..m.end
    /\ m.end < m.max
    /\ fsm.bol \in BOOLEAN /\ fsm.nul \in BOOLEAN
    /\ pc = "fsm" => fsm.state \in DOMAIN Current.accept
    /\ token.kind \in {"none", "rule", "error", "end"}

\* Through every read, shift and enlargement, in the middle of a token too,
\* the buffer holds the input from num_ on up to what has been read; where the
\* terminator is, the character is in chr_.
Content(i) == IF i = m.txt + m.len /\ m.chr # "nul" THEN m.chr ELSE m.buf[i]

BufferIsText ==
    /\ fed = m.num + m.end
    /\ \A i \in 0..m.end - 1 : Content(i) = text[m.num + i + 1]

\* What has been consumed: the cursor stands behind the last match while the
\* lexer is between two scans, and at the begin of the match during one.
Consumed == m.num + (IF pc \in {"loop", "done"} THEN m.cur ELSE m.txt)

Cursor == INSTANCE Scanner WITH at <- Consumed

\* The tokens, with their text, line, column and the action they run, are
\* those of a cursor over the whole text that takes the longest match: the
\* size of the buffer, the pieces the input comes in, the shifts and the
\* enlargements in the middle of a token and the terminator that
\* matcher_text writes into the buffer make no difference.
ImplementsScanner == Cursor!Spec

\* Lexing comes to an end: no text makes it scan a line again, or match
\* nothing, for ever.
EveryTextIsLexed == <>(pc = "done")
=============================================================================
