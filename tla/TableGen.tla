------------------------------ MODULE TableGen ------------------------------
(***************************************************************************)
(* The parsing table of a grammar, put together from what the parts of the *)
(* generator are shown to compute: vectors that are FIRST, item sets that  *)
(* are closed, their automaton (Collection), rows shared by states with    *)
(* the same LR(0) items (LalrMerge), and entries (FillTable).  Which       *)
(* number a state gets depends on hash tables; any will do, as long as the *)
(* augment state has row 0.                                                *)
(***************************************************************************)
EXTENDS Naturals, Sequences, SequencesExt, FiniteSetsExt

CONSTANTS
  Terminals,     \* the action tokens in the order of their ids, "$" first
  Types,         \* the grammar tokens, which follow them
  Productions,   \* grammar_rules: the augment rule and the others
  Precedence     \* precedence_mapping: "left" or "right" for some terminals

Actions == Range(Terminals)
Columns == Terminals \o Types
ToIndex(s) == (CHOOSE c \in DOMAIN Columns : Columns[c] = s) - 1

-----------------------------------------------------------------------------
\* The vectors at the end of the descent, of grammars where it sees all.
BeginsWith(A) == {Productions[r].grammar[1] :
                    r \in {q \in DOMAIN Productions :
                             /\ Productions[q].token = A
                             /\ Productions[q].grammar # <<>>}}
Keys == {Productions[r].token : r \in DOMAIN Productions}

RECURSIVE Reaches(_)
Reaches(S) == LET more == S \cup UNION {BeginsWith(A) : A \in S \cap Keys}
              IN  IF more = S THEN S ELSE Reaches(more)
FirstOfs == [A \in Keys |-> Reaches({A}) \cap Actions]

RECURSIVE MayBeEmpty(_)
MayBeEmpty(E) ==
    LET more == {Productions[r].token :
                   r \in {q \in DOMAIN Productions :
                            \/ Productions[q].grammar = <<>>
                            \/ \E A \in E : Productions[q].grammar = <<A>>}}
    IN  IF more = E THEN E ELSE MayBeEmpty(more)

CLR == INSTANCE MCCollection WITH
         Actions <- Actions, Rules <- Productions, FirstOfs <- FirstOfs,
         HasEmpty <- MayBeEmpty({}),
         kernel <- <<>>, lr1_items <- <<>>, expanded <- {}, dirty <- {},
         next_dirty <- {}, phase <- "idle", states_ <- <<>>, state_n_ <- 0,
         state_id_to_ptr_ <- <<>>, dfa <- <<>>, stack <- <<>>

-----------------------------------------------------------------------------
(* Rows.  lalr_merge: the states with the same LR(0) items are one row,     *)
(* which reduces with the lookaheads of them all and moves as each does.   *)

IsFinal(it) == it[2] = Len(Productions[it[1]].grammar)
Final(core) == {it \in core : IsFinal(it)}

\* The final items of the states with a core, by their reduce id.
LookAhead(core, states) ==
    [id \in {it[1] - 1 : it \in Final(core)} |->
       UNION {I[CHOOSE it \in Final(core) : it[1] = id + 1] : I \in states}]

RowOf(core, closed, goto) ==
    LET states == {I \in closed : DOMAIN I = core}
        moves  == goto[CHOOSE I \in states : TRUE]
    IN  [core       |-> core,
         look_ahead |-> LookAhead(core, states),
         dfa        |-> [s \in DOMAIN moves |-> DOMAIN moves[s]]]

Rows ==
    LET closed == CLR!Closed
        goto   == CLR!GotoTable
        first  == DOMAIN CLR!First
    IN  FoldSet(LAMBDA core, rows : Append(rows, RowOf(core, closed, goto)),
                <<RowOf(first, closed, goto)>>,
                {DOMAIN I : I \in closed} \ {first})

Number(rows, core) == (CHOOSE n \in DOMAIN rows : rows[n].core = core) - 1

-----------------------------------------------------------------------------
(* fill_table: the shifts and gotos of a row, and its final items over      *)
(* them.                                                                   *)

Reductions(row, t) == {id \in DOMAIN row.look_ahead : t \in row.look_ahead[id]}
Solves(t, side)    == t \in DOMAIN Precedence /\ Precedence[t] = side

ShiftKept(row, t) ==
    t \in DOMAIN row.dfa /\ (Reductions(row, t) = {} \/ Solves(t, "right"))

Conflict(row, t) ==
    /\ ~ShiftKept(row, t) /\ Reductions(row, t) # {}
    /\ \/ Cardinality(Reductions(row, t)) > 1
       \/ t \in DOMAIN row.dfa /\ ~Solves(t, "left")

Word(rows, row, t) ==
    IF ShiftKept(row, t) THEN [op |-> "shift", arg |-> Number(rows, row.dfa[t])]
    ELSE CASE Reductions(row, t) = {}   -> [op |-> "error", arg |-> 0]
           [] 0 \in Reductions(row, t) -> [op |-> "accept", arg |-> 0]
           [] OTHER -> [op  |-> "reduce",
                        arg |-> CHOOSE id \in Reductions(row, t) : TRUE]

\* The states two tables are in after the same symbols.
RECURSIVE Together(_, _, _)
Together(T, U, pairs) ==
    LET next == {<<T[p[1]][c].arg, U[p[2]][c].arg>> :
                   <<p, c>> \in {q \in pairs \X (0..Len(Columns) - 1) :
                                  /\ T[q[1][1]][q[2]].op = "shift"
                                  /\ U[q[1][2]][q[2]].op = "shift"}}
    IN  IF next \subseteq pairs THEN pairs ELSE Together(T, U, pairs \cup next)

Filled(rows) == [n \in 0..Len(rows) - 1 |->
                  [c \in 0..Len(Columns) - 1 |->
                     Word(rows, rows[n + 1], Columns[c + 1])]]

\* CanonicalCollection::generate, where no two moves compete for an entry: T is
\* the table it fills, up to the numbers of its states.
IsGenerated(T) ==
    LET U     == Filled(Rows)
        pairs == Together(T, U, {<<0, 0>>})
    IN  /\ DOMAIN T = {p[1] : p \in pairs} /\ DOMAIN U = {p[2] : p \in pairs}
        /\ \A p, q \in pairs : p[1] = q[1] <=> p[2] = q[2]
        /\ \A p \in pairs : \A c \in 0..Len(Columns) - 1 :
             LET t == T[p[1]][c]
                 u == U[p[2]][c]
             IN  t.op = u.op /\ (t.op # "shift" => t.arg = u.arg)

\* The LR(0) items of the states of such a table, the augment rule counted 0.
ItemsOf(T) ==
    LET rows  == Rows
        pairs == Together(T, Filled(rows), {<<0, 0>>})
    IN  [s \in DOMAIN T |->
           LET p == CHOOSE q \in pairs : q[1] = s
           IN  {<<it[1] - 1, it[2]>> : it \in rows[p[2] + 1].core}]

\* generate returns 0: no conflict is counted in any row.
Solved == LET rows == Rows
          IN  \A row \in Range(rows), t \in Actions : ~Conflict(row, t)

\* put_rules: the rules as the parser knows them.
PrintedRules == [r \in 1..Len(Productions) - 1 |->
            [token |-> ToIndex(Productions[r + 1].token),
             tok_n |-> Len(Productions[r + 1].grammar)]]
Bodies == [r \in 0..Len(Productions) - 1 |->
             [k \in DOMAIN Productions[r + 1].grammar |->
                ToIndex(Productions[r + 1].grammar[k])]]
=============================================================================
