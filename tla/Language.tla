------------------------------ MODULE Language ------------------------------
(***************************************************************************)
(* What a grammar says, up to a length: the words of each symbol and what  *)
(* they begin with, as least fixed points of its productions.  There is    *)
(* nothing of an automaton here.  Every nonterminal is taken to have a     *)
(* word.                                                                   *)
(***************************************************************************)
EXTENDS Naturals, Sequences, SequencesExt

CONSTANTS Terminals,
          Productions,   \* a sequence of [token, grammar]
          MaxWord        \* bound: length of the words considered

Symbols == Terminals \cup {Productions[r].token : r \in DOMAIN Productions}
Bodies(A) == {Productions[r].grammar :
                r \in {q \in DOMAIN Productions : Productions[q].token = A}}

Joined(X, Y) == {p[1] \o p[2] : p \in
                   {q \in X \X Y : Len(q[1]) + Len(q[2]) <= MaxWord}}

\* The words of a production, given those of each symbol, and what they begin
\* with: some symbols in full and a beginning of the next.
InFull(words, body) == FoldLeft(LAMBDA X, s : Joined(X, words[s]), {<<>>}, body)
InPart(words, begin, body) ==
    {<<>>} \cup UNION {Joined(InFull(words, SubSeq(body, 1, k - 1)),
                              begin[body[k]]) : k \in DOMAIN body}

RECURSIVE WordsFrom(_), BeginningsFrom(_, _)
WordsFrom(f) ==
    LET g == [s \in Symbols |-> IF s \in Terminals THEN {<<s>>}
                                ELSE UNION {InFull(f, b) : b \in Bodies(s)}]
    IN  IF g = f THEN f ELSE WordsFrom(g)
BeginningsFrom(words, f) ==
    LET g == [s \in Symbols |-> IF s \in Terminals THEN {<<>>, <<s>>}
                                ELSE UNION {InPart(words, f, b) : b \in Bodies(s)}]
    IN  IF g = f THEN f ELSE BeginningsFrom(words, g)

Words      == WordsFrom([s \in Symbols |-> {}])
Beginnings == BeginningsFrom(Words, [s \in Symbols |-> {}])
=============================================================================
