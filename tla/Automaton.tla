------------------------------ MODULE Automaton ------------------------------
(***************************************************************************)
(* What the construction of an LR automaton promises: from its start all   *)
(* states are found and all their transitions drawn, in any order, each    *)
(* once, and nothing else.                                                 *)
(***************************************************************************)
CONSTANTS Start, Symbols,
          Moves(_),     \* the symbols a state moves on
          Goto(_, _)    \* where it moves to

VARIABLES found, edges

vars == <<found, edges>>

Init == found = {Start} /\ edges = {}

Left == {e \in found \X Symbols : e[2] \in Moves(e[1])}
          \ {<<e[1], e[2]>> : e \in edges}

Draw ==
  \E e \in Left :
    LET to == Goto(e[1], e[2])
    IN  found' = found \cup {to} /\ edges' = edges \cup {<<e[1], e[2], to>>}

Spec == Init /\ [][Draw]_vars /\ WF_vars(Draw)
=============================================================================
