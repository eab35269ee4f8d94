---------------------------- MODULE StateClasses ----------------------------
(***************************************************************************)
(* What merging the states of a CLR(1) collection promises: states with    *)
(* the same LR(0) items end in one class, whose lookaheads are the union   *)
(* of its members'.  Nothing is said of ids, pointers or the order.        *)
(***************************************************************************)
CONSTANTS
  States,      \* the states of the CLR(1) collection
  Marks,       \* the lookaheads a state can have, item by item
  InitialLook  \* those each state has

VARIABLES
  core,        \* the LR(0) items of each state
  rows         \* the lookaheads of each class of states

Init ==
  rows = [c \in {{s} : s \in States} |-> UNION {InitialLook[s] : s \in c}]

SameCore(c, d) == \A s \in c, t \in d : core[s] = core[t]

Join(c, d) ==
  /\ c # d /\ SameCore(c, d)
  /\ rows' = [e \in (DOMAIN rows \ {c, d}) \cup {c \cup d} |->
                IF e = c \cup d THEN rows[c] \cup rows[d] ELSE rows[e]]
  /\ UNCHANGED core

Next == \E c, d \in DOMAIN rows : Join(c, d)

Spec == Init /\ [][Next]_<<core, rows>> /\ WF_<<core, rows>>(Next)
=============================================================================
