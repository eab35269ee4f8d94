---------------------------- MODULE MCFillTable ----------------------------
(***************************************************************************)
(* Instances of FillTable: every row of a state with up to two rules and   *)
(* the augment rule to reduce, in every order.                             *)
(***************************************************************************)
EXTENDS FillTable

(***************************************************************************)
(* "If the row at this point is already filled, there is a conflict"       *)
(* (derivation.cc:241): an entry that is written twice is reported.        *)
(***************************************************************************)
FilledIsConflict ==
  Filled /\ (\E i \in Columns : Cardinality(Contributors(i)) > 1 /\ ~ ShiftKept(i))
    => Reported

(***************************************************************************)
(* "To solve these type of issues, neoast has `%left` and `%right`         *)
(* switches" (README.md:367): an SR conflict on a token that has neither   *)
(* is not solved, and is reported.                                         *)
(***************************************************************************)
SwitchesSolve ==
  Filled =>
    \A i \in shifts \ DOMAIN declared : Contributors(i) # {} => Reported
=============================================================================
