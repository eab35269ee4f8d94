----------------------------- MODULE FillTable -----------------------------
(***************************************************************************)
(* GrammarState::fill_table (src/src/parsergen/derivation.cc): one row of  *)
(* the parsing table.  The shifts go in first; then every final item       *)
(* writes its reduction under each of its lookaheads, over whatever is     *)
(* there, unless %right keeps a shift.  The items come in the order of a   *)
(* hash table.                                                             *)
(***************************************************************************)
EXTENDS Integers, FiniteSets

CONSTANTS
  Columns,    \* the action tokens
  EOF,        \* the end of the input, which no rule has
  Reductions, \* reduce ids of the rules
  Memory,     \* what an entry of precedence_table nobody wrote may hold
  Shift, Reduce, Accept, SyntaxError  \* the masks

Precedences == {"none", "left", "right"}

ASSUME FillAssumption ==
  /\ IsFiniteSet(Columns) /\ EOF \in Columns
  /\ Memory \subseteq Precedences
  /\ Reductions \subseteq Nat \ {0}
  /\ Shift # Reduce /\ Reduce # Accept /\ Accept # Shift
  /\ SyntaxError \notin {Shift, Reduce, Accept}

\* A final item is named by the reduce id of its rule.
Augment == 0
Finals  == Reductions \cup {Augment}

VARIABLES
  shifts,           \* the action tokens among the keys of dfa
  look_ahead,       \* the final items of the state, with their lookaheads
  declared,         \* precedence_mapping: the tokens of %left and %right
  precedence_table,
  left,             \* the final items the loop has not reached
  row,              \* a mask and a reduce id per column
  rr_conflicts, sr_conflicts

input == <<shifts, look_ahead, declared, precedence_table>>
rowVars == <<input, left, row, rr_conflicts, sr_conflicts>>

Entries == ({Shift, SyntaxError} \X {0}) \cup ({Reduce} \X Reductions)
           \cup ({Accept} \X {0})

TypeOK ==
  /\ shifts \subseteq Columns
  /\ DOMAIN look_ahead \subseteq Finals
  /\ \A f \in DOMAIN look_ahead : look_ahead[f] \subseteq Columns
  /\ DOMAIN declared \subseteq Columns
  /\ precedence_table \in [Columns -> Precedences]
  /\ left \subseteq DOMAIN look_ahead
  /\ row \in [Columns -> Entries]
  /\ rr_conflicts \in Nat /\ sr_conflicts \in Nat

-----------------------------------------------------------------------------
\* The table comes from `new uint8_t[..]': what is not declared is not set.
Precedence(d) ==
  {p \in [Columns -> Precedences] :
     \A i \in Columns : IF i \in DOMAIN d THEN p[i] = d[i] ELSE p[i] \in Memory}

RowInit ==
  /\ shifts \in SUBSET (Columns \ {EOF})
  /\ \E F \in SUBSET Finals : look_ahead \in [F -> SUBSET Columns \ {{}}]
  /\ Augment \in DOMAIN look_ahead => look_ahead[Augment] = {EOF}
  /\ \E D \in SUBSET Columns : declared \in [D -> {"left", "right"}]
  /\ precedence_table \in Precedence(declared)
  /\ left = DOMAIN look_ahead
  /\ row = [i \in Columns |-> IF i \in shifts THEN <<Shift, 0>>
                              ELSE <<SyntaxError, 0>>]
  /\ rr_conflicts = 0 /\ sr_conflicts = 0

Entry(f) == IF f = Augment THEN <<Accept, 0>> ELSE <<Reduce, f>>

Is(i, mask) == row[i][1] = mask

\* Mutant: %left keeps the shift, as %right does.
KeptAlways(f) ==
  {i \in look_ahead[f] : Is(i, Shift) /\ precedence_table[i] # "none"}

\* The columns of f where the entry is kept, and where a conflict is counted.
Kept(f) ==
  {i \in look_ahead[f] : Is(i, Shift) /\ precedence_table[i] = "right"}

RRConflicts(f) == {i \in look_ahead[f] : Is(i, Reduce)}

\* Mutant: only RR conflicts are counted.
NoSRConflicts(f) == {}

SRConflicts(f) ==
  {i \in look_ahead[f] : Is(i, Shift) /\ precedence_table[i] = "none"}

Final(f) ==
  /\ left' = left \ {f}
  /\ row' = [i \in Columns |-> IF i \in look_ahead[f] \ Kept(f) THEN Entry(f)
                               ELSE row[i]]
  /\ rr_conflicts' = rr_conflicts + Cardinality(RRConflicts(f))
  /\ sr_conflicts' = sr_conflicts + Cardinality(SRConflicts(f))
  /\ UNCHANGED input

RowNext == \E f \in left : Final(f)

RowSpec == RowInit /\ [][RowNext]_rowVars

-----------------------------------------------------------------------------
Filled == left = {}

Contributors(i) == {f \in DOMAIN look_ahead : i \in look_ahead[f]}

ShiftKept(i) == i \in shifts /\ precedence_table[i] = "right"

Conflict(i) ==
  /\ ~ ShiftKept(i)
  /\ \/ \E f, g \in Contributors(i) : f # g
     \/ i \in shifts /\ precedence_table[i] # "left" /\ Contributors(i) # {}

(***************************************************************************)
(* A row is reported only if two moves compete for an entry, and whenever  *)
(* they do, ACCEPT aside (see MCFillTable).                                *)
(***************************************************************************)
Reported == rr_conflicts + sr_conflicts > 0

ConflictsReported ==
  /\ Reported => \E i \in Columns : Conflict(i)
  /\ Filled => \A i \in Columns :
       Conflict(i) /\ Augment \notin Contributors(i) => Reported

(***************************************************************************)
(* In a column without a conflict the entry is the only move the items     *)
(* allow, whatever the order in which they came.                           *)
(***************************************************************************)
OnlyMove(i) ==
  IF i \in shifts /\ (Contributors(i) = {} \/ ShiftKept(i)) THEN {<<Shift, 0>>}
  ELSE IF Contributors(i) = {} THEN {<<SyntaxError, 0>>}
  ELSE {Entry(f) : f \in Contributors(i)}

RowDetermined ==
  Filled => \A i \in Columns : ~ Conflict(i) => OnlyMove(i) = {row[i]}
=============================================================================
