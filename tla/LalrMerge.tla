----------------------------- MODULE LalrMerge -----------------------------
(***************************************************************************)
(* The LALR(1) half of CanonicalCollection::resolve                        *)
(* (src/src/parsergen/canonical_collection.cc): states with equal LR(0)    *)
(* items are merged while their ids stay the row numbers of a dense        *)
(* table.  A merge frees an id, which the state with the last id takes;    *)
(* ids go down to the states merged before.  The collection is a hash set, *)
(* so the states come in any order.                                        *)
(***************************************************************************)
EXTENDS Integers

CONSTANTS
  N,           \* number of states of the CLR(1) collection
  Cores,       \* the assignments of LR(0) item sets to states considered
  Marks,       \* pairs of an item and a token it may be reduced on
  InitialLook  \* the lookaheads of each state, a set of such pairs

\* A state is named by the id that add_state gave it; 0 is the augment state.
States == 0 .. N - 1

ASSUME LalrAssumption ==
  /\ N \in Nat \ {0}
  /\ InitialLook \in [States -> SUBSET Marks]

VARIABLES
  core,           \* the LR(0) items of each state
  left,           \* the states the loop has not reached
  lalr_states,    \* the first state of each core that the loop has met
  state_id,       \* GrammarState::state_id
  state_id_to_ptr_,
  state_n_,
  merged_states,  \* GrammarState::merged_states
  look_ahead      \* GrammarState::lr1_items[..].look_ahead

vars == <<core, left, lalr_states, state_id, state_id_to_ptr_, state_n_,
          merged_states, look_ahead>>

TypeOK ==
  /\ core \in Cores
  /\ left \subseteq States /\ lalr_states \subseteq States \ left
  /\ state_id \in [States -> States]
  /\ state_n_ \in 1 .. N
  /\ state_id_to_ptr_ \in [0 .. state_n_ - 1 -> States]
  /\ merged_states \in [States -> SUBSET States]
  /\ look_ahead \in [States -> SUBSET Marks]

Init ==
  /\ core \in Cores
  /\ left = States /\ lalr_states = {}
  /\ state_id = [s \in States |-> s]
  /\ state_id_to_ptr_ = [s \in States |-> s]
  /\ state_n_ = N
  /\ merged_states = [s \in States |-> {}]
  /\ look_ahead = InitialLook

-----------------------------------------------------------------------------
\* The states set_id reaches from s.
Tree(merged, s) ==
  {t \in States : \A S \in SUBSET States :
     s \in S /\ (\A u \in S : merged[u] \subseteq S) => t \in S}

\* Mutant: merged_states is forgotten.
SetIdAlone(ids, merged, s, id) == [ids EXCEPT ![s] = id]

SetId(ids, merged, s, id) ==
  [t \in States |-> IF t \in Tree(merged, s) THEN id ELSE ids[t]]

\* The first of its core.
Insert(s) ==
  /\ \A r \in lalr_states : core[r] # core[s]
  /\ lalr_states' = lalr_states \cup {s}
  /\ UNCHANGED <<state_id, state_id_to_ptr_, state_n_, merged_states, look_ahead>>

\* to_remove takes the id of merge; with merge the last, nothing moves.
last == state_n_ - 1

TableAfter(merge) ==
  [i \in 0 .. last - 1 |-> IF i = state_id[merge] THEN state_id_to_ptr_[last]
                           ELSE state_id_to_ptr_[i]]

IdsAfter(merged, keep, merge) ==
  LET moved == IF state_id[merge] = last THEN state_id
               ELSE SetId(state_id, merged, state_id_to_ptr_[last], state_id[merge])
  IN SetId(moved, merged, keep, moved[keep])

\* Mutant: the states are joined, their lookaheads are not.
LookaheadsKept(keep, merge) == look_ahead

LookaheadsAfter(keep, merge) ==
  [look_ahead EXCEPT ![keep] = look_ahead[keep] \cup look_ahead[merge]]

\* keep->lalr_merge(merge), and the ids.
MergeInto(keep, merge) ==
  LET merged == [merged_states EXCEPT ![keep] = merged_states[keep] \cup {merge}]
  IN /\ look_ahead' = LookaheadsAfter(keep, merge)
     /\ merged_states' = merged
     /\ state_n_' = last
     /\ state_id_to_ptr_' = TableAfter(merge)
     /\ state_id' = IdsAfter(merged, keep, merge)

\* Mutant: the two states themselves are merged, not those their ids stand for.
MergeNotTop(s, r) ==
  /\ core[r] = core[s]
  /\ IF state_id[r] < state_id[s] THEN MergeInto(r, s) ELSE MergeInto(s, r)
  /\ UNCHANGED lalr_states

\* The lower id is kept; the table tells which state stands for it by now.
Merge(s, r) ==
  /\ core[r] = core[s]
  /\ LET top(t) == state_id_to_ptr_[state_id[t]]
     IN IF state_id[r] < state_id[s] THEN MergeInto(top(r), top(s))
        ELSE MergeInto(top(s), top(r))
  /\ UNCHANGED lalr_states

Visit(s) ==
  /\ left' = left \ {s}
  /\ Insert(s) \/ \E r \in lalr_states : Merge(s, r)
  /\ UNCHANGED core

Next == \E s \in left : Visit(s)

Spec == Init /\ [][Next]_vars
FairSpec == Spec /\ WF_vars(Next)

-----------------------------------------------------------------------------
ClassOf(i) == {s \in States : state_id[s] = i}

OfClass(c) == UNION {InitialLook[s] : s \in c}

(***************************************************************************)
(* Ids stay row numbers: whatever was merged and moved before, every state *)
(* has an id below state_n_, each such id has a state of that id in the    *)
(* table, and set_id reaches from it all the states of the id and no       *)
(* other.  The asserts of lines 212 and 221 follow.  The augment state,    *)
(* where the parser starts, keeps row 0.                                   *)
(***************************************************************************)
IdsConsistent ==
  /\ \A s \in States : state_id[s] < state_n_
  /\ \A i \in 0 .. last :
       /\ state_id[state_id_to_ptr_[i]] = i
       /\ Tree(merged_states, state_id_to_ptr_[i]) = ClassOf(i)
  /\ state_id[0] = 0 /\ state_id_to_ptr_[0] = 0

(***************************************************************************)
(* Two states the loop has met have one row exactly when they have the     *)
(* same LR(0) items, and the row's lookaheads are theirs together.         *)
(***************************************************************************)
RowsAreCores ==
  /\ \A s, t \in States :
       /\ state_id[s] = state_id[t] => core[s] = core[t]
       /\ core[s] = core[t] /\ s \notin left /\ t \notin left =>
            state_id[s] = state_id[t]
  /\ \A i \in 0 .. last :
       look_ahead[state_id_to_ptr_[i]] = OfClass(ClassOf(i))

(***************************************************************************)
(* The classes of ids and the rows that stand for them are the classes of  *)
(* StateClasses: the merge implements it.                                  *)
(***************************************************************************)
Rows == [c \in {ClassOf(i) : i \in 0 .. last} |->
           UNION {look_ahead[state_id_to_ptr_[i]] :
                    i \in {j \in 0 .. last : ClassOf(j) = c}}]

Classes == INSTANCE StateClasses WITH rows <- Rows
Quotient == Classes!Spec
=============================================================================
