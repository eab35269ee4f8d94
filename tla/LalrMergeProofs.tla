-------------------------- MODULE LalrMergeProofs --------------------------
(***************************************************************************)
(* Merging keeps ids and rows consistent and computes the classes of the   *)
(* LR(0) items, for any number of states in any order.                     *)
(***************************************************************************)
EXTENDS LalrMerge, TLAPS

-----------------------------------------------------------------------------
(***************************************************************************)
(* Tree(m, s) is the least set that contains s and is closed under m.      *)
(***************************************************************************)
ClosedUnder(m, S) == \A u \in S : m[u] \subseteq S

LEMMA TreeFacts ==
  ASSUME NEW m \in [States -> SUBSET States], NEW s \in States
  PROVE  /\ s \in Tree(m, s) /\ Tree(m, s) \subseteq States
         /\ ClosedUnder(m, Tree(m, s))
  BY DEF Tree, ClosedUnder

LEMMA TreeLeast ==
  ASSUME NEW m, NEW S \in SUBSET States, NEW s \in S, ClosedUnder(m, S)
  PROVE  Tree(m, s) \subseteq S
  BY DEF Tree, ClosedUnder

Adopted(m, k, g) == [m EXCEPT ![k] = m[k] \cup {g}]

LEMMA AdoptedType ==
  ASSUME NEW m \in [States -> SUBSET States], NEW k \in States, NEW g \in States
  PROVE  /\ Adopted(m, k, g) \in [States -> SUBSET States]
         /\ \A u \in States : Adopted(m, k, g)[u] =
              IF u = k THEN m[k] \cup {g} ELSE m[u]
  BY DEF Adopted

LEMMA TreeFrame ==
  ASSUME NEW m \in [States -> SUBSET States], NEW k \in States, NEW g \in States,
         NEW s \in States
  PROVE  k \notin Tree(m, s) => Tree(Adopted(m, k, g), s) = Tree(m, s)
<1> DEFINE a == Adopted(m, k, g)
<1>0. a = Adopted(m, k, g)
  OBVIOUS
<1> HIDE DEF a
<1>1. /\ a \in [States -> SUBSET States]
      /\ \A u \in States : a[u] = IF u = k THEN m[k] \cup {g} ELSE m[u]
  BY <1>0 DEF Adopted
<1> SUFFICES ASSUME k \notin Tree(m, s) PROVE Tree(a, s) = Tree(m, s)
  BY <1>0
<1>2. Tree(a, s) \subseteq Tree(m, s)
  <2>1. /\ s \in Tree(m, s) /\ Tree(m, s) \subseteq States
        /\ ClosedUnder(m, Tree(m, s))
    BY TreeFacts
  <2>2. ClosedUnder(a, Tree(m, s))
    BY <1>1, <2>1 DEF ClosedUnder
  <2>3. QED
    BY <2>1, <2>2, TreeLeast
<1>3. Tree(m, s) \subseteq Tree(a, s)
  <2>1. /\ s \in Tree(a, s) /\ Tree(a, s) \subseteq States
        /\ ClosedUnder(a, Tree(a, s))
    BY <1>1, TreeFacts
  <2>2. ClosedUnder(m, Tree(a, s))
    BY <1>1, <2>1 DEF ClosedUnder
  <2>3. QED
    BY <2>1, <2>2, TreeLeast
<1>4. QED
  BY <1>2, <1>3

LEMMA TreeJoin ==
  ASSUME NEW m \in [States -> SUBSET States], NEW k \in States, NEW g \in States
  PROVE  Tree(Adopted(m, k, g), k) = Tree(m, k) \cup Tree(m, g)
<1> DEFINE a == Adopted(m, k, g)
           S == Tree(m, k) \cup Tree(m, g)
<1>1. /\ a \in [States -> SUBSET States]
      /\ \A u \in States : a[u] = IF u = k THEN m[k] \cup {g} ELSE m[u]
  BY AdoptedType
<1> HIDE DEF a
<1>2. Tree(a, k) \subseteq S
  <2>1. /\ k \in S /\ g \in S /\ S \subseteq States /\ ClosedUnder(m, S)
    BY TreeFacts DEF ClosedUnder
  <2> HIDE DEF S
  <2>2. ClosedUnder(a, S)
    BY <1>1, <2>1 DEF ClosedUnder
  <2>3. QED
    BY <2>1, <2>2, TreeLeast
<1>3. S \subseteq Tree(a, k)
  <2>1. /\ k \in Tree(a, k) /\ Tree(a, k) \subseteq States
        /\ ClosedUnder(a, Tree(a, k))
    BY <1>1, TreeFacts
  <2>2. ClosedUnder(m, Tree(a, k)) /\ g \in Tree(a, k)
    BY <1>1, <2>1 DEF ClosedUnder
  <2>3. Tree(m, k) \subseteq Tree(a, k) /\ Tree(m, g) \subseteq Tree(a, k)
    BY <2>1, <2>2, TreeLeast
  <2>4. QED
    BY <2>3
<1>4. QED
  BY <1>2, <1>3 DEF a, S

-----------------------------------------------------------------------------
\* A state the loop has not reached shares its id with no other.
Alone == \A s \in left : \A t \in States : state_id[t] = state_id[s] => t = s

\* A state it has reached has its core among lalr_states.
Met == \A s \in States \ left : \E r \in lalr_states : core[r] = core[s]

Inv == TypeOK /\ Alone /\ Met /\ IdsConsistent /\ RowsAreCores

LEMMA InitInv == Init => Inv
<1> SUFFICES ASSUME Init PROVE Inv
  OBVIOUS
<1>1. N \in Nat /\ N > 0 /\ States = 0 .. N - 1 /\ 0 \in States
  BY LalrAssumption DEF States
<1>2. TypeOK
  BY <1>1, LalrAssumption DEF Init, TypeOK, States
<1>3. Alone /\ Met
  BY DEF Init, Alone, Met
<1>4. ASSUME NEW s \in States
      PROVE  Tree(merged_states, s) = {s} /\ ClassOf(s) = {s}
  <2>1. ClassOf(s) = {s}
    BY DEF Init, ClassOf
  <2>2. merged_states \in [States -> SUBSET States]
    BY <1>2 DEF TypeOK
  <2>3. ClosedUnder(merged_states, {s})
    BY DEF Init, ClosedUnder
  <2>4. Tree(merged_states, s) \subseteq {s} /\ s \in Tree(merged_states, s)
    BY <2>2, <2>3, TreeLeast, TreeFacts
  <2>5. QED
    BY <2>1, <2>4
<1>5. IdsConsistent
  <2>1. 0 .. last = States /\ \A s \in States : s < state_n_
    BY <1>1 DEF Init, last
  <2>2. \A i \in States : Tree(merged_states, state_id_to_ptr_[i]) = ClassOf(i)
    BY <1>4 DEF Init
  <2>3. QED
    BY <1>1, <2>1, <2>2 DEF Init, IdsConsistent
<1>6. RowsAreCores
  <2>1. 0 .. last = States
    BY <1>1 DEF Init, last
  <2>2. \A i \in States : OfClass(ClassOf(i)) = InitialLook[i]
    BY <1>4 DEF OfClass
  <2>3. QED
    BY <2>1, <2>2 DEF Init, RowsAreCores
<1>7. QED
  BY <1>2, <1>3, <1>5, <1>6 DEF Inv

LEMMA Basics ==
  ASSUME Inv
  PROVE  /\ N \in Nat /\ N > 0 /\ States = 0 .. N - 1 /\ 0 \in States
         /\ state_n_ \in 1 .. N /\ last \in Nat /\ last < N
         /\ state_id \in [States -> 0 .. last]
         /\ state_id_to_ptr_ \in [0 .. last -> States]
         /\ merged_states \in [States -> SUBSET States]
<1>1. N \in Nat /\ N > 0 /\ States = 0 .. N - 1 /\ 0 \in States
  BY LalrAssumption DEF States
<1>2. /\ state_n_ \in 1 .. N /\ state_id \in [States -> States]
      /\ state_id_to_ptr_ \in [0 .. last -> States]
      /\ merged_states \in [States -> SUBSET States]
  BY DEF Inv, TypeOK, last
<1>3. last \in Nat /\ last < N
  BY <1>1, <1>2 DEF last
<1>4. \A s \in States : state_id[s] \in 0 .. last
  <2>1. \A s \in States : state_id[s] < state_n_
    BY DEF Inv, IdsConsistent
  <2>2. \A s \in States : state_id[s] \in Nat
    BY <1>1, <1>2
  <2>3. QED
    BY <1>2, <2>1, <2>2 DEF last
<1>5. QED
  BY <1>1, <1>2, <1>3, <1>4
-----------------------------------------------------------------------------
(***************************************************************************)
(* What one merge does: the states of id b get id a, and those of the last *)
(* id get the id b that is free now.                                       *)
(***************************************************************************)
LEMMA RowFacts ==
  ASSUME Inv, NEW i \in 0 .. last
  PROVE  /\ state_id_to_ptr_[i] \in States
         /\ state_id[state_id_to_ptr_[i]] = i
         /\ \A t \in States :
              t \in Tree(merged_states, state_id_to_ptr_[i]) <=> state_id[t] = i
         /\ Tree(merged_states, state_id_to_ptr_[i]) = ClassOf(i)
<1>1. state_id_to_ptr_[i] \in States
  BY Basics
<1>2. /\ state_id[state_id_to_ptr_[i]] = i
      /\ Tree(merged_states, state_id_to_ptr_[i]) = ClassOf(i)
  BY DEF Inv, IdsConsistent
<1>3. QED
  BY <1>1, <1>2 DEF ClassOf

LEMMA MergeEffect ==
  ASSUME Inv, NEW a \in 0 .. last, NEW b \in 0 .. last, a < b,
         MergeInto(state_id_to_ptr_[a], state_id_to_ptr_[b])
  PROVE  /\ state_n_' = last /\ last \in 1 .. N /\ last' = last - 1
         /\ merged_states' = Adopted(merged_states, state_id_to_ptr_[a],
                                     state_id_to_ptr_[b])
         /\ look_ahead' = LookaheadsAfter(state_id_to_ptr_[a], state_id_to_ptr_[b])
         /\ DOMAIN state_id_to_ptr_' = 0 .. last - 1
         /\ \A i \in 0 .. last - 1 :
              state_id_to_ptr_'[i] = IF i = b THEN state_id_to_ptr_[last]
                                     ELSE state_id_to_ptr_[i]
         /\ state_id' \in [States -> 0 .. last - 1]
         /\ \A t \in States :
              state_id'[t] = IF state_id[t] = b THEN a
                             ELSE IF state_id[t] = last THEN b ELSE state_id[t]
<1> DEFINE keep  == state_id_to_ptr_[a]
           merge == state_id_to_ptr_[b]
           back  == state_id_to_ptr_[last]
           m     == Adopted(merged_states, keep, merge)
<1>1. /\ N \in Nat /\ last \in Nat /\ last < N /\ a \in Nat /\ b \in Nat
      /\ b <= last /\ a < last
      /\ merged_states \in [States -> SUBSET States]
      /\ state_id \in [States -> 0 .. last]
      /\ last \in 0 .. last
  BY Basics
<1>2. /\ keep \in States /\ state_id[keep] = a
      /\ merge \in States /\ state_id[merge] = b
      /\ back \in States /\ state_id[back] = last
      /\ \A t \in States : t \in Tree(merged_states, keep) <=> state_id[t] = a
      /\ \A t \in States : t \in Tree(merged_states, merge) <=> state_id[t] = b
      /\ \A t \in States : t \in Tree(merged_states, back) <=> state_id[t] = last
  BY <1>1, RowFacts
<1>3. /\ merged_states' = m /\ state_n_' = last
      /\ look_ahead' = LookaheadsAfter(keep, merge)
      /\ state_id_to_ptr_' = TableAfter(merge)
      /\ state_id' = IdsAfter(m, keep, merge)
  BY DEF MergeInto, Adopted
<1>4. \A t \in States : t \in Tree(m, keep) <=> state_id[t] \in {a, b}
  BY <1>1, <1>2, TreeJoin
<1>5. \A t \in States : t \in Tree(m, back) <=> state_id[t] = last
  <2>1. keep \notin Tree(merged_states, back)
    BY <1>1, <1>2
  <2>2. Tree(m, back) = Tree(merged_states, back)
    BY <1>1, <1>2, <2>1, TreeFrame
  <2>3. QED
    BY <1>2, <2>2
<1> HIDE DEF keep, merge, back, m
<1>6. \A t \in States :
        state_id'[t] = IF state_id[t] \in {a, b} THEN a
                       ELSE IF state_id[t] = last THEN b ELSE state_id[t]
  <2>1. CASE b = last
    <3>1. state_id' = SetId(state_id, m, keep, a)
      BY <1>2, <1>3, <2>1 DEF IdsAfter
    <3>2. QED
      BY <1>4, <2>1, <3>1 DEF SetId
  <2>2. CASE b # last
    <3> DEFINE moved == SetId(state_id, m, back, b)
    <3>1. \A t \in States :
            moved[t] = IF state_id[t] = last THEN b ELSE state_id[t]
      BY <1>5 DEF SetId
    <3>2. moved[keep] = a
      BY <1>1, <1>2, <3>1
    <3>3. state_id' = SetId(moved, m, keep, moved[keep])
      BY <1>2, <1>3, <2>2 DEF IdsAfter, back
    <3> HIDE DEF moved
    <3>4. QED
      BY <1>1, <1>4, <3>1, <3>2, <3>3 DEF SetId
  <2>3. QED
    BY <2>1, <2>2
<1>7. DOMAIN state_id' = States
  BY <1>3 DEF IdsAfter, SetId
<1>8. \A t \in States :
        state_id'[t] = IF state_id[t] = b THEN a
                       ELSE IF state_id[t] = last THEN b ELSE state_id[t]
  BY <1>1, <1>6
<1>9. \A t \in States : state_id'[t] \in 0 .. last - 1
  <2> SUFFICES ASSUME NEW t \in States PROVE state_id'[t] \in 0 .. last - 1
    OBVIOUS
  <2>1. state_id[t] \in 0 .. last
    BY <1>1
  <2>2. CASE state_id[t] = b
    BY <1>1, <1>8, <2>2
  <2>3. CASE state_id[t] # b /\ state_id[t] = last
    BY <1>1, <1>8, <2>3
  <2>4. CASE state_id[t] # b /\ state_id[t] # last
    BY <1>1, <1>8, <2>1, <2>4
  <2>5. QED
    BY <2>2, <2>3, <2>4
<1>10. state_id' \in [States -> 0 .. last - 1]
  <2>1. state_id' = [t \in States |-> state_id'[t]]
    BY <1>3 DEF IdsAfter, SetId
  <2>2. QED
    BY <1>9, <2>1
<1>11. last' = last - 1 /\ last \in 1 .. N
  BY <1>1, <1>3 DEF last
<1>12. /\ DOMAIN state_id_to_ptr_' = 0 .. last - 1
       /\ \A i \in 0 .. last - 1 :
            state_id_to_ptr_'[i] = IF i = b THEN state_id_to_ptr_[last]
                                   ELSE state_id_to_ptr_[i]
  BY <1>2, <1>3 DEF TableAfter
<1>13. QED
  BY <1>3, <1>8, <1>10, <1>11, <1>12 DEF keep, merge, m

\* The rows after a merge, as sets of states.
LEMMA ClassEffect ==
  ASSUME Inv, NEW a \in 0 .. last, NEW b \in 0 .. last, a < b,
         MergeInto(state_id_to_ptr_[a], state_id_to_ptr_[b]),
         NEW i \in 0 .. last - 1
  PROVE  ClassOf(i)' = IF i = a THEN ClassOf(a) \cup ClassOf(b)
                       ELSE IF i = b THEN ClassOf(last) ELSE ClassOf(i)
<1>1. \A t \in States :
        state_id'[t] = IF state_id[t] = b THEN a
                       ELSE IF state_id[t] = last THEN b ELSE state_id[t]
  BY MergeEffect
<1>2. last \in Nat /\ a \in Nat /\ b \in Nat /\ b <= last /\ i \in Nat /\ i < last
  BY Basics
<1>3. ClassOf(i)' = {t \in States : state_id'[t] = i}
  BY DEF ClassOf
<1>4. CASE i = a
  BY <1>1, <1>2, <1>3, <1>4 DEF ClassOf
<1>5. CASE i # a /\ i = b
  BY <1>1, <1>2, <1>3, <1>5 DEF ClassOf
<1>6. CASE i # a /\ i # b
  BY <1>1, <1>2, <1>3, <1>6 DEF ClassOf
<1>7. QED
  BY <1>4, <1>5, <1>6

-----------------------------------------------------------------------------
(***************************************************************************)
(* The step that merges, with a and b the ids of the two states.           *)
(***************************************************************************)
LEMMA SameId ==
  ASSUME Inv, NEW a \in 0 .. last, NEW b \in 0 .. last, a < b,
         MergeInto(state_id_to_ptr_[a], state_id_to_ptr_[b]),
         NEW t \in States, NEW u \in States
  PROVE  state_id'[t] = state_id'[u] <=>
           state_id[t] = state_id[u] \/ {state_id[t], state_id[u]} \subseteq {a, b}
<1>1. \A v \in States :
        state_id'[v] = IF state_id[v] = b THEN a
                       ELSE IF state_id[v] = last THEN b ELSE state_id[v]
  BY MergeEffect
<1>2. /\ last \in Nat /\ a \in Nat /\ b \in Nat /\ b <= last
      /\ state_id[t] \in 0 .. last /\ state_id[u] \in 0 .. last
  BY Basics
<1>3. QED
  BY <1>1, <1>2

LEMMA LookEffect ==
  ASSUME Inv, NEW a \in 0 .. last, NEW b \in 0 .. last, a < b,
         MergeInto(state_id_to_ptr_[a], state_id_to_ptr_[b]),
         NEW i \in 0 .. last - 1
  PROVE  /\ i = a => look_ahead'[state_id_to_ptr_'[i]] =
                       look_ahead[state_id_to_ptr_[a]]
                       \cup look_ahead[state_id_to_ptr_[b]]
         /\ i # a /\ i = b => look_ahead'[state_id_to_ptr_'[i]] =
                                look_ahead[state_id_to_ptr_[last]]
         /\ i # a /\ i # b => look_ahead'[state_id_to_ptr_'[i]] =
                                look_ahead[state_id_to_ptr_[i]]
<1>1. /\ look_ahead' = [look_ahead EXCEPT ![state_id_to_ptr_[a]] =
                          look_ahead[state_id_to_ptr_[a]]
                          \cup look_ahead[state_id_to_ptr_[b]]]
      /\ state_id_to_ptr_'[i] = IF i = b THEN state_id_to_ptr_[last]
                                ELSE state_id_to_ptr_[i]
  BY MergeEffect DEF LookaheadsAfter
<1>2. /\ last \in Nat /\ a \in Nat /\ b \in Nat /\ b <= last /\ i \in Nat
      /\ i \in 0 .. last /\ last \in 0 .. last
  BY Basics
<1>3. look_ahead \in [States -> SUBSET Marks]
  BY DEF Inv, TypeOK
<1>4. \A j \in 0 .. last : state_id_to_ptr_[j] \in States
                           /\ state_id[state_id_to_ptr_[j]] = j
  BY RowFacts
<1>5. \A j \in 0 .. last : j # a => state_id_to_ptr_[j] # state_id_to_ptr_[a]
  BY <1>2, <1>4
<1>6. CASE i = a
  BY <1>1, <1>2, <1>3, <1>4, <1>6
<1>7. CASE i # a /\ i = b
  BY <1>1, <1>2, <1>3, <1>4, <1>5, <1>7
<1>8. CASE i # a /\ i # b
  BY <1>1, <1>2, <1>3, <1>4, <1>5, <1>8
<1>9. QED
  BY <1>6, <1>7, <1>8

LEMMA MergeIds ==
  ASSUME Inv, NEW a \in 0 .. last, NEW b \in 0 .. last, a < b,
         MergeInto(state_id_to_ptr_[a], state_id_to_ptr_[b])
  PROVE  IdsConsistent'
<1>1. /\ state_n_' = last /\ last' = last - 1 /\ last \in 1 .. N
      /\ merged_states' = Adopted(merged_states, state_id_to_ptr_[a],
                                  state_id_to_ptr_[b])
      /\ state_id' \in [States -> 0 .. last - 1]
      /\ \A i \in 0 .. last - 1 :
           state_id_to_ptr_'[i] = IF i = b THEN state_id_to_ptr_[last]
                                  ELSE state_id_to_ptr_[i]
      /\ \A t \in States :
           state_id'[t] = IF state_id[t] = b THEN a
                          ELSE IF state_id[t] = last THEN b ELSE state_id[t]
  BY MergeEffect
<1>2. /\ last \in Nat /\ a \in Nat /\ b \in Nat /\ b <= last /\ a < last
      /\ last \in 0 .. last /\ 0 \in States
      /\ merged_states \in [States -> SUBSET States]
  BY Basics
<1>3. \A s \in States : state_id'[s] < state_n_'
  BY <1>1, <1>2
<1>4. ASSUME NEW i \in 0 .. last - 1
      PROVE  state_id'[state_id_to_ptr_'[i]] = i
  <2>1. i \in 0 .. last /\ i # last
    BY <1>2
  <2>2. /\ state_id_to_ptr_[i] \in States /\ state_id[state_id_to_ptr_[i]] = i
        /\ state_id_to_ptr_[last] \in States
        /\ state_id[state_id_to_ptr_[last]] = last
    BY <1>2, <2>1, RowFacts
  <2>3. CASE i = b
    BY <1>1, <2>1, <2>2, <2>3
  <2>4. CASE i # b
    BY <1>1, <2>1, <2>2, <2>4
  <2>5. QED
    BY <2>3, <2>4
<1>5. ASSUME NEW i \in 0 .. last - 1
      PROVE  Tree(merged_states', state_id_to_ptr_'[i]) = ClassOf(i)'
  <2>1. i \in 0 .. last /\ i # last
    BY <1>2
  <2>2. ClassOf(i)' = IF i = a THEN ClassOf(a) \cup ClassOf(b)
                      ELSE IF i = b THEN ClassOf(last) ELSE ClassOf(i)
    BY ClassEffect
  <2>3. \A j \in 0 .. last :
          /\ state_id_to_ptr_[j] \in States
          /\ Tree(merged_states, state_id_to_ptr_[j]) = ClassOf(j)
          /\ j # a => state_id_to_ptr_[a] \notin
                        Tree(merged_states, state_id_to_ptr_[j])
    BY RowFacts
  <2>4. CASE i = a
    <3>1. state_id_to_ptr_'[i] = state_id_to_ptr_[a]
      BY <1>1, <1>2, <2>4
    <3>2. Tree(merged_states', state_id_to_ptr_[a]) = ClassOf(a) \cup ClassOf(b)
      BY <1>1, <1>2, <2>3, TreeJoin
    <3>3. QED
      BY <2>2, <2>4, <3>1, <3>2
  <2>5. CASE i # a
    <3>1. PICK j \in 0 .. last :
            /\ j = IF i = b THEN last ELSE i
            /\ j # a
      BY <1>2, <2>1, <2>5
    <3>2. state_id_to_ptr_'[i] = state_id_to_ptr_[j]
      BY <1>1, <3>1
    <3>3. Tree(merged_states', state_id_to_ptr_[j]) = ClassOf(j)
      BY <1>1, <1>2, <2>3, <3>1, TreeFrame
    <3>4. QED
      BY <2>2, <2>5, <3>1, <3>2, <3>3
  <2>6. QED
    BY <2>4, <2>5
<1>6. state_id'[0] = 0 /\ state_id_to_ptr_'[0] = 0
  <2>1. state_id[0] = 0 /\ state_id_to_ptr_[0] = 0
    BY DEF Inv, IdsConsistent
  <2>2. QED
    BY <1>1, <1>2, <2>1
<1>7. QED
  BY <1>1, <1>3, <1>4, <1>5, <1>6 DEF IdsConsistent

LEMMA MergeInv ==
  ASSUME Inv, NEW s \in left, NEW r \in lalr_states, core[r] = core[s],
         left' = left \ {s}, core' = core, lalr_states' = lalr_states,
         NEW a \in 0 .. last, NEW b \in 0 .. last, a < b,
         {a, b} = {state_id[r], state_id[s]},
         MergeInto(state_id_to_ptr_[a], state_id_to_ptr_[b])
  PROVE  Inv'
<1>1. /\ TypeOK /\ Alone /\ Met /\ RowsAreCores
      /\ s \in States /\ r \in States /\ r \notin left
  BY DEF Inv, TypeOK
<1>2. /\ state_n_' = last /\ last' = last - 1 /\ last \in 1 .. N
      /\ merged_states' = Adopted(merged_states, state_id_to_ptr_[a],
                                  state_id_to_ptr_[b])
      /\ look_ahead' = LookaheadsAfter(state_id_to_ptr_[a], state_id_to_ptr_[b])
      /\ DOMAIN state_id_to_ptr_' = 0 .. last - 1
      /\ state_id' \in [States -> 0 .. last - 1]
  BY MergeEffect
<1>3. /\ N \in Nat /\ last \in Nat /\ last < N /\ States = 0 .. N - 1
      /\ last \in 0 .. last
      /\ \A j \in 0 .. last : state_id_to_ptr_[j] \in States
  BY Basics
<1>4. TypeOK'
  <2>1. state_id' \in [States -> States] /\ state_n_' \in 1 .. N
    BY <1>2, <1>3
  <2>2. merged_states' \in [States -> SUBSET States]
    BY <1>1, <1>2, <1>3, AdoptedType DEF TypeOK
  <2>3. look_ahead' \in [States -> SUBSET Marks]
    BY <1>1, <1>2, <1>3 DEF TypeOK, LookaheadsAfter
  <2>4. state_id_to_ptr_' \in [0 .. last - 1 -> States]
    <3>1. state_id_to_ptr_' = [i \in 0 .. last - 1 |-> state_id_to_ptr_'[i]]
      BY DEF MergeInto, TableAfter
    <3>2. \A i \in 0 .. last - 1 : state_id_to_ptr_'[i] \in States
      <4> SUFFICES ASSUME NEW i \in 0 .. last - 1
                   PROVE  state_id_to_ptr_'[i] \in States
        OBVIOUS
      <4>1. state_id_to_ptr_'[i] = IF i = b THEN state_id_to_ptr_[last]
                                   ELSE state_id_to_ptr_[i]
        BY MergeEffect
      <4>2. i \in 0 .. last
        BY <1>3
      <4>3. QED
        BY <1>3, <4>1, <4>2
    <3>3. QED
      BY <3>1, <3>2
  <2>5. state_id_to_ptr_' \in [0 .. state_n_' - 1 -> States]
    BY <1>2, <2>4
  <2>6. QED
    BY <1>1, <2>1, <2>2, <2>3, <2>5 DEF TypeOK
<1>5. \A t, u \in States :
        state_id'[t] = state_id'[u] <=>
          state_id[t] = state_id[u] \/ {state_id[t], state_id[u]} \subseteq {a, b}
  BY SameId
<1>6. \A u \in left : u # s => state_id[u] \notin {a, b}
  BY <1>1 DEF Alone
<1>7. Alone'
  BY <1>1, <1>5, <1>6 DEF Alone, TypeOK
<1>8. Met'
  BY <1>1 DEF Met, TypeOK
<1>9. \A t, u \in States : state_id'[t] = state_id'[u] => core[t] = core[u]
  BY <1>1, <1>5 DEF RowsAreCores
<1>10. \A t, u \in States :
         core[t] = core[u] /\ t \notin left' /\ u \notin left' =>
           state_id'[t] = state_id'[u]
  <2> SUFFICES ASSUME NEW t \in States, NEW u \in States, core[t] = core[u],
                      t \notin left', u \notin left'
               PROVE  state_id'[t] = state_id'[u]
    OBVIOUS
  <2>1. \A v \in States : v \notin left' /\ core[v] = core[s] =>
          state_id[v] \in {a, b}
    BY <1>1 DEF RowsAreCores
  <2>2. CASE core[t] = core[s]
    <3>1. state_id[t] \in {a, b} /\ state_id[u] \in {a, b}
      BY <2>1, <2>2
    <3>2. QED
      BY <1>5, <3>1
  <2>3. CASE core[t] # core[s]
    <3>1. t \notin left /\ u \notin left
      BY <2>3
    <3>2. state_id[t] = state_id[u]
      BY <1>1, <3>1 DEF RowsAreCores
    <3>3. QED
      BY <1>5, <3>2
  <2>4. QED
    BY <2>2, <2>3
<1>11. ASSUME NEW i \in 0 .. last - 1
       PROVE  look_ahead'[state_id_to_ptr_'[i]] = OfClass(ClassOf(i)')
  <2>1. /\ i = a => look_ahead'[state_id_to_ptr_'[i]] =
                       look_ahead[state_id_to_ptr_[a]]
                       \cup look_ahead[state_id_to_ptr_[b]]
        /\ i # a /\ i = b => look_ahead'[state_id_to_ptr_'[i]] =
                               look_ahead[state_id_to_ptr_[last]]
        /\ i # a /\ i # b => look_ahead'[state_id_to_ptr_'[i]] =
                               look_ahead[state_id_to_ptr_[i]]
    BY LookEffect
  <2>2. PICK c : c = ClassOf(i)'
    OBVIOUS
  <2>5. c = IF i = a THEN ClassOf(a) \cup ClassOf(b)
            ELSE IF i = b THEN ClassOf(last) ELSE ClassOf(i)
    BY <2>2, ClassEffect
  <2>3. \A j \in 0 .. last : look_ahead[state_id_to_ptr_[j]] = OfClass(ClassOf(j))
    BY <1>1 DEF RowsAreCores
  <2>4. i \in 0 .. last
    BY <1>3
  <2>6. look_ahead'[state_id_to_ptr_'[i]] = OfClass(c)
    <3>1. CASE i = a
      <4>1. OfClass(ClassOf(a) \cup ClassOf(b)) =
              OfClass(ClassOf(a)) \cup OfClass(ClassOf(b))
        BY DEF OfClass
      <4>2. c = ClassOf(a) \cup ClassOf(b)
        BY <2>5, <3>1
      <4>3. OfClass(c) = look_ahead[state_id_to_ptr_[a]]
                         \cup look_ahead[state_id_to_ptr_[b]]
        BY <2>3, <4>1, <4>2
      <4>4. QED
        BY <2>1, <3>1, <4>3
    <3>2. CASE i # a /\ i = b
      <4>1. c = ClassOf(last)
        BY <2>5, <3>2
      <4>2. QED
        BY <1>3, <2>1, <2>3, <3>2, <4>1
    <3>3. CASE i # a /\ i # b
      <4>1. c = ClassOf(i)
        BY <2>5, <3>3
      <4>2. QED
        BY <2>1, <2>3, <2>4, <3>3, <4>1
    <3>4. QED
      BY <3>1, <3>2, <3>3
  <2>7. QED
    BY <2>2, <2>6, Zenon
<1>12. RowsAreCores'
  BY <1>2, <1>9, <1>10, <1>11 DEF RowsAreCores
<1>13. QED
  BY <1>4, <1>7, <1>8, <1>12, MergeIds DEF Inv

LEMMA InsertInv ==
  ASSUME Inv, NEW s \in left, Insert(s), left' = left \ {s}, core' = core
  PROVE  Inv'
<1>1. /\ lalr_states' = lalr_states \cup {s}
      /\ UNCHANGED <<state_id, state_id_to_ptr_, state_n_, merged_states, look_ahead>>
      /\ \A r \in lalr_states : core[r] # core[s]
      /\ last' = last
  BY DEF Insert, last
<1>2. TypeOK /\ Alone /\ Met /\ IdsConsistent /\ RowsAreCores /\ s \in States
  BY DEF Inv, TypeOK
<1>3. TypeOK'
  BY <1>1, <1>2 DEF TypeOK
<1>4. Alone' /\ Met'
  BY <1>1, <1>2 DEF Alone, Met
<1>5. \A i : ClassOf(i)' = ClassOf(i)
  BY <1>1 DEF ClassOf
<1>6. IdsConsistent'
  BY <1>1, <1>2, <1>5 DEF IdsConsistent
<1>7. \A t \in States \ left : core[t] # core[s]
  BY <1>1, <1>2 DEF Met
<1>8. RowsAreCores'
  <2>1. \A t, u \in States :
          core[t] = core[u] /\ t \notin left' /\ u \notin left' =>
            state_id[t] = state_id[u]
    BY <1>2, <1>7 DEF RowsAreCores
  <2>2. QED
    BY <1>1, <1>2, <1>5, <2>1 DEF RowsAreCores
<1>9. QED
  BY <1>3, <1>4, <1>6, <1>8 DEF Inv

\* A step of the loop that merges does so for two ids a < b.
LEMMA MergeRows ==
  ASSUME Inv, NEW s \in left, NEW r \in lalr_states, Merge(s, r)
  PROVE  \E a, b \in 0 .. last :
           /\ a < b /\ {a, b} = {state_id[r], state_id[s]}
           /\ MergeInto(state_id_to_ptr_[a], state_id_to_ptr_[b])
<1>1. s \in States /\ r \in States /\ r # s
  BY DEF Inv, TypeOK
<1>2. state_id[r] # state_id[s]
  BY <1>1 DEF Inv, Alone
<1>3. state_id[r] \in 0 .. last /\ state_id[s] \in 0 .. last /\ last \in Nat
  BY <1>1, Basics
<1>4. CASE state_id[r] < state_id[s]
  BY <1>3, <1>4 DEF Merge
<1>5. CASE ~ (state_id[r] < state_id[s])
  <2>1. state_id[s] < state_id[r]
    BY <1>2, <1>3, <1>5
  <2>2. MergeInto(state_id_to_ptr_[state_id[s]], state_id_to_ptr_[state_id[r]])
    BY <1>5 DEF Merge
  <2>3. QED
    BY <1>3, <2>1, <2>2
<1>6. QED
  BY <1>4, <1>5

LEMMA StepInv == Inv /\ [Next]_vars => Inv'
<1> SUFFICES ASSUME Inv, [Next]_vars PROVE Inv'
  OBVIOUS
<1>1. ASSUME NEW s \in left, Visit(s) PROVE Inv'
  <2>1. left' = left \ {s} /\ core' = core
    BY <1>1 DEF Visit
  <2>2. CASE Insert(s)
    BY <2>1, <2>2, InsertInv
  <2>3. ASSUME NEW r \in lalr_states, Merge(s, r) PROVE Inv'
    <3>1. PICK a \in 0 .. last, b \in 0 .. last :
            /\ a < b /\ {a, b} = {state_id[r], state_id[s]}
            /\ MergeInto(state_id_to_ptr_[a], state_id_to_ptr_[b])
      BY <2>3, MergeRows
    <3>2. core[r] = core[s] /\ lalr_states' = lalr_states
      BY <2>3 DEF Merge
    <3>3. QED
      BY <2>1, <3>1, <3>2, MergeInv
  <2>4. QED
    BY <1>1, <2>2, <2>3 DEF Visit
<1>2. CASE UNCHANGED vars
  <2>1. /\ UNCHANGED <<core, left, lalr_states, state_id, state_id_to_ptr_,
                       state_n_, merged_states, look_ahead>>
        /\ last' = last
    BY <1>2 DEF vars, last
  <2>2. \A i : ClassOf(i)' = ClassOf(i)
    BY <2>1 DEF ClassOf
  <2>3. QED
    BY <2>1, <2>2 DEF Inv, TypeOK, Alone, Met, IdsConsistent, RowsAreCores
<1>3. QED
  BY <1>1, <1>2 DEF Next

(***************************************************************************)
(* Ids stay the numbers of the rows, and the table the way back.           *)
(***************************************************************************)
THEOREM IdsAreRows == Spec => [](TypeOK /\ IdsConsistent)
<1>1. Inv => TypeOK /\ IdsConsistent
  BY DEF Inv
<1>2. QED
  BY InitInv, StepInv, <1>1, PTL DEF Spec

(***************************************************************************)
(* States share a row exactly when they have the same LR(0) items.         *)
(***************************************************************************)
THEOREM RowsMatchCores == Spec => []RowsAreCores
<1>1. Inv => RowsAreCores
  BY DEF Inv
<1>2. QED
  BY InitInv, StepInv, <1>1, PTL DEF Spec

-----------------------------------------------------------------------------
(***************************************************************************)
(* The loop implements StateClasses: a step joins two classes or leaves    *)
(* them as they are.                                                       *)
(***************************************************************************)
RowClasses == {ClassOf(i) : i \in 0 .. last}

RowsOfClasses == Rows = [c \in RowClasses |-> OfClass(c)]

LEMMA ClassInjective ==
  ASSUME Inv, NEW i \in 0 .. last, NEW j \in 0 .. last, ClassOf(i) = ClassOf(j)
  PROVE  i = j
<1>1. /\ state_id_to_ptr_[i] \in States
      /\ state_id[state_id_to_ptr_[i]] = i
  BY RowFacts
<1>2. state_id_to_ptr_[i] \in ClassOf(i)
  BY <1>1 DEF ClassOf
<1>3. state_id_to_ptr_[i] \in ClassOf(j)
  BY <1>2
<1>4. QED
  BY <1>1, <1>3 DEF ClassOf

LEMMA RowsLookaheads == Inv => RowsOfClasses
<1> SUFFICES ASSUME Inv PROVE RowsOfClasses
  OBVIOUS
<1>1. \A j \in 0 .. last : look_ahead[state_id_to_ptr_[j]] = OfClass(ClassOf(j))
  BY DEF Inv, RowsAreCores
<1> DEFINE row(c) == UNION {look_ahead[state_id_to_ptr_[i]] :
                              i \in {j \in 0 .. last : ClassOf(j) = c}}
<1>2. ASSUME NEW c \in RowClasses PROVE row(c) = OfClass(c)
  <2>1. PICK i \in 0 .. last : c = ClassOf(i)
    BY DEF RowClasses
  <2>2. {j \in 0 .. last : ClassOf(j) = c} = {i}
    BY <2>1, ClassInjective
  <2>3. row(c) = look_ahead[state_id_to_ptr_[i]]
    BY <2>2
  <2>4. QED
    BY <1>1, <2>1, <2>3
<1>3. Rows = [c \in RowClasses |-> row(c)]
  BY DEF Rows, RowClasses
<1> HIDE DEF row
<1>4. [c \in RowClasses |-> row(c)] = [c \in RowClasses |-> OfClass(c)]
  BY <1>2
<1>5. QED
  BY <1>3, <1>4 DEF RowsOfClasses

LEMMA ClassesInit == Init => Classes!Init
<1> SUFFICES ASSUME Init PROVE Classes!Init
  OBVIOUS
<1>1. Rows = [c \in RowClasses |-> OfClass(c)]
  BY InitInv, RowsLookaheads DEF RowsOfClasses
<1>2. N \in Nat /\ 0 .. last = States
  BY LalrAssumption DEF Init, last, States
<1>3. \A s \in States : ClassOf(s) = {s}
  BY DEF Init, ClassOf
<1>4. RowClasses = {{s} : s \in States}
  BY <1>2, <1>3 DEF RowClasses
<1>5. QED
  BY <1>1, <1>4 DEF Classes!Init, OfClass

LEMMA ClassesJoin ==
  ASSUME Inv, Inv', NEW a \in 0 .. last, NEW b \in 0 .. last, a < b,
         MergeInto(state_id_to_ptr_[a], state_id_to_ptr_[b]), core' = core,
         Rows = [c \in RowClasses |-> OfClass(c)],
         Rows' = [c \in RowClasses' |-> OfClass(c)],
         \A s \in ClassOf(a), t \in ClassOf(b) : core[s] = core[t]
  PROVE  Classes!Join(ClassOf(a), ClassOf(b))
<1> DEFINE A == ClassOf(a)
           B == ClassOf(b)
<1>1. /\ last \in Nat /\ a \in Nat /\ b \in Nat /\ b <= last /\ a < last
      /\ last \in 0 .. last
  BY Basics
<1>2. last' = last - 1
  BY MergeEffect
<1>3. \A i, j \in 0 .. last : ClassOf(i) = ClassOf(j) => i = j
  BY ClassInjective
<1>4. \A i \in 0 .. last - 1 :
        ClassOf(i)' = IF i = a THEN A \cup B
                      ELSE IF i = b THEN ClassOf(last) ELSE ClassOf(i)
  BY ClassEffect
<1>5. RowClasses' = {ClassOf(i)' : i \in 0 .. last - 1}
  BY <1>2 DEF RowClasses
<1> DEFINE joined == (RowClasses \ {A, B}) \cup {A \cup B}
<1>6. ASSUME NEW i \in 0 .. last - 1 PROVE ClassOf(i)' \in joined
  <2>1. CASE i = a
    BY <1>4, <2>1
  <2>2. CASE i # a
    <3>1. PICK j \in 0 .. last : j = IF i = b THEN last ELSE i
      BY <1>1
    <3>2. j # a /\ j # b
      BY <1>1, <2>2, <3>1
    <3>3. ClassOf(i)' = ClassOf(j)
      BY <1>4, <2>2, <3>1
    <3>4. ClassOf(j) \in RowClasses /\ ClassOf(j) # A /\ ClassOf(j) # B
      BY <1>3, <3>2 DEF RowClasses
    <3>5. QED
      BY <3>3, <3>4
  <2>3. QED
    BY <2>1, <2>2
<1>7. ASSUME NEW c \in joined PROVE c \in RowClasses'
  <2>1. CASE c = A \cup B
    <3>1. a \in 0 .. last - 1
      BY <1>1
    <3>2. ClassOf(a)' = c
      BY <1>4, <2>1, <3>1
    <3>3. QED
      BY <1>5, <3>1, <3>2
  <2>2. CASE c \in RowClasses \ {A, B}
    <3>1. PICK j \in 0 .. last : c = ClassOf(j)
      BY <2>2 DEF RowClasses
    <3>2. j # a /\ j # b
      BY <2>2, <3>1
    <3>3. PICK i \in 0 .. last - 1 : i = IF j = last THEN b ELSE j
      BY <1>1, <3>2
    <3>4. ClassOf(i)' = c
      BY <1>1, <1>4, <3>1, <3>2, <3>3
    <3>5. QED
      BY <1>5, <3>4
  <2>3. QED
    BY <2>1, <2>2
<1>8. RowClasses' = joined
  BY <1>5, <1>6, <1>7
<1>9. A \in RowClasses /\ B \in RowClasses /\ A # B
  BY <1>1, <1>3 DEF RowClasses
<1>10. OfClass(A \cup B) = Rows[A] \cup Rows[B]
  <2>1. Rows[A] = OfClass(A) /\ Rows[B] = OfClass(B)
    BY <1>9
  <2>2. OfClass(A \cup B) = OfClass(A) \cup OfClass(B)
    BY DEF OfClass
  <2>3. QED
    BY <2>1, <2>2
<1>11. DOMAIN Rows = RowClasses
  OBVIOUS
<1> HIDE DEF A, B
<1>12. Rows' = [e \in joined |-> IF e = A \cup B THEN Rows[A] \cup Rows[B]
                                 ELSE Rows[e]]
  <2>1. \A e \in joined : OfClass(e) = IF e = A \cup B THEN Rows[A] \cup Rows[B]
                                       ELSE Rows[e]
    BY <1>10
  <2>2. Rows' = [e \in joined |-> OfClass(e)]
    BY <1>8
  <2> HIDE DEF joined
  <2>3. QED
    BY <2>1, <2>2
<1>13. Classes!SameCore(A, B)
  BY DEF Classes!SameCore, A, B
<1>14. QED
  BY <1>9, <1>11, <1>12, <1>13 DEF Classes!Join, A, B

LEMMA ClassesStep == Inv /\ Inv' /\ [Next]_vars => [Classes!Next]_<<core, Rows>>
<1> SUFFICES ASSUME Inv, Inv', [Next]_vars
             PROVE  Classes!Next \/ UNCHANGED <<core, Rows>>
  OBVIOUS
<1>1. Rows = [c \in RowClasses |-> OfClass(c)]
  BY RowsLookaheads DEF RowsOfClasses
<1>2. (Inv => RowsOfClasses)'
  BY RowsLookaheads, PTL
<1>3. Rows' = [c \in RowClasses' |-> OfClass(c)]
  BY <1>2 DEF RowsOfClasses
<1>4. ASSUME NEW s \in left, NEW r \in lalr_states, Merge(s, r), core' = core
      PROVE  Classes!Next
  <2>1. PICK a \in 0 .. last, b \in 0 .. last :
          /\ a < b /\ {a, b} = {state_id[r], state_id[s]}
          /\ MergeInto(state_id_to_ptr_[a], state_id_to_ptr_[b])
    BY <1>4, MergeRows
  <2>2. \A t \in ClassOf(a), u \in ClassOf(b) : core[t] = core[u]
    <3> SUFFICES ASSUME NEW t \in ClassOf(a), NEW u \in ClassOf(b)
                 PROVE  core[t] = core[u]
      OBVIOUS
    <3>1. /\ t \in States /\ u \in States /\ state_id[t] = a /\ state_id[u] = b
          /\ r \in States /\ s \in States /\ core[r] = core[s]
      BY <1>4 DEF ClassOf, Merge, Inv, TypeOK
    <3>2. \A v, w \in States : state_id[v] = state_id[w] => core[v] = core[w]
      BY DEF Inv, RowsAreCores
    <3>3. QED
      BY <2>1, <3>1, <3>2
  <2>3. Classes!Join(ClassOf(a), ClassOf(b))
    BY <1>1, <1>3, <1>4, <2>1, <2>2, ClassesJoin
  <2>4. ClassOf(a) \in DOMAIN Rows /\ ClassOf(b) \in DOMAIN Rows
    BY <1>1 DEF RowClasses
  <2>5. QED
    BY <2>3, <2>4 DEF Classes!Next
<1>5. ASSUME UNCHANGED <<state_id, state_id_to_ptr_, state_n_, look_ahead, core>>
      PROVE  UNCHANGED <<core, Rows>>
  <2>1. last' = last /\ \A i : ClassOf(i)' = ClassOf(i)
    BY <1>5 DEF last, ClassOf
  <2>2. RowClasses' = RowClasses
    BY <2>1 DEF RowClasses
  <2>3. QED
    BY <1>1, <1>3, <1>5, <2>2
<1>6. CASE UNCHANGED vars
  BY <1>5, <1>6 DEF vars
<1>7. ASSUME NEW s \in left, Visit(s)
      PROVE  Classes!Next \/ UNCHANGED <<core, Rows>>
  BY <1>4, <1>5, <1>7 DEF Visit, Insert
<1>8. QED
  BY <1>6, <1>7 DEF Next

THEOREM MergeImplementsClasses ==
  Spec => Classes!Init /\ [][Classes!Next]_<<core, Rows>>
<1>1. Inv /\ [Next]_vars => Inv'
  BY StepInv
<1>2. QED
  BY InitInv, <1>1, ClassesInit, ClassesStep, PTL DEF Spec
=============================================================================
