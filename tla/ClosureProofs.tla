--------------------------- MODULE ClosureProofs ---------------------------
(***************************************************************************)
(* The closure of a state is the least closed item set over its kernel,    *)
(* for every grammar, every kernel and every order of the hash table.      *)
(***************************************************************************)
EXTENDS Closure, SequenceTheorems, FiniteSetTheorems, WellFoundedInduction,
        TLAPS

\* What an item expects was expanded, or the item still waits for its turn.
Worked ==
  \A it \in DOMAIN lr1_items :
    Expands(it) => it \in dirty \cup next_dirty \/ Curr(it) \in expanded

Added == \A B \in expanded : Initial(B) \subseteq DOMAIN lr1_items

Phases ==
  /\ phase # "expand" => dirty = {} /\ next_dirty = {}
  /\ phase = "closed" => Closed(lr1_items)

Inv ==
  /\ TypeOK
  /\ kernel \in Kernels
  /\ Below(kernel, lr1_items)
  /\ Worked
  /\ Added
  /\ Phases

-----------------------------------------------------------------------------
LEMMA ItemFacts ==
  ASSUME NEW it \in Items
  PROVE  /\ it[1] \in DOMAIN Rules /\ it[2] \in 0 .. Len(Body(it))
         /\ it = <<it[1], it[2]>>
         /\ Body(it) \in Seq(Symbols)
         /\ Token(it) \in Keys
<1>1. PICK r \in DOMAIN Rules : it \in {r} \X (0 .. Len(Rules[r].grammar))
  BY DEF Items
<1>2. it[1] = r /\ it[2] \in 0 .. Len(Rules[r].grammar) /\ it = <<it[1], it[2]>>
  BY <1>1
<1>3. Rules[r] \in [token : Keys, grammar : Seq(Symbols)]
  <2>1. Rules \in Seq([token : Keys, grammar : Seq(Symbols)])
    BY ClosureAssumption
  <2>2. r \in 1 .. Len(Rules)
    BY <2>1, LenProperties
  <2>3. QED
    BY <2>1, <2>2, ElementOfSeq
<1>4. QED
  BY <1>2, <1>3 DEF Body, Token

LEMMA CurrFacts ==
  ASSUME NEW it \in Items, Expands(it)
  PROVE  /\ it[2] + 1 \in DOMAIN Rules[it[1]].grammar
         /\ it[1] \in DOMAIN Rules
         /\ Curr(it) = Rules[it[1]].grammar[it[2] + 1]
         /\ Curr(it) \in Keys
<1>1. /\ it[1] \in DOMAIN Rules /\ it[2] \in 0 .. Len(Body(it))
      /\ Body(it) \in Seq(Symbols)
  BY ItemFacts
<1>2. it[2] # Len(Body(it)) /\ Len(Body(it)) \in Nat
  BY <1>1, LenProperties DEF Expands, IsFinal
<1>3. it[2] + 1 \in 1 .. Len(Body(it))
  BY <1>1, <1>2
<1>4. QED
  BY <1>1, <1>3, LenProperties DEF Expands, Curr, Body

LEMMA NextTyped ==
  ASSUME NEW it \in Items, NEW la \in SUBSET Actions
  PROVE  NextLookaheads(it, la) \in SUBSET Actions
<1>1. \A j \in it[2] + 2 .. Len(Body(it)) : FirstOf(Body(it)[j]) \subseteq Actions
  <2> SUFFICES ASSUME NEW j \in it[2] + 2 .. Len(Body(it))
               PROVE  FirstOf(Body(it)[j]) \subseteq Actions
    OBVIOUS
  <2>1. it[2] \in Nat /\ Body(it) \in Seq(Symbols) /\ Len(Body(it)) \in Nat
    BY ItemFacts, LenProperties
  <2>2. j \in 1 .. Len(Body(it))
    BY <2>1
  <2>3. Body(it)[j] \in Symbols
    BY <2>1, <2>2, ElementOfSeq
  <2>4. QED
    BY <2>3, ClosureAssumption DEF FirstOf, Symbols
<1>2. QED
  BY <1>1 DEF NextLookaheads

LEMMA NextMonotone ==
  ASSUME NEW it, NEW la, NEW more, la \subseteq more
  PROVE  NextLookaheads(it, la) \subseteq NextLookaheads(it, more)
  BY DEF NextLookaheads

LEMMA InitialItems == \A B : Initial(B) \subseteq Items
  BY DEF Initial

\* Below is transitive through an item set that only grows.
LEMMA BelowGrows ==
  ASSUME NEW I, NEW J, NEW K, Below(I, J), Below(J, K)
  PROVE  Below(I, K)
  BY DEF Below

-----------------------------------------------------------------------------
(***************************************************************************)
(* Every step only adds, keeps the types and the kernel.                   *)
(***************************************************************************)
LEMMA MergeGrows ==
  ASSUME TypeOK, NEW it \in dirty, MergeLookaheads(it)
  PROVE  /\ IsItemSet(lr1_items') /\ DOMAIN lr1_items' = DOMAIN lr1_items
         /\ Below(lr1_items, lr1_items')
<1>1. IsItemSet(lr1_items) /\ it \in DOMAIN lr1_items
  BY DEF TypeOK
<1>2. NextLookaheads(it, lr1_items[it]) \in SUBSET Actions
  BY <1>1, NextTyped DEF IsItemSet
<1> DEFINE la == NextLookaheads(it, lr1_items[it])
<1>3. lr1_items' = Merged(lr1_items, Curr(it), la) /\ la \in SUBSET Actions
  BY <1>2 DEF MergeLookaheads
<1> HIDE DEF la
<1>4. QED
  BY <1>1, <1>3 DEF Merged, IsItemSet, Below

LEMMA PassGrows ==
  ASSUME TypeOK, MergePass
  PROVE  /\ IsItemSet(lr1_items') /\ DOMAIN lr1_items' = DOMAIN lr1_items
         /\ Below(lr1_items, lr1_items')
<1>1. IsItemSet(lr1_items)
  BY DEF TypeOK
<1>2. PICK it, jt \in DOMAIN lr1_items :
        lr1_items' = [lr1_items EXCEPT
                        ![jt] = @ \cup NextLookaheads(it, lr1_items[it])]
  BY DEF MergePass
<1>3. NextLookaheads(it, lr1_items[it]) \in SUBSET Actions
  BY <1>1, NextTyped DEF IsItemSet
<1> DEFINE la == NextLookaheads(it, lr1_items[it])
<1>4. /\ lr1_items' = [lr1_items EXCEPT ![jt] = @ \cup la]
      /\ la \in SUBSET Actions
  BY <1>2, <1>3
<1> HIDE DEF la
<1>5. DOMAIN lr1_items' = DOMAIN lr1_items
  BY <1>4
<1>6. \A kt \in DOMAIN lr1_items :
        lr1_items'[kt] = IF kt = jt THEN lr1_items[kt] \cup la ELSE lr1_items[kt]
  BY <1>4
<1>7. QED
  BY <1>1, <1>4, <1>5, <1>6 DEF IsItemSet, Below

LEMMA ExpandFacts ==
  ASSUME TypeOK, kernel \in Kernels, NEW it \in dirty, Expand(it)
  PROVE  /\ IsItemSet(lr1_items')
         /\ DOMAIN lr1_items' = DOMAIN lr1_items \cup Initial(Curr(it))
         /\ Curr(it) \in Keys
         /\ Below(kernel, lr1_items) => Below(kernel, lr1_items')
<1>1. /\ IsItemSet(lr1_items) /\ it \in DOMAIN lr1_items /\ it \in Items
      /\ Expands(it)
  BY DEF TypeOK, IsItemSet, Expand
<1> DEFINE la == NextLookaheads(it, lr1_items[it])
           new == Initial(Curr(it))
<1>2. la \in SUBSET Actions
  BY <1>1, NextTyped DEF IsItemSet
<1>3. lr1_items' = [jt \in DOMAIN lr1_items \cup new |->
                      IF jt \in new THEN la ELSE lr1_items[jt]]
  BY DEF Expand
<1>4. new \subseteq Items
  BY InitialItems
<1>5. \A jt \in new : jt \notin DOMAIN kernel
  <2> SUFFICES ASSUME NEW jt \in new, jt \in DOMAIN kernel PROVE FALSE
    OBVIOUS
  <2>1. jt[2] = 0 /\ Token(jt) = Curr(it)
    BY DEF Initial
  <2>2. Curr(it) # Rules[it[1]].grammar[it[2] + 1]
    BY <1>1, <2>1, CurrFacts, KernelAssumption
  <2>3. QED
    BY <1>1, <2>2, CurrFacts
<1>6. Curr(it) \in Keys
  BY <1>1, CurrFacts
<1> HIDE DEF la, new
<1>7. IsItemSet(lr1_items') /\ DOMAIN lr1_items' = DOMAIN lr1_items \cup new
  BY <1>1, <1>2, <1>3, <1>4 DEF IsItemSet
<1>8. Below(kernel, lr1_items) => Below(kernel, lr1_items')
  BY <1>3, <1>5 DEF Below
<1>9. QED
  BY <1>6, <1>7, <1>8 DEF new
-----------------------------------------------------------------------------
(***************************************************************************)
(* The invariant.  Keeping Worked and Added is what makes the first phase  *)
(* hand a complete item set to the second.                                 *)
(***************************************************************************)
LEMMA InitInv == Init => Inv
<1> SUFFICES ASSUME Init PROVE Inv
  OBVIOUS
<1>1. IsItemSet(kernel)
  BY KernelAssumption DEF Init
<1>2. TypeOK
  BY <1>1 DEF Init, TypeOK
<1>3. Below(kernel, lr1_items) /\ Worked /\ Added /\ Phases
  BY DEF Init, Below, Worked, Added, Phases
<1>4. QED
  BY <1>2, <1>3 DEF Init, Inv

\* A step that takes an item the merge or the pass is done with.
LEMMA TakenInv ==
  ASSUME Inv, NEW it \in dirty, Take(it), phase = "expand",
         IsItemSet(lr1_items'), DOMAIN lr1_items' = DOMAIN lr1_items,
         Below(lr1_items, lr1_items'),
         Expands(it) => Curr(it) \in expanded,
         UNCHANGED <<kernel, expanded, next_dirty, phase>>
  PROVE  Inv'
<1>1. TypeOK'
  BY DEF Inv, TypeOK, Take
<1>2. Below(kernel, lr1_items)'
  BY BelowGrows DEF Inv
<1>3. Worked'
  BY DEF Inv, Worked, Take
<1>4. Added' /\ Phases'
  BY DEF Inv, Added, Phases
<1>5. QED
  BY <1>1, <1>2, <1>3, <1>4 DEF Inv

LEMMA ExpandInv ==
  ASSUME Inv, NEW it \in dirty, Expand(it)
  PROVE  Inv'
<1>1. /\ TypeOK /\ kernel \in Kernels /\ kernel' = kernel
      /\ phase = "expand" /\ phase' = phase
      /\ expanded' = expanded \cup {Curr(it)}
      /\ next_dirty' = next_dirty \cup Initial(Curr(it))
      /\ dirty' = dirty \ {it}
  BY DEF Inv, Expand, Take
<1>2. /\ IsItemSet(lr1_items')
      /\ DOMAIN lr1_items' = DOMAIN lr1_items \cup Initial(Curr(it))
      /\ Curr(it) \in Keys
      /\ Below(kernel, lr1_items')
  BY <1>1, ExpandFacts DEF Inv
<1>3. TypeOK'
  BY <1>1, <1>2 DEF TypeOK
<1>4. Worked'
  <2> SUFFICES ASSUME NEW jt \in DOMAIN lr1_items', Expands(jt)
               PROVE  jt \in dirty' \cup next_dirty' \/ Curr(jt) \in expanded'
    BY DEF Worked
  <2>1. CASE jt \in Initial(Curr(it))
    BY <2>1, <1>1
  <2>2. CASE jt \in DOMAIN lr1_items
    BY <2>2, <1>1 DEF Inv, Worked
  <2>3. QED
    BY <1>2, <2>1, <2>2
<1>5. Added'
  <2>1. Added
    BY DEF Inv
  <2>2. QED
    BY <2>1, <1>1, <1>2 DEF Added
<1>6. Phases'
  BY <1>1 DEF Phases
<1>7. QED
  BY <1>1, <1>2, <1>3, <1>4, <1>5, <1>6 DEF Inv

LEMMA RoundInv == Inv /\ NextRound => Inv'
<1> SUFFICES ASSUME Inv, NextRound PROVE Inv'
  OBVIOUS
<1>1. TypeOK' /\ Below(kernel, lr1_items)' /\ kernel' \in Kernels
  BY DEF Inv, TypeOK, NextRound
<1>2. Worked' /\ Added'
  BY DEF Inv, Worked, Added, NextRound
<1>3. Phases'
  BY DEF Inv, Phases, NextRound
<1>4. QED
  BY <1>1, <1>2, <1>3 DEF Inv

LEMMA MergePassInv == Inv /\ MergePass => Inv'
<1> SUFFICES ASSUME Inv, MergePass PROVE Inv'
  OBVIOUS
<1>1. /\ IsItemSet(lr1_items') /\ DOMAIN lr1_items' = DOMAIN lr1_items
      /\ Below(lr1_items, lr1_items')
  BY PassGrows DEF Inv
<1>2. /\ UNCHANGED <<kernel, expanded, dirty, next_dirty, phase>>
      /\ phase = "merge"
  BY DEF MergePass
<1>3. TypeOK'
  BY <1>1, <1>2 DEF Inv, TypeOK
<1>4. Below(kernel, lr1_items)'
  BY <1>1, <1>2, BelowGrows DEF Inv
<1>5. Worked' /\ Added' /\ Phases'
  BY <1>1, <1>2 DEF Inv, Worked, Added, Phases
<1>6. QED
  BY <1>2, <1>3, <1>4, <1>5 DEF Inv

\* The guard of the last pass is what Closed asks of the lookaheads.
LEMMA LastPassInv == Inv /\ LastPass => Inv'
<1> SUFFICES ASSUME Inv, LastPass PROVE Inv'
  OBVIOUS
<1>1. Closed(lr1_items)
  <2>1. \A it \in DOMAIN lr1_items : Expands(it) => Curr(it) \in expanded
    BY DEF Inv, Worked, Phases, LastPass
  <2>2. \A it \in DOMAIN lr1_items : Expands(it) =>
          Initial(Curr(it)) \subseteq DOMAIN lr1_items
    BY <2>1 DEF Inv, Added
  <2>3. \A it, jt \in DOMAIN lr1_items :
          Expands(it) /\ Token(jt) = Curr(it) =>
            NextLookaheads(it, lr1_items[it]) \subseteq lr1_items[jt]
    BY DEF LastPass, Adds
  <2>4. QED
    BY <2>2, <2>3 DEF Closed
<1>2. /\ UNCHANGED <<kernel, lr1_items, expanded, dirty, next_dirty>>
      /\ phase = "merge" /\ phase' = "closed"
  BY DEF LastPass
<1>3. TypeOK' /\ Below(kernel, lr1_items)' /\ Worked' /\ Added'
  BY <1>2 DEF Inv, TypeOK, Worked, Added
<1>4. Phases'
  BY <1>1, <1>2 DEF Inv, Phases
<1>5. QED
  BY <1>2, <1>3, <1>4 DEF Inv

LEMMA StepInv == Inv /\ [Next]_vars => Inv'
<1> SUFFICES ASSUME Inv, [Next]_vars PROVE Inv'
  OBVIOUS
<1>1. ASSUME NEW it \in dirty, Pass(it) PROVE Inv'
  <2>1. Below(lr1_items, lr1_items)
    BY DEF Below
  <2>2. QED
    BY <1>1, <2>1, TakenInv DEF Pass, Take, Inv, TypeOK
<1>2. ASSUME NEW it \in dirty, MergeLookaheads(it) PROVE Inv'
  <2>1. /\ IsItemSet(lr1_items') /\ DOMAIN lr1_items' = DOMAIN lr1_items
        /\ Below(lr1_items, lr1_items')
    BY <1>2, MergeGrows DEF Inv
  <2>2. QED
    BY <1>2, <2>1, TakenInv DEF MergeLookaheads, Take
<1>3. ASSUME NEW it \in dirty, Expand(it) PROVE Inv'
  BY <1>3, ExpandInv
<1>4. CASE UNCHANGED vars
  BY <1>4 DEF vars, Inv, TypeOK, Worked, Added, Phases
<1>5. QED
  BY <1>1, <1>2, <1>3, <1>4, RoundInv, MergePassInv, LastPassInv DEF Next

(***************************************************************************)
(* When the second phase ends the items are closed, although a pass stops  *)
(* merging at its first change.                                            *)
(***************************************************************************)
THEOREM ClosureIsComplete == Spec => [](TypeOK /\ ClosureComplete)
<1>1. Inv => TypeOK /\ ClosureComplete
  BY DEF Inv, Worked, Phases, ClosureComplete
<1>2. QED
  BY InitInv, StepInv, <1>1, PTL DEF Spec

-----------------------------------------------------------------------------
(***************************************************************************)
(* Nothing that need not be there is ever added: the items stay below      *)
(* every closed item set over the kernel.                                  *)
(***************************************************************************)
Sound == \A J : ClosureSound(J)

LEMMA InitSound == Init => Sound
  BY DEF Init, Sound, ClosureSound

LEMMA LookaheadSound ==
  ASSUME NEW I, NEW J, Below(I, J), Closed(J),
         NEW it \in DOMAIN I, Expands(it), NEW jt \in DOMAIN J,
         Token(jt) = Curr(it)
  PROVE  NextLookaheads(it, I[it]) \subseteq J[jt]
<1>1. it \in DOMAIN J /\ I[it] \subseteq J[it]
  BY DEF Below
<1>2. NextLookaheads(it, I[it]) \subseteq NextLookaheads(it, J[it])
  BY <1>1, NextMonotone
<1>3. NextLookaheads(it, J[it]) \subseteq J[jt]
  BY <1>1 DEF Closed
<1>4. QED
  BY <1>2, <1>3

LEMMA StepSound == Inv /\ Sound /\ [Next]_vars => Sound'
<1> SUFFICES ASSUME Inv, Sound, [Next]_vars,
                    NEW J, IsItemSet(J), Closed(J), Below(kernel', J)
             PROVE  Below(lr1_items', J)
  BY DEF Sound, ClosureSound
<1>1. kernel' = kernel
  BY DEF Next, vars, Pass, MergeLookaheads, Expand, NextRound, MergePass, LastPass
<1>2. Below(lr1_items, J)
  BY <1>1 DEF Sound, ClosureSound
<1>3. IsItemSet(lr1_items) /\ dirty \subseteq DOMAIN lr1_items
  BY DEF Inv, TypeOK
<1>4. ASSUME NEW it \in dirty, MergeLookaheads(it) PROVE Below(lr1_items', J)
  <2> DEFINE la == NextLookaheads(it, lr1_items[it])
  <2>1. \A jt \in DOMAIN lr1_items : Token(jt) = Curr(it) => la \subseteq J[jt]
    BY <1>2, <1>3, <1>4, LookaheadSound DEF MergeLookaheads, Below
  <2>2. lr1_items' = Merged(lr1_items, Curr(it), la)
    BY <1>4 DEF MergeLookaheads
  <2> HIDE DEF la
  <2>3. QED
    BY <1>2, <2>1, <2>2 DEF Merged, Below
<1>5. ASSUME NEW it \in dirty, Expand(it) PROVE Below(lr1_items', J)
  <2> DEFINE la == NextLookaheads(it, lr1_items[it])
             new == Initial(Curr(it))
  <2>1. it \in DOMAIN J /\ new \subseteq DOMAIN J
    BY <1>2, <1>3, <1>5 DEF Below, Closed, Expand
  <2>2. \A jt \in new : la \subseteq J[jt]
    BY <1>2, <1>3, <1>5, <2>1, LookaheadSound DEF Initial, Expand
  <2>3. lr1_items' = [jt \in DOMAIN lr1_items \cup new |->
                        IF jt \in new THEN la ELSE lr1_items[jt]]
    BY <1>5 DEF Expand
  <2> HIDE DEF la, new
  <2>4. QED
    BY <1>2, <2>1, <2>2, <2>3 DEF Below
<1>6. CASE MergePass
  <2>1. PICK it, jt \in DOMAIN lr1_items :
          /\ Adds(it, jt)
          /\ lr1_items' = [lr1_items EXCEPT
                             ![jt] = @ \cup NextLookaheads(it, lr1_items[it])]
    BY <1>6 DEF MergePass
  <2> DEFINE la == NextLookaheads(it, lr1_items[it])
  <2>2. la \subseteq J[jt]
    BY <1>2, <2>1, LookaheadSound DEF Adds, Below
  <2>3. lr1_items' = [lr1_items EXCEPT ![jt] = @ \cup la]
    BY <2>1
  <2> HIDE DEF la
  <2>4. /\ DOMAIN lr1_items' = DOMAIN lr1_items
        /\ \A kt \in DOMAIN lr1_items :
             lr1_items'[kt] = IF kt = jt THEN lr1_items[kt] \cup la
                              ELSE lr1_items[kt]
    BY <2>3
  <2>5. QED
    BY <1>2, <2>2, <2>4 DEF Below
<1>7. CASE UNCHANGED lr1_items
  BY <1>2, <1>7
<1>8. QED
  BY <1>4, <1>5, <1>6, <1>7 DEF Next, vars, Pass, NextRound, LastPass

THEOREM ClosureIsSound == Spec => [](\A J : ClosureSound(J))
<1>1. Init => Inv /\ Sound
  BY InitInv, InitSound
<1>2. Inv /\ Sound /\ [Next]_vars => (Inv /\ Sound)'
  BY StepInv, StepSound
<1>3. Inv /\ Sound => \A J : ClosureSound(J)
  BY DEF Sound
<1>4. QED
  BY <1>1, <1>2, <1>3, PTL DEF Spec

-----------------------------------------------------------------------------
(***************************************************************************)
(* The closure as a fixed point.  One round types, grows, and stays below  *)
(* what is closed; a round that changes nothing ends in a closed item set. *)
(***************************************************************************)
\* The items after a round, and the lookaheads one of them has then.
Reached(I) == DOMAIN I \cup (UNION {Initial(Curr(it)) :
                                      it \in {jt \in DOMAIN I : Expands(jt)}})
Gathered(I, jt) ==
  (IF jt \in DOMAIN I THEN I[jt] ELSE {})
  \cup (UNION {NextLookaheads(it, I[it]) : it \in
                 {kt \in DOMAIN I : Expands(kt) /\ Curr(kt) = Token(jt)}})

LEMMA RoundIs == \A I : Round(I) = [jt \in Reached(I) |-> Gathered(I, jt)]
  BY DEF Round, Reached, Gathered

LEMMA RoundTyped ==
  ASSUME NEW I, IsItemSet(I)
  PROVE  IsItemSet(Round(I)) /\ Below(I, Round(I))
<1>1. DOMAIN I \subseteq Items /\ \A it \in DOMAIN I : I[it] \in SUBSET Actions
  BY DEF IsItemSet
<1>2. Reached(I) \subseteq Items
  BY <1>1, InitialItems DEF Reached
<1>3. \A jt : Gathered(I, jt) \in SUBSET Actions
  <2>1. \A it \in DOMAIN I : NextLookaheads(it, I[it]) \in SUBSET Actions
    BY <1>1, NextTyped
  <2>2. QED
    BY <1>1, <2>1 DEF Gathered
<1>4. \A it \in DOMAIN I : it \in Reached(I) /\ I[it] \subseteq Gathered(I, it)
  BY DEF Reached, Gathered
<1>5. QED
  BY <1>2, <1>3, <1>4, RoundIs DEF IsItemSet, Below

LEMMA RoundBelow ==
  ASSUME NEW I, NEW J, Closed(J), Below(I, J)
  PROVE  Below(Round(I), J)
<1>1. Reached(I) \subseteq DOMAIN J
  BY DEF Reached, Below, Closed
<1>2. ASSUME NEW jt \in Reached(I)
      PROVE  Gathered(I, jt) \subseteq J[jt]
  <2>1. jt \in DOMAIN J
    BY <1>1, <1>2
  <2>2. \A it \in DOMAIN I : Expands(it) /\ Curr(it) = Token(jt) =>
          NextLookaheads(it, I[it]) \subseteq J[jt]
    BY <2>1, LookaheadSound
  <2>3. jt \in DOMAIN I => I[jt] \subseteq J[jt]
    BY DEF Below
  <2>4. QED
    BY <2>2, <2>3 DEF Gathered
<1>3. QED
  BY <1>1, <1>2, RoundIs DEF Below

LEMMA RoundCloses ==
  ASSUME NEW I, Round(I) = I
  PROVE  Closed(I)
<1>1. I = [jt \in Reached(I) |-> Gathered(I, jt)]
  BY RoundIs
<1>2. DOMAIN I = Reached(I) /\ \A jt \in DOMAIN I : I[jt] = Gathered(I, jt)
  BY <1>1
<1>3. \A it \in DOMAIN I : Expands(it) => Initial(Curr(it)) \subseteq DOMAIN I
  BY <1>2 DEF Reached
<1>4. ASSUME NEW it \in DOMAIN I, Expands(it),
             NEW jt \in DOMAIN I, Token(jt) = Curr(it)
      PROVE  NextLookaheads(it, I[it]) \subseteq I[jt]
  BY <1>2, <1>4 DEF Gathered
<1>5. QED
  BY <1>3, <1>4 DEF Closed

\* Two item sets below each other are one.
LEMMA BelowEach ==
  ASSUME NEW I, NEW J, IsItemSet(I), IsItemSet(J), Below(I, J), Below(J, I)
  PROVE  I = J
<1>1. /\ I = [it \in DOMAIN I |-> I[it]]
      /\ J = [it \in DOMAIN J |-> J[it]]
  BY DEF IsItemSet
<1>2. DOMAIN I = DOMAIN J /\ \A it \in DOMAIN I : I[it] = J[it]
  BY DEF Below
<1>3. QED
  BY <1>1, <1>2

-----------------------------------------------------------------------------
(***************************************************************************)
(* The rounds exist: for every n there is one function of the first n      *)
(* rounds.  The least number of a set of numbers stands for induction.     *)
(***************************************************************************)
LEMMA LeastNat ==
  ASSUME NEW T, T \subseteq Nat, T # {}
  PROVE  \E x \in T : \A y \in T : x <= y
<1> DEFINE R == {z \in Nat \X Nat : z[1] < z[2]}
<1>1. IsWellFoundedOn(R, Nat)
  BY NatLessThanWellFounded DEF OpToRel
<1>2. PICK x \in T : \A y \in T : ~ (<<y, x>> \in R)
  <2> HIDE DEF R
  <2>1. QED
    BY <1>1, WFMin
<1>3. \A a, b \in Nat : ~ (<<b, a>> \in R) => a <= b
  <2> TAKE a, b \in Nat
  <2>1. b < a => <<b, a>> \in R
    OBVIOUS
  <2>2. ~ (b < a) => a <= b
    OBVIOUS
  <2>3. QED
    BY <2>1, <2>2
<1> HIDE DEF R
<1>4. QED
  BY <1>2, <1>3

\* f are the rounds from K up to n.
FirstRounds(K, f, n) ==
  f = [i \in 0 .. n |-> IF i = 0 THEN K ELSE Round(f[i - 1])]

LEMMA FirstRoundsExist ==
  ASSUME NEW K, NEW n \in Nat
  PROVE  \E f : FirstRounds(K, f, n)
<1> DEFINE T == {m \in Nat : ~ \E f : FirstRounds(K, f, m)}
<1>1. SUFFICES ASSUME T # {} PROVE FALSE
  OBVIOUS
<1>2. PICK m \in T : \A k \in T : m <= k
  <2>1. T \subseteq Nat
    OBVIOUS
  <2> HIDE DEF T
  <2>2. QED
    BY <1>1, <2>1, LeastNat
<1>3. CASE m = 0
  <2>1. FirstRounds(K, [i \in 0 .. 0 |-> K], 0)
    BY DEF FirstRounds
  <2>2. QED
    BY <1>3, <2>1
<1>4. CASE m # 0
  <2>1. m - 1 \in Nat /\ ~ (m <= m - 1)
    BY <1>4
  <2>2. m - 1 \notin T
    BY <1>2, <2>1
  <2>3. PICK f : FirstRounds(K, f, m - 1)
    BY <2>1, <2>2
  <2> DEFINE g == [i \in 0 .. m |-> IF i = m THEN Round(f[m - 1]) ELSE f[i]]
  <2>4. \A i \in 0 .. m - 1 :
          f[i] = IF i = 0 THEN K ELSE Round(f[i - 1])
    BY <2>3 DEF FirstRounds
  <2>5. \A i \in 0 .. m : g[i] = IF i = 0 THEN K ELSE Round(g[i - 1])
    <3> TAKE i \in 0 .. m
    <3>1. CASE i = m
      <4>1. g[i] = Round(f[m - 1]) /\ g[m - 1] = f[m - 1]
        BY <2>1, <3>1
      <4>2. QED
        BY <1>4, <3>1, <4>1
    <3>2. CASE i # m
      <4>1. i \in 0 .. m - 1 /\ g[i] = f[i]
        BY <2>1, <3>2
      <4>2. i # 0 => g[i - 1] = f[i - 1]
        BY <2>1, <3>2
      <4>3. QED
        BY <2>4, <4>1, <4>2
    <3>3. QED
      BY <3>1, <3>2
  <2>6. FirstRounds(K, g, m)
    <3>1. g = [i \in 0 .. m |-> g[i]]
      OBVIOUS
    <3> HIDE DEF g
    <3>2. QED
      BY <2>5, <3>1 DEF FirstRounds
  <2>7. QED
    BY <2>6
<1>5. QED
  BY <1>3, <1>4

LEMMA FirstRoundsAgree ==
  ASSUME NEW K, NEW f, NEW g, NEW m \in Nat, NEW n \in Nat, m <= n,
         FirstRounds(K, f, m), FirstRounds(K, g, n)
  PROVE  \A i \in 0 .. m : f[i] = g[i]
<1> DEFINE T == {i \in 0 .. m : f[i] # g[i]}
<1>1. SUFFICES ASSUME T # {} PROVE FALSE
  OBVIOUS
<1>2. PICK k \in T : \A i \in T : k <= i
  <2>1. T \subseteq Nat
    OBVIOUS
  <2> HIDE DEF T
  <2>2. QED
    BY <1>1, <2>1, LeastNat
<1>3. /\ f[k] = IF k = 0 THEN K ELSE Round(f[k - 1])
      /\ g[k] = IF k = 0 THEN K ELSE Round(g[k - 1])
  <2>1. k \in 0 .. m /\ k \in 0 .. n
    BY <1>2
  <2>2. QED
    BY <2>1 DEF FirstRounds
<1>4. k # 0 => f[k - 1] = g[k - 1]
  <2>1. k # 0 => k - 1 \in 0 .. m /\ ~ (k <= k - 1)
    BY <1>2
  <2>2. QED
    BY <1>2, <2>1
<1>5. QED
  BY <1>2, <1>3, <1>4

LEMMA RoundsAre ==
  ASSUME NEW K
  PROVE  /\ Rounds(K)[0] = K
         /\ \A n \in Nat : Rounds(K)[n + 1] = Round(Rounds(K)[n])
<1> DEFINE F(n) == CHOOSE f : FirstRounds(K, f, n)
           g == [n \in Nat |-> F(n)[n]]
           IsAll(h) == h = [n \in Nat |-> IF n = 0 THEN K ELSE Round(h[n - 1])]
<1>1. \A n \in Nat : FirstRounds(K, F(n), n)
  BY FirstRoundsExist
<1> HIDE DEF F
<1>2. \A n \in Nat : g[n] = IF n = 0 THEN K ELSE Round(g[n - 1])
  <2> TAKE n \in Nat
  <2>1. g[n] = IF n = 0 THEN K ELSE Round(F(n)[n - 1])
    BY <1>1 DEF FirstRounds
  <2>2. CASE n # 0
    <3>1. n - 1 \in Nat /\ n - 1 <= n /\ n - 1 \in 0 .. n - 1
      BY <2>2
    <3>2. F(n - 1)[n - 1] = F(n)[n - 1]
      BY <3>1, <1>1, FirstRoundsAgree
    <3>3. g[n - 1] = F(n - 1)[n - 1]
      BY <3>1
    <3>4. QED
      BY <2>1, <3>2, <3>3
  <2>3. QED
    BY <2>1, <2>2
<1>3. IsAll(g)
  <2>1. g = [n \in Nat |-> g[n]]
    OBVIOUS
  <2> HIDE DEF g
  <2>2. QED
    BY <1>2, <2>1
<1> HIDE DEF g
<1>4. Rounds(K) = CHOOSE h : IsAll(h)
  BY DEF Rounds
<1>5. IsAll(CHOOSE h : IsAll(h))
  <2> HIDE DEF IsAll
  <2>1. QED
    BY <1>3
<1>6. Rounds(K) = [n \in Nat |-> IF n = 0 THEN K ELSE Round(Rounds(K)[n - 1])]
  BY <1>4, <1>5
<1> DEFINE r == Rounds(K)
<1>7. r = [n \in Nat |-> IF n = 0 THEN K ELSE Round(r[n - 1])]
  BY <1>6
<1> HIDE DEF r
<1>8. r[0] = K /\ \A n \in Nat : r[n + 1] = Round(r[n])
  <2>1. \A n \in Nat : r[n] = IF n = 0 THEN K ELSE Round(r[n - 1])
    BY <1>7
  <2>2. \A n \in Nat : n + 1 \in Nat /\ n + 1 # 0 /\ (n + 1) - 1 = n
    OBVIOUS
  <2>3. QED
    BY <2>1, <2>2
<1>9. QED
  BY <1>8 DEF r

\* What holds of all rounds: the types, and between the kernel and what is closed.
LEMMA RoundsBetween ==
  ASSUME NEW K, IsItemSet(K), NEW n \in Nat
  PROVE  /\ IsItemSet(Rounds(K)[n])
         /\ Below(K, Rounds(K)[n])
         /\ \A J : Closed(J) /\ Below(K, J) => Below(Rounds(K)[n], J)
<1> DEFINE P(I) == /\ IsItemSet(I)
                   /\ Below(K, I)
                   /\ \A J : Closed(J) /\ Below(K, J) => Below(I, J)
           r == Rounds(K)
           T == {m \in Nat : ~ P(r[m])}
<1>1. P(K)
  BY DEF Below
<1>2. ASSUME NEW I, P(I) PROVE P(Round(I))
  <2>1. IsItemSet(Round(I)) /\ Below(I, Round(I))
    BY <1>2, RoundTyped
  <2>2. Below(K, Round(I))
    BY <1>2, <2>1, BelowGrows
  <2>3. \A J : Closed(J) /\ Below(K, J) => Below(Round(I), J)
    BY <1>2, RoundBelow
  <2>4. QED
    BY <2>1, <2>2, <2>3
<1>3. r[0] = K /\ \A m \in Nat : r[m + 1] = Round(r[m])
  BY RoundsAre
<1> HIDE DEF P, r
<1>4. SUFFICES ASSUME T # {} PROVE FALSE
  BY DEF P, r
<1>5. PICK m \in T : \A k \in T : m <= k
  <2>1. T \subseteq Nat
    OBVIOUS
  <2> HIDE DEF T
  <2>2. QED
    BY <1>4, <2>1, LeastNat
<1>6. CASE m = 0
  BY <1>1, <1>3, <1>5, <1>6
<1>7. CASE m # 0
  <2>1. m - 1 \in Nat /\ ~ (m <= m - 1) /\ (m - 1) + 1 = m
    BY <1>5, <1>7
  <2>2. P(r[m - 1])
    BY <1>5, <2>1
  <2>3. r[m] = Round(r[m - 1])
    BY <1>3, <2>1
  <2>4. QED
    BY <1>2, <1>5, <2>2, <2>3
<1>8. QED
  BY <1>6, <1>7

-----------------------------------------------------------------------------
(***************************************************************************)
(* A round that changes something adds an item or a lookahead, of which    *)
(* there are no more than Bound.                                           *)
(***************************************************************************)
Pairs(I) == {p \in Items \X Actions : p[1] \in DOMAIN I /\ p[2] \in I[p[1]]}
Size(I)  == Cardinality(DOMAIN I) + Cardinality(Pairs(I))

LEMMA ItemsFinite == IsFiniteSet(Items)
<1> DEFINE Of(r) == {r} \X (0 .. Len(Rules[r].grammar))
           Parts == {Of(r) : r \in DOMAIN Rules}
<1>1. Rules \in Seq([token : Keys, grammar : Seq(Symbols)])
  BY ClosureAssumption
<1>2. IsFiniteSet(DOMAIN Rules)
  BY <1>1, LenProperties, FS_Interval
<1>3. \A r \in DOMAIN Rules : IsFiniteSet(Of(r))
  <2> TAKE r \in DOMAIN Rules
  <2>1. Rules[r] \in [token : Keys, grammar : Seq(Symbols)]
    BY <1>1, LenProperties, ElementOfSeq
  <2>2. Len(Rules[r].grammar) \in Nat
    BY <2>1, LenProperties
  <2>3. IsFiniteSet({r})
    BY FS_Singleton
  <2>4. \A n \in Nat : IsFiniteSet(0 .. n)
    BY FS_Interval
  <2>5. IsFiniteSet(0 .. Len(Rules[r].grammar))
    BY <2>2, <2>4
  <2>6. QED
    BY <2>3, <2>5, FS_Product
<1>4. IsFiniteSet(Parts)
  <2> DEFINE f == [r \in DOMAIN Rules |-> Of(r)]
  <2>1. f \in Surjection(DOMAIN Rules, Parts)
    BY DEF Surjection
  <2> HIDE DEF f, Parts
  <2>2. QED
    BY <1>2, <2>1, FS_Surjection
<1>5. Items = UNION Parts
  BY DEF Items
<1>6. \A T \in Parts : IsFiniteSet(T)
  BY <1>3
<1> HIDE DEF Parts, Of
<1>7. QED
  BY <1>4, <1>5, <1>6, FS_UNION

LEMMA SizeBounds ==
  ASSUME NEW I, IsItemSet(I)
  PROVE  /\ IsFiniteSet(DOMAIN I) /\ IsFiniteSet(Pairs(I))
         /\ Size(I) \in Nat /\ Bound \in Nat /\ Size(I) <= Bound
<1>1. IsFiniteSet(Items) /\ IsFiniteSet(Actions)
  BY ItemsFinite, ClosureAssumption
<1>2. /\ IsFiniteSet(Items \X Actions)
      /\ Cardinality(Items \X Actions) = Cardinality(Items) * Cardinality(Actions)
  BY <1>1, FS_Product
<1>3. DOMAIN I \in SUBSET Items /\ Pairs(I) \in SUBSET (Items \X Actions)
  BY DEF IsItemSet, Pairs
<1>4. /\ IsFiniteSet(DOMAIN I) /\ Cardinality(DOMAIN I) <= Cardinality(Items)
  BY <1>1, <1>3, FS_Subset
<1>5. /\ IsFiniteSet(Pairs(I))
      /\ Cardinality(Pairs(I)) <= Cardinality(Items \X Actions)
  BY <1>2, <1>3, FS_Subset
<1>6. /\ Cardinality(Items) \in Nat /\ Cardinality(Actions) \in Nat
      /\ Cardinality(DOMAIN I) \in Nat /\ Cardinality(Pairs(I)) \in Nat
  BY <1>1, <1>4, <1>5, FS_CardinalityType
<1>7. \A a, b \in Nat : a * (b + 1) = a + a * b /\ a * b \in Nat
  OBVIOUS
<1>8. Bound = Cardinality(Items) + Cardinality(Items) * Cardinality(Actions)
  BY <1>6, <1>7 DEF Bound
<1>9. Cardinality(Items) * Cardinality(Actions) \in Nat
  BY <1>6, <1>7
<1>10. Bound \in Nat
  BY <1>6, <1>8, <1>9
<1>11. Size(I) \in Nat
  BY <1>6 DEF Size
<1>12. Size(I) <= Bound
  BY <1>2, <1>4, <1>5, <1>6, <1>8, <1>9 DEF Size
<1>13. QED
  BY <1>4, <1>5, <1>10, <1>11, <1>12

LEMMA SizeGrows ==
  ASSUME NEW I, NEW J, IsItemSet(I), IsItemSet(J), Below(I, J), I # J
  PROVE  Size(I) < Size(J)
<1>1. DOMAIN I \in SUBSET DOMAIN J /\ Pairs(I) \in SUBSET Pairs(J)
  BY DEF Below, Pairs
<1>2. /\ IsFiniteSet(DOMAIN J) /\ IsFiniteSet(Pairs(J))
      /\ IsFiniteSet(DOMAIN I) /\ IsFiniteSet(Pairs(I))
  BY SizeBounds
<1>3. /\ Cardinality(DOMAIN I) <= Cardinality(DOMAIN J)
      /\ Cardinality(DOMAIN J) = Cardinality(DOMAIN I) => DOMAIN J = DOMAIN I
      /\ Cardinality(Pairs(I)) <= Cardinality(Pairs(J))
      /\ Cardinality(Pairs(J)) = Cardinality(Pairs(I)) => Pairs(J) = Pairs(I)
  BY <1>1, <1>2, FS_Subset
<1>4. ~ (DOMAIN J = DOMAIN I /\ Pairs(J) = Pairs(I))
  <2> SUFFICES ASSUME DOMAIN J = DOMAIN I, Pairs(J) = Pairs(I) PROVE FALSE
    OBVIOUS
  <2>1. ASSUME NEW it \in DOMAIN J PROVE J[it] \subseteq I[it]
    <3> SUFFICES ASSUME NEW a \in J[it] PROVE a \in I[it]
      OBVIOUS
    <3>1. it \in Items /\ a \in Actions
      BY <2>1 DEF IsItemSet
    <3>2. <<it, a>> \in Pairs(J)
      BY <2>1, <3>1 DEF Pairs
    <3>3. <<it, a>> \in Pairs(I)
      BY <3>2
    <3>4. QED
      BY <3>3 DEF Pairs
  <2>2. Below(J, I)
    BY <2>1 DEF Below
  <2>3. QED
    BY <2>2, BelowEach
<1>5. /\ Cardinality(DOMAIN I) \in Nat /\ Cardinality(DOMAIN J) \in Nat
      /\ Cardinality(Pairs(I)) \in Nat /\ Cardinality(Pairs(J)) \in Nat
  BY <1>2, FS_CardinalityType
<1>6. QED
  BY <1>3, <1>4, <1>5 DEF Size

LEMMA RoundsEnd ==
  ASSUME NEW K, IsItemSet(K)
  PROVE  \E n \in 0 .. Bound : Round(Rounds(K)[n]) = Rounds(K)[n]
<1> DEFINE r == Rounds(K)
           T == {n \in 0 .. Bound + 1 : ~ (n <= Size(r[n]))}
<1>1. SUFFICES ASSUME \A n \in 0 .. Bound : Round(r[n]) # r[n] PROVE FALSE
  OBVIOUS
<1>2. \A n \in Nat : /\ IsItemSet(r[n])
                     /\ Size(r[n]) \in Nat /\ Bound \in Nat /\ Size(r[n]) <= Bound
  BY RoundsBetween, SizeBounds
<1>3. \A n \in Nat : r[n + 1] = Round(r[n])
  BY RoundsAre
<1>4. \A n \in 0 .. Bound : Size(r[n]) < Size(r[n + 1])
  <2> TAKE n \in 0 .. Bound
  <2>1. IsItemSet(r[n]) /\ r[n + 1] = Round(r[n]) /\ Round(r[n]) # r[n]
    BY <1>1, <1>2, <1>3
  <2> HIDE DEF r
  <2>2. IsItemSet(Round(r[n])) /\ Below(r[n], Round(r[n]))
    BY <2>1, RoundTyped
  <2>3. QED
    BY <2>1, <2>2, SizeGrows
<1> HIDE DEF r
<1>5. T = {}
  <2> SUFFICES ASSUME T # {} PROVE FALSE
    OBVIOUS
  <2>1. PICK n \in T : \A k \in T : n <= k
    <3>1. T \subseteq Nat
      OBVIOUS
    <3> HIDE DEF T
    <3>2. QED
      BY <3>1, LeastNat
  <2>2. Bound \in Nat /\ n \in Nat /\ n # 0
    BY <1>2, <2>1
  <2>3. n - 1 \in 0 .. Bound /\ (n - 1) + 1 = n /\ ~ (n <= n - 1)
    BY <2>1, <2>2
  <2>4. n - 1 <= Size(r[n - 1])
    <3>1. n - 1 \in 0 .. Bound + 1 /\ n - 1 \notin T
      BY <2>1, <2>2, <2>3
    <3>2. QED
      BY <3>1
  <2>5. Size(r[n - 1]) < Size(r[n])
    BY <1>4, <2>3
  <2>6. n <= Size(r[n])
    BY <1>2, <2>2, <2>3, <2>4, <2>5
  <2>7. QED
    BY <2>1, <2>6
<1>6. Bound \in Nat /\ Bound + 1 \in 0 .. Bound + 1
  BY <1>2
<1>7. Bound + 1 <= Size(r[Bound + 1])
  BY <1>5, <1>6
<1>8. QED
  BY <1>2, <1>6, <1>7

\* LeastClosed is what its name says.
LEMMA LeastIsLeast ==
  ASSUME NEW K, IsItemSet(K)
  PROVE  /\ IsItemSet(LeastClosed(K)) /\ Closed(LeastClosed(K))
         /\ Below(K, LeastClosed(K))
         /\ \A J : Closed(J) /\ Below(K, J) => Below(LeastClosed(K), J)
<1> DEFINE n == CHOOSE m \in 0 .. Bound : Round(Rounds(K)[m]) = Rounds(K)[m]
<1>1. n \in 0 .. Bound /\ Round(Rounds(K)[n]) = Rounds(K)[n]
  BY RoundsEnd
<1>2. LeastClosed(K) = Rounds(K)[n]
  BY DEF LeastClosed
<1> HIDE DEF n
<1>3. n \in Nat
  BY <1>1
<1>4. QED
  BY <1>1, <1>2, <1>3, RoundsBetween, RoundCloses

(***************************************************************************)
(* The closure of a state is the least closed item set over its kernel,    *)
(* whatever order the hash table hands the items out in: no step exceeds   *)
(* it, and when the second phase ends (derivation.cc:126-147) it is there. *)
(***************************************************************************)
THEOREM ClosureIsLeastClosed == Spec => []ClosureIsLeast
<1>1. Inv /\ Sound => ClosureIsLeast
  <2> SUFFICES ASSUME Inv, Sound PROVE ClosureIsLeast
    OBVIOUS
  <2> DEFINE least == LeastClosed(kernel)
  <2>1. IsItemSet(kernel) /\ IsItemSet(lr1_items)
    BY DEF Inv, TypeOK
  <2>2. /\ IsItemSet(least) /\ Closed(least) /\ Below(kernel, least)
        /\ \A J : Closed(J) /\ Below(kernel, J) => Below(least, J)
    BY <2>1, LeastIsLeast
  <2> HIDE DEF least
  <2>3. ClosureSound(least) /\ Below(lr1_items, least)
    BY <2>2 DEF Sound, ClosureSound
  <2>4. ASSUME phase = "closed" PROVE lr1_items = least
    <3>1. Closed(lr1_items) /\ Below(kernel, lr1_items)
      BY <2>4 DEF Inv, Phases
    <3>2. Below(least, lr1_items)
      BY <2>2, <3>1
    <3>3. QED
      BY <2>1, <2>2, <2>3, <3>2, BelowEach
  <2>5. QED
    BY <2>3, <2>4 DEF ClosureIsLeast, least
<1>2. Init => Inv /\ Sound
  BY InitInv, InitSound
<1>3. Inv /\ Sound /\ [Next]_vars => (Inv /\ Sound)'
  BY StepInv, StepSound
<1>4. QED
  BY <1>1, <1>2, <1>3, PTL DEF Spec
=============================================================================
