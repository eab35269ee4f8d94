-------------------------- MODULE CollectionProofs --------------------------
(***************************************************************************)
(* The collection of states, for every grammar and every order of the hash *)
(* tables: ids, the recursion of resolve, and the automaton it builds; and *)
(* the rows of the table it is turned into (FillTable).                    *)
(***************************************************************************)
EXTENDS Collection, FillTable, SequenceTheorems, FiniteSetTheorems, TLAPS

\* The item sets, and those a state is built from: the augment item's, or
\* items that have moved over a symbol.
ItemSets   == UNION {[D -> SUBSET Actions] : D \in SUBSET C!Items}
KernelSets ==
  {I \in ItemSets :
     \A it \in DOMAIN I : it[2] = 0 =>
       \A r \in DOMAIN Rules : \A j \in DOMAIN Rules[r].grammar :
         Rules[r].grammar[j] # C!Token(it)}

\* What is proved of the closure of any such kernel.
CP == INSTANCE ClosureProofs WITH Kernels <- KernelSets

-----------------------------------------------------------------------------
(***************************************************************************)
(* Sequences: pushing, popping, and replacing the top.                     *)
(***************************************************************************)
LEMMA PushFacts ==
  ASSUME NEW S, NEW s \in Seq(S), NEW e \in S
  PROVE  /\ Append(s, e) \in Seq(S) /\ Len(Append(s, e)) = Len(s) + 1
         /\ Len(s) \in Nat
         /\ \A k \in 1 .. Len(s) : Append(s, e)[k] = s[k]
         /\ Append(s, e)[Len(s) + 1] = e
BY AppendProperties, LenProperties

LEMMA FrontFacts ==
  ASSUME NEW S, NEW s \in Seq(S), s # <<>>
  PROVE  /\ Front(s) \in Seq(S) /\ Len(Front(s)) = Len(s) - 1
         /\ Len(s) \in Nat /\ Len(s) - 1 \in Nat /\ Len(s) \in 1 .. Len(s)
         /\ s[Len(s)] \in S
         /\ \A k \in 1 .. Len(s) - 1 : Front(s)[k] = s[k]
<1>1. Len(s) \in Nat \ {0}
  BY EmptySeq
<1>2. \A k \in 1 .. Len(s) - 1 : s[k] \in S
  BY <1>1, ElementOfSeq
<1>3. /\ SubSeq(s, 1, Len(s) - 1) \in Seq(S)
      /\ Len(SubSeq(s, 1, Len(s) - 1))
           = IF 1 <= Len(s) - 1 THEN Len(s) - 1 - 1 + 1 ELSE 0
      /\ \A k \in 1 .. Len(s) - 1 - 1 + 1 :
           SubSeq(s, 1, Len(s) - 1)[k] = s[1 + k - 1]
  <2>1. 1 \in Int /\ Len(s) - 1 \in Int
    BY <1>1
  <2>2. QED
    BY <2>1, <1>2, SubSeqProperties
<1>4. Len(Front(s)) = Len(s) - 1
  <2> DEFINE n == Len(s)
             m == Len(SubSeq(s, 1, Len(s) - 1))
  <2>1. n \in Nat \ {0} /\ m = IF 1 <= n - 1 THEN n - 1 - 1 + 1 ELSE 0
    BY <1>1, <1>3
  <2> HIDE DEF n, m
  <2>2. m = n - 1
    BY <2>1
  <2>3. QED
    BY <2>2 DEF n, m, Front
<1>5. ASSUME NEW k \in 1 .. Len(s) - 1 PROVE Front(s)[k] = s[k]
  <2>1. k \in 1 .. Len(s) - 1 - 1 + 1 /\ 1 + k - 1 = k
    BY <1>1
  <2>2. QED
    BY <2>1, <1>3 DEF Front
<1>6. Front(s) \in Seq(S)
  BY <1>3 DEF Front
<1>7. Len(s) \in 1 .. Len(s)
  BY <1>1
<1>8. s[Len(s)] \in S
  BY <1>7, ElementOfSeq
<1>9. QED
  BY <1>1, <1>4, <1>5, <1>6, <1>7, <1>8

LEMMA TopFacts ==
  ASSUME NEW S, NEW s \in Seq(S), s # <<>>, NEW e \in S
  PROVE  /\ Append(Front(s), e) \in Seq(S)
         /\ Len(Append(Front(s), e)) = Len(s)
         /\ \A k \in 1 .. Len(s) - 1 : Append(Front(s), e)[k] = s[k]
         /\ Append(Front(s), e)[Len(s)] = e
<1> DEFINE f == Front(s)
<1>1. /\ f \in Seq(S) /\ Len(f) = Len(s) - 1 /\ Len(s) \in Nat
      /\ \A k \in 1 .. Len(s) - 1 : f[k] = s[k]
  BY FrontFacts
<1> HIDE DEF f
<1>2. /\ Append(f, e) \in Seq(S) /\ Len(Append(f, e)) = Len(f) + 1
      /\ \A k \in 1 .. Len(f) : Append(f, e)[k] = f[k]
      /\ Append(f, e)[Len(f) + 1] = e
  BY <1>1, PushFacts
<1>3. Len(f) + 1 = Len(s) /\ 1 .. Len(f) = 1 .. Len(s) - 1
  BY <1>1
<1>4. QED
  BY <1>1, <1>2, <1>3 DEF f

-----------------------------------------------------------------------------
(***************************************************************************)
(* The closure, as it is seen from here.                                   *)
(***************************************************************************)
LEMMA ClosureApplies == CP!ClosureAssumption /\ CP!KernelAssumption
<1>1. C!Symbols = CP!Symbols /\ C!Keys = CP!Keys /\ C!Items = CP!Items
  BY DEF C!Symbols, CP!Symbols, C!Keys, CP!Keys, C!Items, CP!Items
<1>2. CP!ClosureAssumption
  BY <1>1, CollectionAssumption DEF C!ClosureAssumption, CP!ClosureAssumption,
     C!IsFiniteSet, CP!IsFiniteSet
<1>3. ASSUME NEW I \in ItemSets PROVE CP!IsItemSet(I)
  BY <1>1, <1>3 DEF ItemSets, CP!IsItemSet
<1>4. \A it : C!Token(it) = CP!Token(it)
  BY DEF C!Token, CP!Token
<1>5. CP!KernelAssumption
  BY <1>3, <1>4 DEF KernelSets, CP!KernelAssumption
<1>6. QED
  BY <1>2, <1>5

LEMMA SameItems ==
  /\ C!Symbols = CP!Symbols /\ C!Keys = CP!Keys /\ C!Items = CP!Items
  /\ \A it : /\ C!Token(it) = CP!Token(it) /\ C!Body(it) = CP!Body(it)
             /\ C!IsFinal(it) <=> CP!IsFinal(it)
             /\ C!Curr(it) = CP!Curr(it)
BY DEF C!Symbols, CP!Symbols, C!Keys, CP!Keys, C!Items, CP!Items, C!Token,
   CP!Token, C!Body, CP!Body, C!IsFinal, CP!IsFinal, C!Curr, CP!Curr

LEMMA ItemsTyped ==
  ASSUME NEW it \in C!Items
  PROVE  /\ it[1] \in DOMAIN Rules /\ it[2] \in 0 .. Len(C!Body(it))
         /\ it = <<it[1], it[2]>> /\ Len(C!Body(it)) \in Nat
         /\ ~ C!IsFinal(it) => /\ C!Curr(it) \in C!Symbols
                               /\ it[2] + 1 \in 0 .. Len(C!Body(it))
                               /\ <<it[1], it[2] + 1>> \in C!Items
<1>1. /\ it[1] \in DOMAIN Rules /\ it[2] \in 0 .. Len(C!Body(it))
      /\ it = <<it[1], it[2]>>
      /\ C!Body(it) \in Seq(C!Symbols)
  BY ClosureApplies, SameItems, CP!ItemFacts
<1>2. Len(C!Body(it)) \in Nat
  BY <1>1, LenProperties
<1>3. ASSUME ~ C!IsFinal(it)
      PROVE  it[2] + 1 \in 1 .. Len(C!Body(it))
  BY <1>1, <1>2, <1>3 DEF C!IsFinal
<1>4. ASSUME ~ C!IsFinal(it)
      PROVE  C!Curr(it) \in C!Symbols
  BY <1>1, <1>3, <1>4, ElementOfSeq DEF C!Curr
<1>5. ASSUME ~ C!IsFinal(it)
      PROVE  <<it[1], it[2] + 1>> \in C!Items
  BY <1>1, <1>2, <1>3, <1>5 DEF C!Items, C!Body
<1>6. QED
  BY <1>1, <1>2, <1>3, <1>4, <1>5

LEMMA MovesTyped == ASSUME NEW I \in ItemSets PROVE Moves(I) \subseteq C!Symbols
<1>1. DOMAIN I \subseteq C!Items
  BY DEF ItemSets
<1>2. QED
  BY <1>1, ItemsTyped DEF Moves

LEMMA AugmentKernel == AugmentVector \in KernelSets
<1>1. 1 \in DOMAIN Rules /\ Rules \in Seq([token : C!Keys, grammar : Seq(C!Symbols)])
  <2>1. Rules \in Seq([token : C!Keys, grammar : Seq(C!Symbols)]) /\ Rules # <<>>
    BY CollectionAssumption DEF C!ClosureAssumption
  <2>2. QED
    BY <2>1, EmptySeq, LenProperties
<1>2. <<1, 0>> \in C!Items
  <2>1. Rules[1] \in [token : C!Keys, grammar : Seq(C!Symbols)]
    BY <1>1, LenProperties, ElementOfSeq
  <2>2. 0 \in 0 .. Len(Rules[1].grammar)
    BY <2>1, LenProperties
  <2>3. QED
    BY <1>1, <2>2 DEF C!Items
<1>3. AugmentVector \in [{<<1, 0>>} -> SUBSET Actions]
  BY CollectionAssumption DEF AugmentVector
<1>4. AugmentVector \in ItemSets
  BY <1>2, <1>3 DEF ItemSets
<1>5. \A it \in DOMAIN AugmentVector : C!Token(it) = Rules[1].token
  BY DEF AugmentVector, C!Token
<1>6. QED
  BY <1>4, <1>5, CollectionAssumption DEF KernelSets

LEMMA MovedKernel ==
  ASSUME NEW I \in ItemSets, NEW s PROVE InitialItems(I, s) \in KernelSets
<1> DEFINE over == {kt \in DOMAIN I : ~ C!IsFinal(kt) /\ C!Curr(kt) = s}
           D    == {<<it[1], it[2] + 1>> : it \in over}
<1>1. DOMAIN I \subseteq C!Items /\ \A it \in DOMAIN I : I[it] \in SUBSET Actions
  BY DEF ItemSets
<1>2. ASSUME NEW it \in over
      PROVE  /\ <<it[1], it[2] + 1>> \in C!Items
             /\ it[2] \in Nat /\ it[2] + 1 # 0
             /\ I[<<it[1], it[2] + 1 - 1>>] \in SUBSET Actions
  <2>1. /\ it = <<it[1], it[2]>> /\ it[2] \in Nat
        /\ <<it[1], it[2] + 1>> \in C!Items
    BY <1>1, ItemsTyped
  <2>2. it[2] + 1 - 1 = it[2] /\ it[2] + 1 # 0
    BY <2>1
  <2>3. QED
    BY <1>1, <2>1, <2>2
<1>3. ASSUME NEW jt \in D
      PROVE  /\ jt \in C!Items /\ jt[2] # 0
             /\ I[<<jt[1], jt[2] - 1>>] \in SUBSET Actions
  <2>1. PICK it \in over : jt = <<it[1], it[2] + 1>>
    OBVIOUS
  <2>2. jt[1] = it[1] /\ jt[2] = it[2] + 1 /\ it[2] \in Nat
    BY <2>1, <1>2
  <2>3. jt[2] - 1 = it[2] + 1 - 1
    BY <2>2
  <2>4. QED
    BY <2>1, <2>2, <2>3, <1>2
<1>4. InitialItems(I, s) = [jt \in D |-> I[<<jt[1], jt[2] - 1>>]]
  BY DEF InitialItems
<1> HIDE DEF D
<1>5. InitialItems(I, s) \in [D -> SUBSET Actions]
  BY <1>3, <1>4
<1>6. InitialItems(I, s) \in ItemSets /\ DOMAIN InitialItems(I, s) = D
  BY <1>3, <1>5 DEF ItemSets
<1>7. QED
  BY <1>3, <1>6 DEF KernelSets

-----------------------------------------------------------------------------
EdgeMaps == UNION {[D -> Nat] : D \in SUBSET C!Symbols}
Frames   == [state : Nat, build : SUBSET C!Symbols, visit : SUBSET C!Symbols,
             symbol : C!Symbols \cup {""}]

Phases == {"expand", "merge", "closed", "idle"}

TypeInv ==
  /\ states_ \in Seq(ItemSets) /\ dfa \in Seq(EdgeMaps) /\ stack \in Seq(Frames)
  /\ Len(dfa) = Len(states_)
  /\ phase \in Phases

\* The ids are the places.
IdInv ==
  /\ state_n_ = Len(states_)
  /\ state_id_to_ptr_ \in Seq(Nat) /\ Len(state_id_to_ptr_) = Len(states_)
  /\ \A k \in 1 .. Len(states_) : state_id_to_ptr_[k] = k
  /\ \A p, q \in 1 .. Len(states_) : states_[p] = states_[q] => p = q

(***************************************************************************)
(* A call of resolve on a state with the items I, its edges so far, and    *)
(* the symbol whose state is being constructed if there is one: a symbol   *)
(* has its edge, or its state is still to be built.                        *)
(***************************************************************************)
Fits(f, I, edges, pending) ==
  /\ f.build \cup pending \subseteq f.visit
  /\ f.visit \subseteq Moves(I)
  /\ f.build \cap pending = {}
  /\ DOMAIN edges = Moves(I) \ (f.build \cup pending)

Pending == IF phase = "idle" THEN {} ELSE {Top.symbol}

\* The calls below the one on top have built all their states.
StackInv ==
  \A k \in 1 .. Len(stack) :
    /\ stack[k].state \in 1 .. Len(states_)
    /\ Fits(stack[k], states_[stack[k].state], dfa[stack[k].state],
            IF k = Len(stack) THEN Pending ELSE {})
    /\ k < Len(stack) => stack[k].build = {}

EdgeInv ==
  \A p \in 1 .. Len(dfa) : \A s \in DOMAIN dfa[p] :
    dfa[p][s] \in 1 .. Len(states_)

StartInv ==
  /\ states_ = <<>> => stack = <<>> /\ phase # "idle"
  /\ states_ # <<>> /\ phase # "idle" => stack # <<>>

ShapeInv == TypeInv /\ IdInv /\ StackInv /\ EdgeInv /\ StartInv

\* While a state is constructed, what was proved of its closure is true.
ClosureInv == phase # "idle" => /\ CP!Inv /\ CP!Sound
                                /\ lr1_items \in ItemSets

-----------------------------------------------------------------------------
LEMMA SameNext == C!Next <=> CP!Next
<1>1. /\ \A it : C!Expands(it) <=> CP!Expands(it)
      /\ \A B : C!Initial(B) = CP!Initial(B)
  BY SameItems DEF C!Expands, CP!Expands, C!Initial, CP!Initial
<1>2. \A it, la : C!NextLookaheads(it, la) = CP!NextLookaheads(it, la)
  BY SameItems
  DEF C!NextLookaheads, CP!NextLookaheads, C!Follows, CP!Follows,
      C!FirstOf, CP!FirstOf
<1>3. \A I, B, la : C!Merged(I, B, la) = CP!Merged(I, B, la)
  BY SameItems DEF C!Merged, CP!Merged
<1>4. \A it : C!Take(it) <=> CP!Take(it)
  BY DEF C!Take, CP!Take
<1>5. ASSUME NEW it PROVE C!Pass(it) <=> CP!Pass(it)
  BY <1>1, <1>4 DEF C!Pass, CP!Pass
<1>6. ASSUME NEW it PROVE C!MergeLookaheads(it) <=> CP!MergeLookaheads(it)
  BY <1>1, <1>2, <1>3, <1>4, SameItems
  DEF C!MergeLookaheads, CP!MergeLookaheads
<1>7. ASSUME NEW it PROVE C!Expand(it) <=> CP!Expand(it)
  BY <1>1, <1>2, <1>4, SameItems DEF C!Expand, CP!Expand
<1>8. C!NextRound <=> CP!NextRound
  BY DEF C!NextRound, CP!NextRound
<1>9. C!MergePass <=> CP!MergePass
  BY <1>1, <1>2, SameItems DEF C!MergePass, CP!MergePass, C!Adds, CP!Adds
<1>10. C!LastPass <=> CP!LastPass
  BY <1>1, <1>2, SameItems DEF C!LastPass, CP!LastPass, C!Adds, CP!Adds
<1>11. QED
  BY <1>5, <1>6, <1>7, <1>8, <1>9, <1>10 DEF C!Next, CP!Next

\* The phases of the closure.
LEMMA ClosurePhases ==
  ASSUME C!Next, phase \in Phases
  PROVE  phase # "idle" /\ phase # "closed" /\ phase' \in Phases /\ phase' # "idle"
         /\ kernel' = kernel
BY DEF C!Next, C!NextRound, C!MergePass, C!LastPass, C!Pass, C!MergeLookaheads,
       C!Expand, C!Take, Phases

LEMMA ClosureStaysTyped ==
  ASSUME C!Next, CP!Inv', lr1_items \in ItemSets
  PROVE  lr1_items' \in ItemSets
<1>1. lr1_items = [it \in DOMAIN lr1_items |-> lr1_items[it]]
  BY DEF ItemSets
<1>2. lr1_items' = [it \in DOMAIN lr1_items' |-> lr1_items'[it]]
  BY <1>1
  DEF C!Next, C!NextRound, C!MergePass, C!LastPass, C!Pass, C!MergeLookaheads,
      C!Expand, C!Merged
<1>3. /\ DOMAIN lr1_items' \subseteq C!Items
      /\ \A it \in DOMAIN lr1_items' : lr1_items'[it] \in SUBSET Actions
  BY SameItems DEF CP!Inv, CP!TypeOK, CP!IsItemSet
<1> DEFINE D == DOMAIN lr1_items'
<1>4. lr1_items' \in [D -> SUBSET Actions] /\ D \in SUBSET C!Items
  BY <1>2, <1>3
<1>5. QED
  BY <1>4 DEF ItemSets

LEMMA ClosureStarts == CP!Init => CP!Inv /\ CP!Sound
BY ClosureApplies, CP!InitInv, CP!InitSound

LEMMA ClosureSteps == CP!Inv /\ CP!Sound /\ CP!Next => (CP!Inv /\ CP!Sound)'
BY ClosureApplies, CP!StepInv, CP!StepSound

LEMMA ApplyClosureInv ==
  ASSUME phase \in Phases, ClosureInv, ApplyClosure PROVE ClosureInv'
<1>1. C!Next
  BY DEF ApplyClosure
<1>2. CP!Inv' /\ CP!Sound' /\ lr1_items \in ItemSets
  BY <1>1, ClosurePhases, SameNext, ClosureSteps DEF ClosureInv
<1>3. lr1_items' \in ItemSets
  BY <1>1, <1>2, ClosureStaysTyped
<1>4. QED
  BY <1>2, <1>3 DEF ClosureInv

LEMMA ConstructInv ==
  ASSUME NEW I \in KernelSets, Construct(I) PROVE ClosureInv'
<1>1. (CP!Init => CP!Inv /\ CP!Sound)'
  BY ClosureStarts, PTL
<1>2. CP!Init'
  BY DEF Construct, CP!Init
<1>3. lr1_items' \in ItemSets
  BY DEF Construct, KernelSets
<1>4. QED
  BY <1>1, <1>2, <1>3 DEF ClosureInv

-----------------------------------------------------------------------------
(***************************************************************************)
(* What each operation does to the sequences.                              *)
(***************************************************************************)
Inv == ShapeInv /\ ClosureInv

LEMMA InitInv == Init => Inv
<1> SUFFICES ASSUME Init PROVE Inv
  OBVIOUS
<1>1. ShapeInv
  BY EmptySeq
  DEF Init, ShapeInv, TypeInv, IdInv, StackInv, EdgeInv, StartInv, Phases
<1>2. CP!Init /\ lr1_items \in ItemSets
  BY AugmentKernel DEF Init, CP!Init, KernelSets
<1>3. QED
  BY <1>1, <1>2, ClosureStarts DEF Inv, ClosureInv

\* The call on top.
LEMMA TopTyped ==
  ASSUME ShapeInv, stack # <<>>
  PROVE  /\ Len(stack) \in Nat /\ Len(stack) \in 1 .. Len(stack)
         /\ Top \in Frames
         /\ Top.state \in 1 .. Len(states_) /\ Top.state \in 1 .. Len(dfa)
         /\ states_[Top.state] \in ItemSets /\ dfa[Top.state] \in EdgeMaps
         /\ Fits(Top, states_[Top.state], dfa[Top.state], Pending)
<1>1. /\ Len(stack) \in Nat /\ Len(stack) \in 1 .. Len(stack) /\ Top \in Frames
  BY FrontFacts DEF ShapeInv, TypeInv, Top
<1>2. /\ Top.state \in 1 .. Len(states_) /\ Top.state \in 1 .. Len(dfa)
      /\ Fits(Top, states_[Top.state], dfa[Top.state], Pending)
  BY <1>1 DEF ShapeInv, StackInv, TypeInv, Top
<1>3. QED
  BY <1>1, <1>2, ElementOfSeq DEF ShapeInv, TypeInv

LEMMA FrameTyped ==
  ASSUME NEW p \in Nat, NEW I \in ItemSets PROVE Frame(p, I) \in Frames
BY MovesTyped DEF Frame, Frames

\* A call that begins fits a state that has no edges.
LEMMA FrameFits ==
  ASSUME NEW p, NEW I PROVE Fits(Frame(p, I), I, NoEdges, {})
BY DEF Frame, Fits, NoEdges

LEMMA MakeFacts ==
  ASSUME Inv, MakeState
  PROVE  \E s \in Top.build :
           /\ Construct(InitialItems(states_[Top.state], s))
           /\ stack' \in Seq(Frames) /\ Len(stack') = Len(stack)
           /\ \A k \in 1 .. Len(stack) - 1 : stack'[k] = stack[k]
           /\ stack'[Len(stack)] = [Top EXCEPT !.build = @ \ {s}, !.symbol = s]
<1>1. PICK s \in Top.build :
        /\ Construct(InitialItems(states_[Top.state], s))
        /\ SetTop([Top EXCEPT !.build = @ \ {s}, !.symbol = s])
  BY DEF MakeState
<1>2. Top \in Frames /\ stack # <<>> /\ stack \in Seq(Frames)
  BY TopTyped DEF MakeState, Inv, ShapeInv, TypeInv
<1> DEFINE f == [Top EXCEPT !.build = @ \ {s}, !.symbol = s]
<1>3. f \in Frames
  BY <1>2 DEF Frames
<1>4. stack' = Append(Front(stack), f)
  BY <1>1 DEF SetTop
<1> HIDE DEF f
<1>5. /\ stack' \in Seq(Frames) /\ Len(stack') = Len(stack)
      /\ \A k \in 1 .. Len(stack) - 1 : stack'[k] = stack[k]
      /\ stack'[Len(stack)] = f
  BY <1>2, <1>3, <1>4, TopFacts
<1>6. QED
  BY <1>1, <1>5 DEF f

LEMMA EmplacedFacts ==
  ASSUME ShapeInv
  PROVE  /\ Emplaced \in 1 .. Len(states_) + 1
         /\ Emplaced \in 1 .. Len(states_) => states_[Emplaced] = lr1_items
         /\ Emplaced = Len(states_) + 1 =>
              \A q \in 1 .. Len(states_) : states_[q] # lr1_items
<1> DEFINE same == {p \in DOMAIN states_ : SameState(states_[p], lr1_items)}
<1>1. Len(states_) \in Nat /\ DOMAIN states_ = 1 .. Len(states_)
  BY LenProperties DEF ShapeInv, TypeInv
<1>2. CASE same = {}
  <2>1. Emplaced = Len(states_) + 1
    BY <1>2 DEF Emplaced
  <2>2. \A q \in 1 .. Len(states_) : states_[q] # lr1_items
    BY <1>1, <1>2 DEF SameState
  <2>3. QED
    BY <1>1, <2>1, <2>2
<1>3. CASE same # {}
  <2>1. Emplaced \in same
    BY <1>3 DEF Emplaced
  <2>2. Emplaced \in 1 .. Len(states_) /\ states_[Emplaced] = lr1_items
    BY <1>1, <2>1 DEF SameState
  <2>3. QED
    BY <1>1, <2>2
<1>4. QED
  BY <1>2, <1>3

LEMMA RegisterFacts ==
  ASSUME ShapeInv, lr1_items \in ItemSets, NEW p \in 1 .. Len(states_) + 1,
         p \in 1 .. Len(states_) => states_[p] = lr1_items,
         p = Len(states_) + 1 =>
           \A q \in 1 .. Len(states_) : states_[q] # lr1_items,
         Register(p)
  PROVE  /\ states_' \in Seq(ItemSets) /\ Len(states_) \in Nat
         /\ Len(states_') \in Nat
         /\ Len(states_') = IF p = Len(states_) + 1 THEN p ELSE Len(states_)
         /\ \A q \in 1 .. Len(states_) : states_'[q] = states_[q]
         /\ states_'[p] = lr1_items
         /\ IdInv'
<1>1. /\ Len(states_) \in Nat /\ DOMAIN states_ = 1 .. Len(states_)
      /\ states_ \in Seq(ItemSets) /\ IdInv
  BY LenProperties DEF ShapeInv, TypeInv
<1>2. CASE p \in 1 .. Len(states_)
  <2>1. UNCHANGED stateVars
    BY <1>1, <1>2 DEF Register
  <2>2. IdInv'
    BY <1>1, <2>1 DEF IdInv, stateVars
  <2>3. p # Len(states_) + 1
    BY <1>1, <1>2
  <2>4. QED
    BY <1>1, <1>2, <2>1, <2>2, <2>3 DEF stateVars
<1>3. CASE p = Len(states_) + 1
  <2>1. /\ states_' = Append(states_, lr1_items)
        /\ state_id_to_ptr_' = Append(state_id_to_ptr_, p)
        /\ state_n_' = state_n_ + 1
    BY <1>1, <1>3 DEF Register
  <2>2. /\ states_' \in Seq(ItemSets) /\ Len(states_') = Len(states_) + 1
        /\ \A q \in 1 .. Len(states_) : states_'[q] = states_[q]
        /\ states_'[Len(states_) + 1] = lr1_items
    BY <1>1, <2>1, PushFacts
  <2>3. /\ state_id_to_ptr_' \in Seq(Nat)
        /\ Len(state_id_to_ptr_') = Len(states_) + 1
        /\ \A q \in 1 .. Len(states_) : state_id_to_ptr_'[q] = q
        /\ state_id_to_ptr_'[Len(states_) + 1] = p
    <3>1. /\ state_id_to_ptr_ \in Seq(Nat) /\ p \in Nat
          /\ Len(state_id_to_ptr_) = Len(states_)
          /\ \A q \in 1 .. Len(states_) : state_id_to_ptr_[q] = q
      BY <1>1 DEF IdInv
    <3>2. QED
      BY <3>1, <2>1, PushFacts
  <2>4. ASSUME NEW q \in 1 .. Len(states_')
        PROVE  /\ state_id_to_ptr_'[q] = q
               /\ q \in 1 .. Len(states_) \/ q = p
    BY <1>1, <1>3, <2>2, <2>3
  <2>5. ASSUME NEW q \in 1 .. Len(states_'), NEW r \in 1 .. Len(states_'),
               states_'[q] = states_'[r]
        PROVE  q = r
    <3>1. q \in 1 .. Len(states_) \/ q = p
      BY <2>4
    <3>2. r \in 1 .. Len(states_) \/ r = p
      BY <2>4
    <3>3. \A k \in 1 .. Len(states_) :
            states_'[k] = states_[k] /\ states_[k] # lr1_items
      BY <1>3, <2>2
    <3>4. states_'[p] = lr1_items
      BY <1>3, <2>2
    <3>5. QED
      BY <3>1, <3>2, <3>3, <3>4, <2>5, <1>1 DEF IdInv
  <2>6. state_n_' = Len(states_')
    BY <1>1, <2>1, <2>2 DEF IdInv
  <2>7. Len(states_') = p
    BY <1>3, <2>2
  <2>8. IdInv'
    BY <2>2, <2>3, <2>4, <2>5, <2>6 DEF IdInv
  <2>9. QED
    BY <1>1, <1>3, <2>2, <2>7, <2>8
<1>4. QED
  BY <1>1, <1>2, <1>3

LEMMA ExtendFacts ==
  ASSUME NEW f \in EdgeMaps, NEW x \in C!Symbols, NEW y \in Nat
  PROVE  /\ Extend(f, x, y) \in EdgeMaps
         /\ DOMAIN Extend(f, x, y) = DOMAIN f \cup {x}
         /\ Extend(f, x, y)[x] = y
         /\ \A z \in DOMAIN f : z # x => Extend(f, x, y)[z] = f[z]
         /\ Extend(f, x, y) # NoEdges
<1>1. DOMAIN f \subseteq C!Symbols /\ \A z \in DOMAIN f : f[z] \in Nat
  BY DEF EdgeMaps
<1> DEFINE D == DOMAIN f \cup {x}
<1>2. D \in SUBSET C!Symbols
  BY <1>1
<1>3. Extend(f, x, y) = [z \in D |-> IF z = x THEN y ELSE f[z]]
  BY DEF Extend
<1>4. Extend(f, x, y) \in [D -> Nat]
  BY <1>1, <1>3
<1>5. DOMAIN NoEdges = {}
  BY DEF NoEdges
<1>6. QED
  BY <1>2, <1>3, <1>4, <1>5 DEF EdgeMaps

LEMMA NoEdgesTyped == NoEdges \in EdgeMaps /\ DOMAIN NoEdges = {}
<1>1. NoEdges \in [{} -> Nat] /\ {} \in SUBSET C!Symbols
  BY DEF NoEdges
<1>2. QED
  BY <1>1 DEF EdgeMaps

\* resolve of the head: one state, without edges.
LEMMA AddHeadFacts ==
  ASSUME Inv, AddHead
  PROVE  /\ states_' \in Seq(ItemSets) /\ Len(states_') = 1
         /\ states_'[1] = lr1_items /\ IdInv'
         /\ dfa' \in Seq(EdgeMaps) /\ Len(dfa') = 1 /\ dfa'[1] = NoEdges
<1>1. /\ ShapeInv /\ states_ = <<>> /\ lr1_items \in ItemSets
      /\ Register(1) /\ dfa' = <<NoEdges>>
  BY DEF Inv, ClosureInv, AddHead
<1>2. Len(states_) = 0 /\ 1 \in 1 .. Len(states_) + 1
  BY <1>1
<1>3. /\ states_' \in Seq(ItemSets) /\ Len(states_') = 1
      /\ states_'[1] = lr1_items /\ IdInv'
  BY <1>1, <1>2, RegisterFacts
<1>4. dfa' \in Seq(EdgeMaps) /\ Len(dfa') = 1 /\ dfa'[1] = NoEdges
  BY <1>1, NoEdgesTyped
<1>5. QED
  BY <1>3, <1>4

\* add_state: the new edge of the call on top, and a state without edges when
\* the items are new.
LEMMA AddFacts ==
  ASSUME Inv, AddState
  PROVE  LET n == Len(states_)
             p == Emplaced
         IN /\ stack # <<>> /\ phase = "closed" /\ phase' = "idle"
            /\ stack' = stack /\ IdInv' /\ n \in Nat
            /\ p \in 1 .. n + 1
            /\ states_' \in Seq(ItemSets) /\ Len(states_') \in Nat
            /\ Len(states_') = IF p = n + 1 THEN p ELSE n
            /\ \A q \in 1 .. n : states_'[q] = states_[q]
            /\ states_'[p] = lr1_items
            /\ dfa' \in Seq(EdgeMaps) /\ Len(dfa') = Len(states_')
            /\ Top.symbol \in C!Symbols
            /\ dfa'[Top.state] = Extend(dfa[Top.state], Top.symbol, p)
            /\ \A q \in 1 .. n : q # Top.state => dfa'[q] = dfa[q]
            /\ p = n + 1 => dfa'[p] = NoEdges
<1> DEFINE n == Len(states_)
           p == Emplaced
           known == IF p \in DOMAIN dfa THEN dfa ELSE Append(dfa, NoEdges)
           edges == Extend(dfa[Top.state], Top.symbol, p)
<1>1. /\ ShapeInv /\ phase = "closed" /\ phase' = "idle" /\ stack' = stack
      /\ stack # <<>> /\ states_ # <<>> /\ Register(p)
      /\ dfa' = [known EXCEPT ![Top.state] = Extend(@, Top.symbol, p)]
      /\ lr1_items \in ItemSets
  BY DEF Inv, ShapeInv, StartInv, ClosureInv, AddState
<1>2. /\ p \in 1 .. n + 1
      /\ p \in 1 .. n => states_[p] = lr1_items
      /\ p = n + 1 => \A q \in 1 .. n : states_[q] # lr1_items
  BY <1>1, EmplacedFacts
<1>3. /\ Top.state \in 1 .. n /\ dfa[Top.state] \in EdgeMaps
      /\ Top.symbol \in C!Symbols
  <2>1. /\ Top.state \in 1 .. n /\ dfa[Top.state] \in EdgeMaps
        /\ states_[Top.state] \in ItemSets
        /\ Fits(Top, states_[Top.state], dfa[Top.state], Pending)
    BY <1>1, TopTyped
  <2>2. Top.symbol \in Moves(states_[Top.state])
    BY <1>1, <2>1 DEF Fits, Pending
  <2>3. QED
    BY <2>1, <2>2, MovesTyped
<1>4. dfa \in Seq(EdgeMaps) /\ Len(dfa) = n /\ n \in Nat /\ DOMAIN dfa = 1 .. n
  BY <1>1, LenProperties DEF ShapeInv, TypeInv
<1> HIDE DEF p
<1>5. /\ states_' \in Seq(ItemSets) /\ Len(states_') \in Nat
      /\ Len(states_') = IF p = n + 1 THEN p ELSE n
      /\ \A q \in 1 .. n : states_'[q] = states_[q]
      /\ states_'[p] = lr1_items
      /\ IdInv'
  BY <1>1, <1>2, RegisterFacts
<1>6. /\ known \in Seq(EdgeMaps) /\ Len(known) = Len(states_')
      /\ \A q \in 1 .. n : known[q] = dfa[q]
      /\ p = n + 1 => known[p] = NoEdges
  <2>1. CASE p \in 1 .. n
    <3>1. p \in DOMAIN dfa /\ p # n + 1
      BY <2>1, <1>4
    <3>2. known = dfa
      BY <3>1
    <3> HIDE DEF known
    <3>3. QED
      BY <3>1, <3>2, <1>4, <1>5
  <2>2. CASE p = n + 1
    <3>1. ~ (p \in DOMAIN dfa)
      BY <2>2, <1>4
    <3>2. known = Append(dfa, NoEdges)
      BY <3>1
    <3> HIDE DEF known
    <3>3. /\ Append(dfa, NoEdges) \in Seq(EdgeMaps)
          /\ Len(Append(dfa, NoEdges)) = n + 1
          /\ \A q \in 1 .. n : Append(dfa, NoEdges)[q] = dfa[q]
          /\ Append(dfa, NoEdges)[n + 1] = NoEdges
      BY <1>4, PushFacts, NoEdgesTyped
    <3>4. QED
      BY <3>2, <3>3, <2>2, <1>5
  <2>3. QED
    BY <2>1, <2>2, <1>2, <1>4
<1>7. dfa' = [known EXCEPT ![Top.state] = edges]
  BY <1>1, <1>3, <1>6
<1>8. edges \in EdgeMaps
  <2>1. p \in Nat
    BY <1>2, <1>4
  <2>2. QED
    BY <2>1, <1>3, ExtendFacts
<1>9. Top.state \in 1 .. Len(known) /\ (p = n + 1 => p # Top.state)
  BY <1>3, <1>4, <1>5, <1>6
<1> HIDE DEF known, edges
<1>10. /\ dfa' \in Seq(EdgeMaps) /\ Len(dfa') = Len(known)
       /\ \A q \in 1 .. Len(known) :
            dfa'[q] = IF q = Top.state THEN edges ELSE known[q]
  BY <1>6, <1>7, <1>8, <1>9, ExceptSeq
<1>11. \A q \in 1 .. n : q \in 1 .. Len(known)
  BY <1>2, <1>4, <1>5, <1>6
<1>12. \A q \in 1 .. n : q # Top.state => dfa'[q] = dfa[q]
  BY <1>6, <1>10, <1>11
<1>13. p = n + 1 => dfa'[p] = NoEdges
  <2>1. p = n + 1 => p \in 1 .. Len(known)
    BY <1>2, <1>4, <1>5, <1>6
  <2>2. QED
    BY <2>1, <1>6, <1>9, <1>10
<1>14. dfa'[Top.state] = Extend(dfa[Top.state], Top.symbol, p)
  BY <1>9, <1>10 DEF edges
<1>15. QED
  BY <1>1, <1>2, <1>3, <1>4, <1>5, <1>6, <1>10, <1>12, <1>13, <1>14 DEF p

\* A call that has built its states has all its edges.
LEMMA TopBuilt ==
  ASSUME ShapeInv, stack # <<>>, phase = "idle", Top.build = {}
  PROVE  DOMAIN dfa[Top.state] = Moves(states_[Top.state])
BY TopTyped DEF Fits, Pending

LEMMA VisitFacts ==
  ASSUME Inv, Visit
  PROVE  \E s \in Top.visit : LET to == dfa[Top.state][s] IN
           /\ s \in DOMAIN dfa[Top.state] /\ to \in 1 .. Len(states_)
           /\ stack' \in Seq(Frames)
           /\ Len(stack') = IF dfa[to] = NoEdges THEN Len(stack) + 1
                            ELSE Len(stack)
           /\ \A k \in 1 .. Len(stack) - 1 : stack'[k] = stack[k]
           /\ stack'[Len(stack)] = [Top EXCEPT !.visit = @ \ {s}]
           /\ dfa[to] = NoEdges =>
                stack'[Len(stack) + 1] = Frame(to, states_[to])
<1>1. PICK s \in Top.visit :
        LET to   == dfa[Top.state][s]
            rest == Append(Front(stack), [Top EXCEPT !.visit = @ \ {s}])
        IN  stack' = IF dfa[to] = NoEdges
                     THEN Append(rest, Frame(to, states_[to])) ELSE rest
  BY DEF Visit
<1> DEFINE to   == dfa[Top.state][s]
           f    == [Top EXCEPT !.visit = @ \ {s}]
           rest == Append(Front(stack), f)
<1>2. /\ ShapeInv /\ stack # <<>> /\ phase = "idle" /\ Top.build = {}
      /\ stack \in Seq(Frames) /\ states_ \in Seq(ItemSets)
  BY DEF Inv, ShapeInv, TypeInv, Visit
<1>3. /\ Top \in Frames /\ Len(stack) \in Nat
      /\ Top.state \in 1 .. Len(states_) /\ Top.state \in 1 .. Len(dfa)
      /\ Top.visit \subseteq Moves(states_[Top.state])
  BY <1>2, TopTyped DEF Fits
<1>4. s \in DOMAIN dfa[Top.state]
  BY <1>2, <1>3, TopBuilt
<1>5. to \in 1 .. Len(states_) /\ to \in Nat
  <2>1. to \in 1 .. Len(states_)
    BY <1>2, <1>3, <1>4 DEF ShapeInv, EdgeInv
  <2>2. QED
    BY <2>1
<1>6. f \in Frames
  BY <1>3 DEF Frames
<1>7. states_[to] \in ItemSets
  BY <1>2, <1>5, ElementOfSeq
<1>8. Frame(to, states_[to]) \in Frames
  BY <1>5, <1>7, FrameTyped
<1>9. stack' = IF dfa[to] = NoEdges THEN Append(rest, Frame(to, states_[to]))
               ELSE rest
  BY <1>1
<1> HIDE DEF f
<1>10. /\ rest \in Seq(Frames) /\ Len(rest) = Len(stack)
       /\ \A k \in 1 .. Len(stack) - 1 : rest[k] = stack[k]
       /\ rest[Len(stack)] = f
  BY <1>2, <1>6, TopFacts
<1> DEFINE g == Frame(to, states_[to])
<1>11. g \in Frames
  BY <1>8
<1> HIDE DEF rest, g
<1>12. /\ Append(rest, g) \in Seq(Frames)
       /\ Len(Append(rest, g)) = Len(stack) + 1
       /\ \A k \in 1 .. Len(stack) : Append(rest, g)[k] = rest[k]
       /\ Append(rest, g)[Len(stack) + 1] = g
  BY <1>10, <1>11, PushFacts
<1>13. Len(stack) \in 1 .. Len(stack)
       /\ \A k \in 1 .. Len(stack) - 1 : k \in 1 .. Len(stack)
  BY <1>2, <1>3, EmptySeq
<1>14. stack' = IF dfa[to] = NoEdges THEN Append(rest, g) ELSE rest
  BY <1>9 DEF g, rest
<1> HIDE DEF to
<1>15. CASE dfa[to] = NoEdges
  <2>1. stack' = Append(rest, g)
    BY <1>14, <1>15
  <2>2. /\ stack' \in Seq(Frames) /\ Len(stack') = Len(stack) + 1
        /\ \A k \in 1 .. Len(stack) - 1 : stack'[k] = stack[k]
        /\ stack'[Len(stack)] = f
        /\ stack'[Len(stack) + 1] = g
    BY <2>1, <1>10, <1>12, <1>13
  <2>3. QED
    BY <2>2, <1>4, <1>5, <1>15 DEF f, g, to
<1>16. CASE dfa[to] # NoEdges
  <2>1. stack' = rest
    BY <1>14, <1>16
  <2>2. QED
    BY <2>1, <1>4, <1>5, <1>10, <1>16 DEF f, to
<1>17. QED
  BY <1>15, <1>16

-----------------------------------------------------------------------------
(***************************************************************************)
(* The shape of the collection is kept.                                    *)
(***************************************************************************)
LEMMA ApplyClosureShape == ASSUME Inv, ApplyClosure PROVE ShapeInv'
<1>1. /\ ShapeInv /\ C!Next /\ UNCHANGED <<stateVars, dfa, stack>>
  BY DEF Inv, ApplyClosure
<1>2. phase \in Phases
  BY <1>1 DEF ShapeInv, TypeInv
<1>3. phase # "idle" /\ phase' # "idle" /\ phase' \in Phases
  BY <1>1, <1>2, ClosurePhases
<1>4. Pending' = Pending
  BY <1>1, <1>3 DEF Pending, Top
<1>5. TypeInv' /\ IdInv'
  BY <1>1, <1>3 DEF ShapeInv, TypeInv, IdInv, stateVars
<1>6. StackInv'
  BY <1>1, <1>4 DEF ShapeInv, StackInv, stateVars
<1>7. EdgeInv' /\ StartInv'
  BY <1>1, <1>3 DEF ShapeInv, EdgeInv, StartInv, stateVars
<1>8. QED
  BY <1>5, <1>6, <1>7 DEF ShapeInv

LEMMA AddHeadShape == ASSUME Inv, AddHead PROVE ShapeInv'
<1>1. /\ ShapeInv /\ states_ = <<>> /\ lr1_items \in ItemSets
      /\ Register(1) /\ dfa' = <<NoEdges>> /\ phase' = "idle"
      /\ stack' = <<Frame(1, lr1_items)>>
  BY DEF Inv, ClosureInv, AddHead
<1>3. /\ states_' \in Seq(ItemSets) /\ Len(states_') = 1
      /\ states_'[1] = lr1_items /\ IdInv'
  BY AddHeadFacts
<1>4. dfa' \in Seq(EdgeMaps) /\ Len(dfa') = 1 /\ dfa'[1] = NoEdges
  BY AddHeadFacts
<1> DEFINE f == Frame(1, lr1_items)
<1>5. f \in Frames /\ f.state = 1
  BY <1>1, FrameTyped DEF Frame
<1>6. Fits(f, lr1_items, NoEdges, {})
  BY FrameFits
<1> HIDE DEF f
<1>7. stack' \in Seq(Frames) /\ Len(stack') = 1 /\ stack'[1] = f
  BY <1>1, <1>5 DEF f
<1>8. TypeInv'
  BY <1>1, <1>3, <1>4, <1>7 DEF TypeInv, Phases
<1>9. StackInv'
  <2>1. Pending' = {}
    BY <1>1 DEF Pending
  <2>2. QED
    BY <2>1, <1>3, <1>4, <1>5, <1>6, <1>7 DEF StackInv
<1>10. EdgeInv'
  BY <1>4, NoEdgesTyped DEF EdgeInv
<1>11. StartInv'
  <2>1. states_' # <<>>
    BY <1>3
  <2>2. QED
    BY <2>1, <1>1 DEF StartInv
<1>12. QED
  BY <1>3, <1>8, <1>9, <1>10, <1>11 DEF ShapeInv

LEMMA MakeShape == ASSUME Inv, MakeState PROVE ShapeInv'
<1>1. /\ ShapeInv /\ stack # <<>> /\ phase = "idle"
      /\ UNCHANGED <<stateVars, dfa>>
  BY DEF Inv, MakeState
<1>2. PICK s \in Top.build :
        /\ Construct(InitialItems(states_[Top.state], s))
        /\ stack' \in Seq(Frames) /\ Len(stack') = Len(stack)
        /\ \A k \in 1 .. Len(stack) - 1 : stack'[k] = stack[k]
        /\ stack'[Len(stack)] = [Top EXCEPT !.build = @ \ {s}, !.symbol = s]
  BY MakeFacts
<1>3. /\ Len(stack) \in Nat /\ Len(stack) \in 1 .. Len(stack) /\ Top \in Frames
      /\ Fits(Top, states_[Top.state], dfa[Top.state], {})
  BY <1>1, TopTyped DEF Pending
<1>4. phase' = "expand"
  BY <1>2 DEF Construct
<1>5. TypeInv' /\ IdInv'
  BY <1>1, <1>2, <1>4 DEF ShapeInv, TypeInv, IdInv, stateVars, Phases
<1> DEFINE f == [Top EXCEPT !.build = @ \ {s}, !.symbol = s]
<1>6. /\ f.state = Top.state /\ f.build = Top.build \ {s}
      /\ f.visit = Top.visit /\ f.symbol = s
  BY <1>3 DEF Frames
<1> HIDE DEF f
<1>7. Fits(f, states_[Top.state], dfa[Top.state], {s})
  BY <1>3, <1>6 DEF Fits
<1>8. Pending' = {s} /\ stack'[Len(stack)] = f
  <2>1. stack'[Len(stack)] = f
    BY <1>2 DEF f
  <2>2. QED
    BY <2>1, <1>2, <1>4, <1>6 DEF Pending, Top
<1>9. ASSUME NEW k \in 1 .. Len(stack')
      PROVE  /\ stack'[k].state \in 1 .. Len(states_')
             /\ Fits(stack'[k], states_'[stack'[k].state], dfa'[stack'[k].state],
                     IF k = Len(stack') THEN Pending' ELSE {})
             /\ k < Len(stack') => stack'[k].build = {}
  <2>1. CASE k = Len(stack)
    BY <2>1, <1>1, <1>2, <1>3, <1>6, <1>7, <1>8, TopTyped DEF stateVars
  <2>2. CASE k \in 1 .. Len(stack) - 1
    <3>1. stack'[k] = stack[k] /\ k # Len(stack) /\ k \in 1 .. Len(stack)
          /\ k < Len(stack) /\ k # Len(stack')
      BY <2>2, <1>2, <1>3
    <3>2. QED
      BY <3>1, <1>1, <1>2 DEF ShapeInv, StackInv, stateVars
  <2>3. QED
    BY <2>1, <2>2, <1>2, <1>3
<1>10. StackInv'
  BY <1>9 DEF StackInv
<1>11. EdgeInv'
  BY <1>1 DEF ShapeInv, EdgeInv, stateVars
<1>12. StartInv'
  <2>1. stack' # <<>>
    BY <1>2, <1>3
  <2>2. states_ # <<>> /\ states_' = states_
    BY <1>1 DEF ShapeInv, StartInv, stateVars
  <2>3. QED
    BY <2>1, <2>2 DEF StartInv
<1>13. QED
  BY <1>5, <1>10, <1>11, <1>12 DEF ShapeInv

\* The state of the symbol under construction has no edge yet, so it is not the
\* state of a call below.
LEMMA OnlyTop ==
  ASSUME ShapeInv, stack # <<>>, phase # "idle", NEW k \in 1 .. Len(stack) - 1
  PROVE  stack[k].state # Top.state
<1>1. /\ Len(stack) \in Nat
      /\ Fits(Top, states_[Top.state], dfa[Top.state], Pending)
  BY TopTyped
<1>2. k \in 1 .. Len(stack) /\ k # Len(stack) /\ k < Len(stack)
  BY <1>1
<1>3. /\ Fits(stack[k], states_[stack[k].state], dfa[stack[k].state], {})
      /\ stack[k].build = {}
  BY <1>2 DEF ShapeInv, StackInv
<1>4. Top.symbol \in Moves(states_[Top.state]) /\ Top.symbol \notin DOMAIN dfa[Top.state]
  BY <1>1 DEF Fits, Pending
<1>5. DOMAIN dfa[stack[k].state] = Moves(states_[stack[k].state])
  BY <1>3 DEF Fits
<1>6. QED
  BY <1>4, <1>5

LEMMA AddShape == ASSUME Inv, AddState PROVE ShapeInv'
<1> DEFINE n == Len(states_)
           p == Emplaced
<1>1. /\ ShapeInv /\ stack # <<>> /\ phase = "closed" /\ phase' = "idle"
      /\ stack' = stack /\ IdInv' /\ n \in Nat
      /\ p \in 1 .. n + 1
      /\ states_' \in Seq(ItemSets) /\ Len(states_') \in Nat
      /\ Len(states_') = IF p = n + 1 THEN p ELSE n
      /\ \A q \in 1 .. n : states_'[q] = states_[q]
      /\ dfa' \in Seq(EdgeMaps) /\ Len(dfa') = Len(states_')
      /\ Top.symbol \in C!Symbols
      /\ dfa'[Top.state] = Extend(dfa[Top.state], Top.symbol, p)
      /\ \A q \in 1 .. n : q # Top.state => dfa'[q] = dfa[q]
      /\ p = n + 1 => dfa'[p] = NoEdges
  BY AddFacts DEF Inv
<1> HIDE DEF p
<1>2. /\ Len(stack) \in Nat /\ Len(stack) \in 1 .. Len(stack)
      /\ Top.state \in 1 .. n /\ dfa[Top.state] \in EdgeMaps
      /\ Fits(Top, states_[Top.state], dfa[Top.state], Pending)
  BY <1>1, TopTyped
<1>3. p \in Nat /\ p \in 1 .. Len(states_') /\ (\A q \in 1 .. n : q \in 1 .. Len(states_'))
  BY <1>1
<1>4. /\ DOMAIN dfa'[Top.state] = DOMAIN dfa[Top.state] \cup {Top.symbol}
      /\ dfa'[Top.state][Top.symbol] = p
      /\ \A z \in DOMAIN dfa[Top.state] :
           z # Top.symbol => dfa'[Top.state][z] = dfa[Top.state][z]
  <2> DEFINE e == Extend(dfa[Top.state], Top.symbol, p)
  <2>1. /\ DOMAIN e = DOMAIN dfa[Top.state] \cup {Top.symbol}
        /\ e[Top.symbol] = p
        /\ \A z \in DOMAIN dfa[Top.state] :
             z # Top.symbol => e[z] = dfa[Top.state][z]
    <3>1. dfa[Top.state] \in EdgeMaps /\ Top.symbol \in C!Symbols /\ p \in Nat
      BY <1>1, <1>2, <1>3
    <3> DEFINE g == dfa[Top.state]
               x == Top.symbol
    <3>2. g \in EdgeMaps /\ x \in C!Symbols
      BY <3>1
    <3> HIDE DEF g, x
    <3>3. /\ DOMAIN Extend(g, x, p) = DOMAIN g \cup {x}
          /\ Extend(g, x, p)[x] = p
          /\ \A z \in DOMAIN g : z # x => Extend(g, x, p)[z] = g[z]
      BY <3>1, <3>2, ExtendFacts, ZenonT(30)
    <3>4. QED
      BY <3>3 DEF g, x
  <2>2. dfa'[Top.state] = e
    BY <1>1
  <2> HIDE DEF e
  <2>3. QED
    BY <2>1, <2>2
<1>5. Pending = {Top.symbol} /\ Pending' = {}
  BY <1>1 DEF Pending
<1>6. TypeInv'
  BY <1>1 DEF ShapeInv, TypeInv, Phases
<1>7. ASSUME NEW k \in 1 .. Len(stack)
      PROVE  /\ stack[k].state \in 1 .. Len(states_')
             /\ Fits(stack[k], states_'[stack[k].state], dfa'[stack[k].state], {})
             /\ k < Len(stack) => stack[k].build = {}
  <2>1. CASE k = Len(stack)
    <3>1. Fits(Top, states_[Top.state], dfa'[Top.state], {})
      BY <1>2, <1>4, <1>5 DEF Fits
    <3>2. QED
      BY <2>1, <3>1, <1>1, <1>2, <1>3 DEF Top
  <2>2. CASE k \in 1 .. Len(stack) - 1
    <3>1. k # Len(stack) /\ k < Len(stack)
      BY <2>2, <1>2
    <3>2. /\ stack[k].state \in 1 .. n /\ stack[k].build = {}
          /\ Fits(stack[k], states_[stack[k].state], dfa[stack[k].state], {})
      BY <3>1, <1>1 DEF ShapeInv, StackInv
    <3>3. stack[k].state # Top.state
      BY <2>2, <1>1, OnlyTop
    <3>4. QED
      BY <3>2, <3>3, <1>1, <1>3
  <2>3. QED
    BY <2>1, <2>2, <1>2
<1>8. StackInv'
  BY <1>1, <1>5, <1>7 DEF StackInv
<1>9. ASSUME NEW q \in 1 .. Len(dfa'), NEW s \in DOMAIN dfa'[q]
      PROVE  dfa'[q][s] \in 1 .. Len(states_')
  <2>1. CASE q = Top.state
    <3>1. CASE s = Top.symbol
      BY <2>1, <3>1, <1>3, <1>4
    <3>2. CASE s # Top.symbol
      <4>1. s \in DOMAIN dfa[q] /\ dfa'[q][s] = dfa[q][s]
        BY <2>1, <3>2, <1>4
      <4>2. q \in 1 .. Len(dfa)
        BY <2>1, <1>1, TopTyped
      <4>3. dfa[q][s] \in 1 .. n
        BY <4>1, <4>2, <1>1 DEF ShapeInv, EdgeInv
      <4>4. QED
        BY <4>1, <4>3, <1>3
    <3>3. QED
      BY <3>1, <3>2
  <2>2. CASE q # Top.state /\ q \in 1 .. n
    <3>1. dfa'[q] = dfa[q] /\ q \in 1 .. Len(dfa)
      BY <2>2, <1>1 DEF ShapeInv, TypeInv
    <3>2. dfa[q][s] \in 1 .. n
      BY <3>1, <1>1 DEF ShapeInv, EdgeInv
    <3>3. QED
      BY <3>1, <3>2, <1>3
  <2>3. CASE q # Top.state /\ q = n + 1
    <3>1. p = n + 1 /\ dfa'[q] = NoEdges
      BY <2>3, <1>1
    <3>2. QED
      BY <3>1, NoEdgesTyped
  <2>4. q \in 1 .. n \/ q = n + 1
    BY <1>1
  <2>5. QED
    BY <2>1, <2>2, <2>3, <2>4
<1>10. EdgeInv'
  BY <1>9 DEF EdgeInv
<1>11. StartInv'
  <2>1. states_' # <<>>
    BY <1>3, EmptySeq
  <2>2. QED
    BY <2>1, <1>1 DEF StartInv
<1>12. QED
  BY <1>1, <1>6, <1>8, <1>10, <1>11 DEF ShapeInv

LEMMA VisitShape == ASSUME Inv, Visit PROVE ShapeInv'
<1>1. /\ ShapeInv /\ stack # <<>> /\ phase = "idle" /\ Top.build = {}
      /\ UNCHANGED <<closureVars, stateVars, dfa>>
  BY DEF Inv, Visit
<1>2. PICK s \in Top.visit : LET to == dfa[Top.state][s] IN
        /\ s \in DOMAIN dfa[Top.state] /\ to \in 1 .. Len(states_)
        /\ stack' \in Seq(Frames)
        /\ Len(stack') = IF dfa[to] = NoEdges THEN Len(stack) + 1
                         ELSE Len(stack)
        /\ \A k \in 1 .. Len(stack) - 1 : stack'[k] = stack[k]
        /\ stack'[Len(stack)] = [Top EXCEPT !.visit = @ \ {s}]
        /\ dfa[to] = NoEdges => stack'[Len(stack) + 1] = Frame(to, states_[to])
  BY VisitFacts
<1> DEFINE to == dfa[Top.state][s]
           f  == [Top EXCEPT !.visit = @ \ {s}]
<1>3. /\ Len(stack) \in Nat /\ Len(stack) \in 1 .. Len(stack) /\ Top \in Frames
      /\ Top.state \in 1 .. Len(states_)
      /\ Fits(Top, states_[Top.state], dfa[Top.state], {})
  BY <1>1, TopTyped DEF Pending
<1>4. f.state = Top.state /\ f.build = {} /\ f.visit = Top.visit \ {s}
  BY <1>1, <1>3 DEF Frames
<1>5. stack'[Len(stack)] = f
  BY <1>2
<1> HIDE DEF f
<1>6. Fits(f, states_[Top.state], dfa[Top.state], {})
  BY <1>1, <1>3, <1>4 DEF Fits
<1>7. Pending' = {} /\ phase' = phase
  BY <1>1 DEF Pending, closureVars
<1>8. TypeInv' /\ IdInv'
  BY <1>1, <1>2 DEF ShapeInv, TypeInv, IdInv, stateVars, closureVars
<1>9. /\ to \in 1 .. Len(states_)
      /\ Len(stack') = IF dfa[to] = NoEdges THEN Len(stack) + 1 ELSE Len(stack)
      /\ dfa[to] = NoEdges => stack'[Len(stack) + 1] = Frame(to, states_[to])
  BY <1>2
<1> HIDE DEF to
<1>10. ASSUME NEW k \in 1 .. Len(stack')
       PROVE  /\ stack'[k].state \in 1 .. Len(states_)
              /\ Fits(stack'[k], states_[stack'[k].state], dfa[stack'[k].state], {})
              /\ k < Len(stack') => stack'[k].build = {}
  <2>1. CASE k = Len(stack)
    BY <2>1, <1>3, <1>4, <1>5, <1>6
  <2>2. CASE k \in 1 .. Len(stack) - 1
    <3>1. stack'[k] = stack[k] /\ k # Len(stack) /\ k \in 1 .. Len(stack)
          /\ k < Len(stack)
      BY <2>2, <1>2, <1>3
    <3>2. QED
      BY <3>1, <1>1 DEF ShapeInv, StackInv
  <2>3. CASE k = Len(stack) + 1
    <3>1. /\ dfa[to] = NoEdges /\ k = Len(stack')
          /\ stack'[k] = Frame(to, states_[to])
      BY <2>3, <1>3, <1>9
    <3>2. stack'[k].state = to
      <4>1. Frame(to, states_[to]).state = to
        BY DEF Frame
      <4>2. QED
        BY <3>1, <4>1
    <3>3. Len(stack') \in Nat
      BY <1>3, <1>9
    <3>4. QED
      BY <3>1, <3>2, <3>3, <1>9, FrameFits
  <2>4. k \in 1 .. Len(stack) - 1 \/ k = Len(stack) \/ k = Len(stack) + 1
    BY <1>3, <1>9
  <2>5. QED
    BY <2>1, <2>2, <2>3, <2>4
<1>11. StackInv'
  BY <1>1, <1>7, <1>10 DEF StackInv, stateVars
<1>12. EdgeInv' /\ StartInv'
  BY <1>1, <1>7 DEF ShapeInv, EdgeInv, StartInv, stateVars
<1>13. QED
  BY <1>8, <1>11, <1>12 DEF ShapeInv

LEMMA ReturnShape == ASSUME Inv, Return PROVE ShapeInv'
<1>1. /\ ShapeInv /\ stack # <<>> /\ phase = "idle" /\ stack' = Front(stack)
      /\ stack \in Seq(Frames)
      /\ UNCHANGED <<closureVars, stateVars, dfa>>
  BY DEF Inv, ShapeInv, TypeInv, Return
<1>2. /\ stack' \in Seq(Frames) /\ Len(stack') = Len(stack) - 1
      /\ Len(stack) \in Nat
      /\ \A k \in 1 .. Len(stack) - 1 : stack'[k] = stack[k]
  BY <1>1, FrontFacts
<1>3. Pending' = {} /\ Pending = {} /\ phase' = phase
  BY <1>1 DEF Pending, closureVars
<1>4. TypeInv' /\ IdInv'
  BY <1>1, <1>2 DEF ShapeInv, TypeInv, IdInv, stateVars, closureVars
<1>5. ASSUME NEW k \in 1 .. Len(stack')
      PROVE  /\ stack'[k].state \in 1 .. Len(states_)
             /\ Fits(stack'[k], states_[stack'[k].state], dfa[stack'[k].state], {})
             /\ k < Len(stack') => stack'[k].build = {}
  <2>1. k \in 1 .. Len(stack) - 1 /\ k \in 1 .. Len(stack) /\ k < Len(stack)
    BY <1>2
  <2>2. stack'[k] = stack[k]
    BY <2>1, <1>2
  <2>3. QED
    BY <2>1, <2>2, <1>1, <1>3 DEF ShapeInv, StackInv
<1>6. StackInv'
  BY <1>1, <1>3, <1>5 DEF StackInv, stateVars
<1>7. EdgeInv' /\ StartInv'
  BY <1>1, <1>3 DEF ShapeInv, EdgeInv, StartInv, stateVars
<1>8. QED
  BY <1>4, <1>6, <1>7 DEF ShapeInv

-----------------------------------------------------------------------------
LEMMA StepInv == Inv /\ [Next]_vars => Inv'
<1> SUFFICES ASSUME Inv, [Next]_vars PROVE Inv'
  OBVIOUS
<1>1. CASE ApplyClosure
  BY <1>1, ApplyClosureShape, ApplyClosureInv DEF Inv, ShapeInv, TypeInv
<1>2. CASE AddHead
  <2>1. phase' = "idle"
    BY <1>2 DEF AddHead
  <2>2. QED
    BY <1>2, <2>1, AddHeadShape DEF Inv, ClosureInv
<1>3. CASE MakeState
  <2>1. PICK s \in Top.build : Construct(InitialItems(states_[Top.state], s))
    BY <1>3, MakeFacts
  <2>2. states_[Top.state] \in ItemSets
    BY <1>3, TopTyped DEF Inv, MakeState
  <2>3. InitialItems(states_[Top.state], s) \in KernelSets
    BY <2>2, MovedKernel
  <2>4. QED
    BY <1>3, <2>1, <2>3, ConstructInv, MakeShape DEF Inv
<1>4. CASE AddState
  <2>1. phase' = "idle"
    BY <1>4 DEF AddState
  <2>2. QED
    BY <1>4, <2>1, AddShape DEF Inv, ClosureInv
<1>5. CASE Visit
  <2>1. phase' = "idle"
    BY <1>5 DEF Visit, closureVars
  <2>2. QED
    BY <1>5, <2>1, VisitShape DEF Inv, ClosureInv
<1>6. CASE Return
  <2>1. phase' = "idle"
    BY <1>6 DEF Return, closureVars
  <2>2. QED
    BY <1>6, <2>1, ReturnShape DEF Inv, ClosureInv
<1>7. CASE UNCHANGED vars
  <2>1. /\ UNCHANGED <<kernel, lr1_items, expanded, dirty, next_dirty, phase>>
        /\ UNCHANGED <<states_, state_n_, state_id_to_ptr_, dfa, stack>>
    BY <1>7 DEF vars, closureVars, stateVars
  <2>2. Pending' = Pending
    BY <2>1 DEF Pending, Top
  <2>3. ShapeInv'
    BY <2>1, <2>2
    DEF Inv, ShapeInv, TypeInv, IdInv, StackInv, EdgeInv, StartInv
  <2>4. phase # "idle" => CP!Inv' /\ CP!Sound'
    <3>1. ASSUME phase # "idle" PROVE CP!Inv /\ CP!Sound
      BY <3>1 DEF Inv, ClosureInv
    <3>2. [CP!Next]_CP!vars
      BY <2>1 DEF CP!vars
    <3>3. QED
      BY <3>1, <3>2, ClosureApplies, CP!StepInv, CP!StepSound
  <2>5. ClosureInv'
    BY <2>1, <2>4 DEF Inv, ClosureInv
  <2>6. QED
    BY <2>3, <2>5 DEF Inv
<1>8. QED
  BY <1>1, <1>2, <1>3, <1>4, <1>5, <1>6, <1>7 DEF Next

(***************************************************************************)
(* The ids LalrMerge and the table count on, for every grammar: the states *)
(* are numbered without a gap in the order they are made, and no two have  *)
(* the same items.                                                         *)
(***************************************************************************)
THEOREM IdsDense == Spec => []IdsAreDense
<1>1. Inv => IdsAreDense
  <2> SUFFICES ASSUME Inv PROVE IdsAreDense
    OBVIOUS
  <2>1. /\ state_id_to_ptr_ \in Seq(Nat) /\ states_ \in Seq(ItemSets)
        /\ IdInv
    BY DEF Inv, ShapeInv, TypeInv, IdInv
  <2>2. /\ DOMAIN state_id_to_ptr_ = 1 .. Len(state_id_to_ptr_)
        /\ DOMAIN states_ = 1 .. Len(states_)
    BY <2>1, LenProperties
  <2>3. IsInjective(states_)
    BY <2>1, <2>2 DEF IdInv, IsInjective
  <2>4. QED
    BY <2>1, <2>2, <2>3 DEF IdsAreDense, IdInv
<1>2. QED
  BY InitInv, StepInv, <1>1, PTL DEF Spec

-----------------------------------------------------------------------------
(***************************************************************************)
(* The recursion.  A state has all its edges, or a call for it is going    *)
(* on, or it has none and a call still has to visit it.                    *)
(***************************************************************************)
OnStack(p) == \E k \in 1 .. Len(stack) : stack[k].state = p

Promised(p) ==
  \E k \in 1 .. Len(stack) :
    \E s \in stack[k].visit \cap DOMAIN dfa[stack[k].state] :
      dfa[stack[k].state][s] = p

ResolveInv ==
  \A p \in 1 .. Len(states_) :
    \/ DOMAIN dfa[p] = Moves(states_[p])
    \/ OnStack(p)
    \/ dfa[p] = NoEdges /\ Promised(p)

LEMMA AddHeadResolve == ASSUME Inv, Inv', AddHead PROVE ResolveInv'
<1>1. /\ states_ = <<>> /\ Register(1) /\ stack' = <<Frame(1, lr1_items)>>
      /\ lr1_items \in ItemSets /\ ShapeInv
  BY DEF AddHead, Inv, ClosureInv
<1>2. Len(states_') = 1
  BY AddHeadFacts
<1>3. Len(stack') = 1 /\ stack'[1].state = 1
  BY <1>1 DEF Frame
<1>4. QED
  BY <1>2, <1>3 DEF ResolveInv, OnStack

LEMMA MakeResolve ==
  ASSUME Inv, Inv', ResolveInv, MakeState PROVE ResolveInv'
<1>1. UNCHANGED <<states_, dfa>>
  BY DEF MakeState, stateVars
<1>2. PICK s \in Top.build :
        /\ Len(stack') = Len(stack)
        /\ \A k \in 1 .. Len(stack) - 1 : stack'[k] = stack[k]
        /\ stack'[Len(stack)] = [Top EXCEPT !.build = @ \ {s}, !.symbol = s]
  BY MakeFacts
<1>3. Top \in Frames /\ Len(stack) \in Nat
  BY TopTyped DEF MakeState, Inv
<1>4. ASSUME NEW k \in 1 .. Len(stack)
      PROVE  stack'[k].state = stack[k].state /\ stack'[k].visit = stack[k].visit
  <2>1. CASE k = Len(stack)
    <3>1. stack'[k] = [Top EXCEPT !.build = @ \ {s}, !.symbol = s]
      BY <2>1, <1>2
    <3>2. Top = stack[k]
      BY <2>1 DEF Top
    <3>3. QED
      BY <3>1, <3>2, <1>3 DEF Frames
  <2>2. CASE k \in 1 .. Len(stack) - 1
    BY <2>2, <1>2
  <2>3. QED
    BY <2>1, <2>2, <1>3
<1>5. QED
  BY <1>1, <1>2, <1>4 DEF ResolveInv, OnStack, Promised

LEMMA AddResolve ==
  ASSUME Inv, Inv', ResolveInv, AddState PROVE ResolveInv'
<1> DEFINE n == Len(states_)
           e == Emplaced
<1>1. /\ ShapeInv /\ stack # <<>> /\ phase = "closed"
      /\ stack' = stack /\ n \in Nat /\ e \in 1 .. n + 1
      /\ Len(states_') = IF e = n + 1 THEN e ELSE n
      /\ \A q \in 1 .. n : states_'[q] = states_[q]
      /\ dfa'[Top.state] = Extend(dfa[Top.state], Top.symbol, e)
      /\ \A q \in 1 .. n : q # Top.state => dfa'[q] = dfa[q]
      /\ e = n + 1 => dfa'[e] = NoEdges
  BY AddFacts DEF Inv
<1>2. /\ Len(stack) \in Nat /\ Len(stack) \in 1 .. Len(stack)
      /\ Top.state \in 1 .. n
      /\ Fits(Top, states_[Top.state], dfa[Top.state], {Top.symbol})
  <2>1. Pending = {Top.symbol}
    BY <1>1 DEF Pending
  <2>2. QED
    BY <1>1, <2>1, TopTyped
<1> HIDE DEF e
<1>3. /\ DOMAIN dfa'[Top.state] = DOMAIN dfa[Top.state] \cup {Top.symbol}
      /\ dfa'[Top.state][Top.symbol] = e
      /\ \A z \in DOMAIN dfa[Top.state] :
           z # Top.symbol => dfa'[Top.state][z] = dfa[Top.state][z]
  BY <1>1 DEF Extend
<1>4. Top.symbol \notin DOMAIN dfa[Top.state] /\ Top.symbol \in Top.visit
  BY <1>2 DEF Fits
<1>5. \A p : OnStack(p) => OnStack(p)'
  BY <1>1 DEF OnStack
<1>6. ASSUME NEW p, Promised(p) PROVE Promised(p)'
  <2>1. PICK k \in 1 .. Len(stack) :
          \E s \in stack[k].visit \cap DOMAIN dfa[stack[k].state] :
            dfa[stack[k].state][s] = p
    BY <1>6 DEF Promised
  <2>2. PICK s \in stack[k].visit \cap DOMAIN dfa[stack[k].state] :
          dfa[stack[k].state][s] = p
    BY <2>1
  <2>3. stack[k].state \in 1 .. n
    BY <1>1 DEF ShapeInv, StackInv
  <2>4. /\ s \in DOMAIN dfa'[stack[k].state]
        /\ dfa'[stack[k].state][s] = p
    <3>1. CASE stack[k].state = Top.state
      BY <3>1, <2>2, <1>3, <1>4
    <3>2. CASE stack[k].state # Top.state
      BY <3>2, <2>2, <2>3, <1>1
    <3>3. QED
      BY <3>1, <3>2
  <2>5. QED
    BY <2>2, <2>4, <1>1 DEF Promised
<1>7. ASSUME NEW p \in 1 .. n
      PROVE  \/ DOMAIN dfa'[p] = Moves(states_'[p])
             \/ OnStack(p)'
             \/ dfa'[p] = NoEdges /\ Promised(p)'
  <2>1. CASE p = Top.state
    BY <2>1, <1>1, <1>2 DEF OnStack, Top
  <2>2. CASE p # Top.state
    <3>1. dfa'[p] = dfa[p] /\ states_'[p] = states_[p]
      BY <2>2, <1>1
    <3>2. QED
      BY <3>1, <1>5, <1>6 DEF ResolveInv
  <2>3. QED
    BY <2>1, <2>2
<1>8. ASSUME NEW p \in 1 .. Len(states_'), p \notin 1 .. n
      PROVE  dfa'[p] = NoEdges /\ Promised(p)'
  <2>1. p = e /\ e = n + 1
    BY <1>8, <1>1
  <2>2. Promised(p)'
    <3>1. /\ Top.symbol \in DOMAIN dfa'[Top.state] /\ Top.symbol \in Top.visit
          /\ dfa'[Top.state][Top.symbol] = p
      BY <2>1, <1>3, <1>4
    <3>2. Top = stack'[Len(stack)] /\ Len(stack) \in 1 .. Len(stack')
      BY <1>1, <1>2 DEF Top
    <3>3. QED
      BY <3>1, <3>2 DEF Promised
  <2>3. QED
    BY <2>1, <2>2, <1>1
<1>9. QED
  BY <1>7, <1>8 DEF ResolveInv

LEMMA VisitResolve ==
  ASSUME Inv, Inv', ResolveInv, Visit PROVE ResolveInv'
<1>1. /\ ShapeInv /\ stack # <<>> /\ UNCHANGED <<states_, dfa>>
  BY DEF Inv, Visit, stateVars
<1>2. PICK s \in Top.visit : LET to == dfa[Top.state][s] IN
        /\ Len(stack') = IF dfa[to] = NoEdges THEN Len(stack) + 1
                         ELSE Len(stack)
        /\ \A k \in 1 .. Len(stack) - 1 : stack'[k] = stack[k]
        /\ stack'[Len(stack)] = [Top EXCEPT !.visit = @ \ {s}]
        /\ dfa[to] = NoEdges => stack'[Len(stack) + 1] = Frame(to, states_[to])
  BY VisitFacts
<1> DEFINE to == dfa[Top.state][s]
<1>3. /\ Len(stack) \in Nat /\ Len(stack) \in 1 .. Len(stack) /\ Top \in Frames
  BY <1>1, TopTyped
<1>4. /\ \A k \in 1 .. Len(stack) : k \in 1 .. Len(stack')
      /\ dfa[to] = NoEdges => Len(stack) + 1 \in 1 .. Len(stack')
  BY <1>2, <1>3
<1>5. ASSUME NEW k \in 1 .. Len(stack)
      PROVE  /\ stack'[k].state = stack[k].state
             /\ \A z \in stack[k].visit :
                  z \in stack'[k].visit \/ (k = Len(stack) /\ z = s)
  <2>1. CASE k = Len(stack)
    <3>1. stack'[k] = [Top EXCEPT !.visit = @ \ {s}] /\ Top = stack[k]
      BY <2>1, <1>2 DEF Top
    <3>2. QED
      BY <3>1, <2>1, <1>3, ZenonT(30) DEF Frames
  <2>2. CASE k \in 1 .. Len(stack) - 1
    BY <2>2, <1>2
  <2>3. QED
    BY <2>1, <2>2, <1>3
<1>6. ASSUME NEW p, p = to, dfa[p] = NoEdges PROVE OnStack(p)'
  <2>1. stack'[Len(stack) + 1] = Frame(p, states_[p])
    BY <1>2, <1>6
  <2>2. Frame(p, states_[p]).state = p
    BY DEF Frame
  <2>3. QED
    BY <2>1, <2>2, <1>4, <1>6 DEF OnStack
<1>7. ASSUME NEW p, OnStack(p) PROVE OnStack(p)'
  BY <1>4, <1>5, <1>7 DEF OnStack
<1>8. ASSUME NEW p, dfa[p] = NoEdges, Promised(p) PROVE Promised(p)' \/ OnStack(p)'
  <2>1. PICK k \in 1 .. Len(stack) :
          \E z \in stack[k].visit \cap DOMAIN dfa[stack[k].state] :
            dfa[stack[k].state][z] = p
    BY <1>8 DEF Promised
  <2>2. PICK z \in stack[k].visit \cap DOMAIN dfa[stack[k].state] :
          dfa[stack[k].state][z] = p
    BY <2>1
  <2>3. CASE z \in stack'[k].visit
    <3>1. stack'[k].state = stack[k].state /\ k \in 1 .. Len(stack')
      BY <1>4, <1>5
    <3>2. QED
      BY <2>2, <2>3, <3>1, <1>1 DEF Promised
  <2>4. CASE k = Len(stack) /\ z = s
    <3>1. p = to
      BY <2>2, <2>4 DEF Top
    <3>2. QED
      BY <3>1, <1>6, <1>8
  <2>5. QED
    BY <2>2, <2>3, <2>4, <1>5
<1>9. QED
  BY <1>1, <1>7, <1>8 DEF ResolveInv

LEMMA ReturnResolve ==
  ASSUME Inv, Inv', ResolveInv, Return PROVE ResolveInv'
<1>1. /\ ShapeInv /\ stack # <<>> /\ phase = "idle"
      /\ Top.build = {} /\ Top.visit = {}
      /\ UNCHANGED <<states_, dfa>> /\ stack' = Front(stack)
      /\ stack \in Seq(Frames)
  BY DEF Inv, ShapeInv, TypeInv, Return, stateVars
<1>2. /\ Len(stack') = Len(stack) - 1 /\ Len(stack) \in Nat
      /\ \A k \in 1 .. Len(stack) - 1 : stack'[k] = stack[k]
  BY <1>1, FrontFacts
<1>3. DOMAIN dfa[Top.state] = Moves(states_[Top.state])
  BY <1>1, TopBuilt
<1>4. \A k \in 1 .. Len(stack) : k # Len(stack) =>
        k \in 1 .. Len(stack') /\ stack'[k] = stack[k]
  BY <1>2
<1>5. ASSUME NEW p, OnStack(p), p # Top.state PROVE OnStack(p)'
  BY <1>4, <1>5 DEF OnStack, Top
<1>6. ASSUME NEW p, Promised(p) PROVE Promised(p)'
  BY <1>1, <1>4, <1>6 DEF Promised, Top
<1>7. QED
  BY <1>1, <1>3, <1>5, <1>6 DEF ResolveInv

LEMMA StepResolve == Inv /\ ResolveInv /\ [Next]_vars => ResolveInv'
<1> SUFFICES ASSUME Inv, ResolveInv, [Next]_vars PROVE ResolveInv'
  OBVIOUS
<1>1. Inv'
  BY StepInv
<1>2. ASSUME UNCHANGED <<states_, dfa, stack>> PROVE ResolveInv'
  BY <1>2 DEF ResolveInv, OnStack, Promised
<1>3. CASE ApplyClosure \/ UNCHANGED vars
  BY <1>2, <1>3 DEF ApplyClosure, vars, stateVars
<1>4. QED
  BY <1>1, <1>3, AddHeadResolve, MakeResolve, AddResolve, VisitResolve,
     ReturnResolve
  DEF Next

LEMMA InitResolve == Init => ResolveInv
BY EmptySeq DEF Init, ResolveInv

(***************************************************************************)
(* Although a call passes over each state that has an edge, as if another  *)
(* one had resolved it, no state is forgotten, for every grammar.          *)
(***************************************************************************)
THEOREM NobodyForgotten == Spec => []UnresolvedAreAwaited
<1>1. Inv /\ ResolveInv => UnresolvedAreAwaited
  <2> SUFFICES ASSUME Inv, ResolveInv, NEW p \in DOMAIN states_,
                      Moves(states_[p]) # {}, dfa[p] = NoEdges
               PROVE  \E k \in DOMAIN stack :
                        \/ stack[k].state = p
                        \/ \E s \in stack[k].visit \cap DOMAIN dfa[stack[k].state] :
                              dfa[stack[k].state][s] = p
    BY DEF UnresolvedAreAwaited
  <2>1. DOMAIN states_ = 1 .. Len(states_) /\ DOMAIN stack = 1 .. Len(stack)
    BY LenProperties DEF Inv, ShapeInv, TypeInv
  <2>2. DOMAIN dfa[p] # Moves(states_[p])
    BY NoEdgesTyped
  <2>3. OnStack(p) \/ Promised(p)
    BY <2>1, <2>2 DEF ResolveInv
  <2>4. QED
    BY <2>1, <2>3 DEF OnStack, Promised
<1>2. Init => Inv /\ ResolveInv
  BY InitInv, InitResolve
<1>3. Inv /\ ResolveInv /\ [Next]_vars => (Inv /\ ResolveInv)'
  BY StepInv, StepResolve
<1>4. QED
  BY <1>1, <1>2, <1>3, PTL DEF Spec

-----------------------------------------------------------------------------
(***************************************************************************)
(* The automaton.  Its states are least closed item sets.                  *)
(***************************************************************************)
IsLeast(J, K) ==
  /\ C!Closed(J) /\ C!Below(K, J)
  /\ \A L \in ItemSets : C!Closed(L) /\ C!Below(K, L) => C!Below(J, L)

Least(K)   == CHOOSE J \in ItemSets : IsLeast(J, K)
First      == Least(AugmentVector)
Goto(I, s) == Least(InitialItems(I, s))

Found == {states_[p] : p \in DOMAIN states_} \cup {First}
Edges == UNION {{<<states_[p], s, states_[dfa[p][s]]>> : s \in DOMAIN dfa[p]} :
                  p \in DOMAIN dfa}

A == INSTANCE Automaton WITH
       Start <- First, Symbols <- C!Symbols, Moves <- Moves, Goto <- Goto,
       found <- Found, edges <- Edges

LEMMA LeastUnique ==
  ASSUME NEW K, NEW I \in ItemSets, NEW J \in ItemSets, IsLeast(I, K), IsLeast(J, K)
  PROVE  I = J
<1>1. C!Below(I, J) /\ C!Below(J, I)
  BY DEF IsLeast
<1>2. DOMAIN I = DOMAIN J /\ \A it \in DOMAIN I : I[it] = J[it]
  BY <1>1 DEF C!Below
<1>3. I = [it \in DOMAIN I |-> I[it]] /\ J = [it \in DOMAIN J |-> J[it]]
  BY DEF ItemSets
<1>4. QED
  BY <1>2, <1>3

\* A state that is closed is the least one over its kernel.
LEMMA ClosedIsLeast ==
  ASSUME Inv, phase = "closed" PROVE lr1_items = Least(kernel)
<1>1. CP!Inv /\ CP!Sound /\ lr1_items \in ItemSets
  BY DEF Inv, ClosureInv
<1>2. CP!Closed(lr1_items) /\ CP!Below(kernel, lr1_items)
  BY <1>1 DEF CP!Inv, CP!Phases
<1>3. \A L : CP!ClosureSound(L)
  BY <1>1 DEF CP!Sound
<1>4. \A I : C!Closed(I) <=> CP!Closed(I)
  <2>1. /\ \A it : C!Expands(it) <=> CP!Expands(it)
        /\ \A B : C!Initial(B) = CP!Initial(B)
    BY SameItems DEF C!Expands, CP!Expands, C!Initial, CP!Initial
  <2>2. \A it, la : C!NextLookaheads(it, la) = CP!NextLookaheads(it, la)
    BY SameItems
    DEF C!NextLookaheads, CP!NextLookaheads, C!Follows, CP!Follows,
        C!FirstOf, CP!FirstOf
  <2>3. QED
    BY <2>1, <2>2, SameItems DEF C!Closed, CP!Closed
<1>5. \A I, J : C!Below(I, J) <=> CP!Below(I, J)
  BY DEF C!Below, CP!Below
<1>6. \A L \in ItemSets : CP!IsItemSet(L)
  BY SameItems DEF ItemSets, CP!IsItemSet
<1>7. IsLeast(lr1_items, kernel)
  BY <1>2, <1>3, <1>4, <1>5, <1>6 DEF IsLeast, CP!ClosureSound
<1>8. Least(kernel) \in ItemSets /\ IsLeast(Least(kernel), kernel)
  BY <1>1, <1>7 DEF Least
<1>9. QED
  BY <1>1, <1>7, <1>8, LeastUnique

\* What is constructed: the state the call on top moves to by its symbol.
KernelInv ==
  /\ states_ = <<>> => kernel = AugmentVector
  /\ states_ # <<>> /\ phase # "idle" =>
       kernel = InitialItems(states_[Top.state], Top.symbol)
  /\ states_ # <<>> => states_[1] = First

LEMMA InitKernel == Init => KernelInv
BY DEF Init, KernelInv

LEMMA StepKernel == Inv /\ KernelInv /\ [Next]_vars => KernelInv'
<1> SUFFICES ASSUME Inv, KernelInv, [Next]_vars PROVE KernelInv'
  OBVIOUS
<1>1. CASE ApplyClosure
  <2>1. /\ phase # "idle" /\ kernel' = kernel
        /\ UNCHANGED <<states_, stack>>
    BY <1>1, ClosurePhases
    DEF ApplyClosure, stateVars, Inv, ShapeInv, TypeInv
  <2>2. QED
    BY <2>1 DEF KernelInv, Top
<1>2. CASE AddHead
  <2>1. /\ states_ = <<>> /\ phase = "closed" /\ phase' = "idle" /\ Register(1)
        /\ lr1_items \in ItemSets /\ ShapeInv
    BY <1>2 DEF AddHead, Inv, ClosureInv
  <2>2. lr1_items = First
    BY <2>1, ClosedIsLeast DEF KernelInv, First
  <2>4. states_'[1] = lr1_items /\ Len(states_') = 1
    BY <1>2, AddHeadFacts
  <2>5. states_' # <<>>
    BY <2>4
  <2>6. QED
    BY <2>1, <2>2, <2>4, <2>5 DEF KernelInv
<1>3. CASE MakeState
  <2>1. PICK s \in Top.build :
          /\ Construct(InitialItems(states_[Top.state], s))
          /\ Len(stack') = Len(stack)
          /\ stack'[Len(stack)] = [Top EXCEPT !.build = @ \ {s}, !.symbol = s]
    BY <1>3, MakeFacts
  <2>2. /\ UNCHANGED states_ /\ Top \in Frames /\ states_ # <<>>
    BY <1>3, TopTyped DEF MakeState, stateVars, Inv, ShapeInv, StartInv
  <2>3. Top' = [Top EXCEPT !.build = @ \ {s}, !.symbol = s]
    BY <2>1 DEF Top
  <2>4. Top'.state = Top.state /\ Top'.symbol = s
    BY <2>2, <2>3 DEF Frames
  <2>5. kernel' = InitialItems(states_'[Top'.state], Top'.symbol)
    BY <2>1, <2>2, <2>4 DEF Construct
  <2>6. QED
    BY <2>2, <2>5 DEF KernelInv
<1>4. CASE AddState
  <2>1. /\ phase' = "idle" /\ states_ # <<>>
        /\ states_ \in Seq(ItemSets) /\ states_' \in Seq(ItemSets)
        /\ Len(states_') = IF Emplaced = Len(states_) + 1 THEN Emplaced ELSE Len(states_)
        /\ \A q \in 1 .. Len(states_) : states_'[q] = states_[q]
    BY <1>4, AddFacts DEF AddState, Inv, ShapeInv, TypeInv
  <2>2. 1 \in 1 .. Len(states_) /\ Len(states_) \in Nat \ {0}
    BY <2>1, EmptySeq
  <2>3. states_'[1] = First
    BY <2>1, <2>2 DEF KernelInv
  <2>4. states_' # <<>>
    <3>1. Len(states_') # 0
      BY <2>1, <2>2
    <3>2. QED
      BY <3>1, EmptySeq
  <2>5. QED
    BY <2>1, <2>3, <2>4 DEF KernelInv
<1>5. CASE Visit \/ Return
  <2>1. phase = "idle" /\ UNCHANGED <<kernel, phase, states_>>
    BY <1>5 DEF Visit, Return, closureVars, stateVars
  <2>2. QED
    BY <2>1 DEF KernelInv
<1>6. CASE UNCHANGED vars
  BY <1>6 DEF KernelInv, vars, closureVars, stateVars, Top
<1>7. QED
  BY <1>1, <1>2, <1>3, <1>4, <1>5, <1>6 DEF Next

\* The edges, one by one.
IsEdge(e, p, s) ==
  p \in 1 .. Len(dfa) /\ s \in DOMAIN dfa[p] /\ e = <<states_[p], s, states_[dfa[p][s]]>>

LEMMA EdgesAre ==
  ASSUME dfa \in Seq(EdgeMaps), NEW e
  PROVE  e \in Edges <=> \E p, s : IsEdge(e, p, s)
<1>1. DOMAIN dfa = 1 .. Len(dfa)
  BY LenProperties
<1>2. QED
  BY <1>1 DEF Edges, IsEdge

LEMMA FoundAre ==
  ASSUME states_ \in Seq(ItemSets), NEW I
  PROVE  I \in Found <=> I = First \/ \E p \in 1 .. Len(states_) : states_[p] = I
<1>1. DOMAIN states_ = 1 .. Len(states_)
  BY LenProperties
<1>2. QED
  BY <1>1 DEF Found

\* add_state draws an edge of the automaton that is not there yet.
LEMMA AddDraws ==
  ASSUME Inv, Inv', KernelInv, AddState PROVE A!Draw
<1> DEFINE n == Len(states_)
           p == Emplaced
           t == Top.state
           x == Top.symbol
           I == states_[t]
           new == <<I, x, lr1_items>>
<1>1. /\ stack # <<>> /\ phase = "closed" /\ n \in Nat /\ p \in 1 .. n + 1
      /\ Len(states_') = IF p = n + 1 THEN p ELSE n
      /\ \A q \in 1 .. n : states_'[q] = states_[q]
      /\ states_'[p] = lr1_items
      /\ x \in C!Symbols
      /\ dfa'[t] = Extend(dfa[t], x, p)
      /\ \A q \in 1 .. n : q # t => dfa'[q] = dfa[q]
      /\ p = n + 1 => dfa'[p] = NoEdges
  BY AddFacts
<1>2. /\ ShapeInv /\ states_ \in Seq(ItemSets) /\ dfa \in Seq(EdgeMaps)
      /\ states_' \in Seq(ItemSets) /\ dfa' \in Seq(EdgeMaps)
      /\ Len(dfa) = n /\ Len(dfa') = Len(states_')
      /\ \A q, r \in 1 .. n : states_[q] = states_[r] => q = r
      /\ \A q \in 1 .. n : \A s \in DOMAIN dfa[q] : dfa[q][s] \in 1 .. n
  BY DEF Inv, ShapeInv, TypeInv, IdInv, EdgeInv
<1>3. t \in 1 .. n /\ x \in Moves(I) /\ x \notin DOMAIN dfa[t]
  <2>1. t \in 1 .. n /\ Fits(Top, I, dfa[t], Pending)
    BY <1>1, <1>2, TopTyped
  <2>2. Pending = {x}
    BY <1>1 DEF Pending
  <2> HIDE DEF t, x, I
  <2>3. QED
    BY <2>1, <2>2 DEF Fits
<1>4. lr1_items = Goto(I, x)
  <2>1. states_ # <<>>
    BY DEF AddState
  <2>2. kernel = InitialItems(I, x)
    BY <1>1, <2>1 DEF KernelInv
  <2>3. QED
    BY <1>1, <2>2, ClosedIsLeast DEF Goto
<1> HIDE DEF p, t, x
<1>5. /\ DOMAIN dfa'[t] = DOMAIN dfa[t] \cup {x}
      /\ dfa'[t][x] = p
      /\ \A z \in DOMAIN dfa[t] : dfa'[t][z] = dfa[t][z]
  BY <1>1, <1>3 DEF Extend
<1>6. \A q \in 1 .. Len(states_') : q \in 1 .. n \/ (q = p /\ p = n + 1)
  BY <1>1
<1>7. /\ \A q \in 1 .. n : q \in 1 .. Len(states_')
      /\ p \in 1 .. Len(states_')
  BY <1>1
<1>8. Found' = Found \cup {lr1_items}
  <2>1. ASSUME NEW J
        PROVE  J \in Found' <=> J = First \/ \E q \in 1 .. Len(states_') : states_'[q] = J
    <3>1. DOMAIN states_' = 1 .. Len(states_')
      BY <1>2, LenProperties
    <3>2. QED
      BY <3>1 DEF Found
  <2>2. ASSUME NEW J
        PROVE  J \in Found <=> J = First \/ \E q \in 1 .. n : states_[q] = J
    BY <1>2, FoundAre
  <2>3. ASSUME NEW J PROVE J \in Found' <=> J \in Found \cup {lr1_items}
    BY <1>1, <1>6, <1>7, <2>1, <2>2
  <2>4. QED
    BY <2>3
<1>9. Edges' = Edges \cup {new}
  <2>1. ASSUME NEW e
        PROVE  e \in Edges' <=>
                 \E q \in 1 .. Len(states_') : \E s \in DOMAIN dfa'[q] :
                   e = <<states_'[q], s, states_'[dfa'[q][s]]>>
    <3>1. DOMAIN dfa' = 1 .. Len(states_')
      BY <1>2, LenProperties
    <3>2. QED
      BY <3>1 DEF Edges
  <2>2. ASSUME NEW e
        PROVE  e \in Edges <=>
                 \E q \in 1 .. n : \E s \in DOMAIN dfa[q] :
                   e = <<states_[q], s, states_[dfa[q][s]]>>
    <3>1. DOMAIN dfa = 1 .. n
      BY <1>2, LenProperties
    <3>2. QED
      BY <3>1 DEF Edges
  \* An edge of before is still there.
  <2>3. ASSUME NEW q \in 1 .. n, NEW s \in DOMAIN dfa[q]
        PROVE  /\ q \in 1 .. Len(states_') /\ s \in DOMAIN dfa'[q]
               /\ states_'[q] = states_[q]
               /\ states_'[dfa'[q][s]] = states_[dfa[q][s]]
    <3>1. s \in DOMAIN dfa'[q] /\ dfa'[q][s] = dfa[q][s]
      BY <1>1, <1>5
    <3>2. dfa[q][s] \in 1 .. n
      BY <1>2
    <3>3. QED
      BY <3>1, <3>2, <1>1, <1>7
  <2>4. t \in 1 .. Len(states_') /\ x \in DOMAIN dfa'[t]
        /\ <<states_'[t], x, states_'[dfa'[t][x]]>> = new
    BY <1>1, <1>3, <1>5, <1>7
  \* There is no other.
  <2>5. ASSUME NEW q \in 1 .. Len(states_'), NEW s \in DOMAIN dfa'[q]
        PROVE  (q = t /\ s = x) \/ (q \in 1 .. n /\ s \in DOMAIN dfa[q])
    <3>1. CASE q = t
      BY <3>1, <1>3, <1>5
    <3>2. CASE q \in 1 .. n /\ q # t
      BY <3>2, <1>1
    <3>3. CASE q = p /\ p = n + 1
      BY <3>3, <1>1, NoEdgesTyped
    <3>4. QED
      BY <3>1, <3>2, <3>3, <1>6
  <2> HIDE DEF new, I, n
  <2>6. ASSUME NEW e PROVE e \in Edges' => e \in Edges \cup {new}
    BY <2>1, <2>2, <2>3, <2>4, <2>5
  <2>7. ASSUME NEW e PROVE e \in Edges \cup {new} => e \in Edges'
    BY <2>1, <2>2, <2>3, <2>4, SMTT(30)
  <2>8. QED
    BY <2>6, <2>7
<1>10. <<I, x>> \in A!Left
  <2>1. I \in Found
    BY <1>2, <1>3, FoundAre
  <2>2. ASSUME NEW e \in Edges, <<e[1], e[2]>> = <<I, x>> PROVE FALSE
    <3>1. PICK q, s : IsEdge(e, q, s)
      BY <1>2, EdgesAre
    <3>2. q \in 1 .. n /\ s \in DOMAIN dfa[q] /\ states_[q] = I /\ s = x
      BY <3>1, <2>2, <1>2 DEF IsEdge
    <3>3. q = t
      BY <3>2, <1>2, <1>3
    <3>4. QED
      BY <3>2, <3>3, <1>3
  <2>3. QED
    BY <1>1, <1>3, <2>1, <2>2 DEF A!Left
<1>11. QED
  <2> DEFINE e == <<I, x>>
  <2>1. /\ Found' = Found \cup {Goto(e[1], e[2])}
        /\ Edges' = Edges \cup {<<e[1], e[2], Goto(e[1], e[2])>>}
    BY <1>4, <1>8, <1>9
  <2> HIDE DEF e
  <2>2. e \in A!Left
    BY <1>10 DEF e
  <2>3. QED
    BY <2>1, <2>2 DEF A!Draw

LEMMA StepAutomaton ==
  Inv /\ KernelInv /\ [Next]_vars => [A!Draw]_A!vars
<1> SUFFICES ASSUME Inv, KernelInv, [Next]_vars PROVE [A!Draw]_A!vars
  OBVIOUS
<1>1. Inv'
  BY StepInv
<1>2. ASSUME UNCHANGED <<states_, dfa>> PROVE UNCHANGED A!vars
  BY <1>2 DEF A!vars, Found, Edges
<1>3. CASE AddHead
  <2>1. /\ states_ = <<>> /\ phase = "closed" /\ ShapeInv
    BY <1>3 DEF AddHead, Inv
  <2>2. lr1_items = First
    BY <2>1, ClosedIsLeast DEF KernelInv, First
  <2>3. /\ states_' \in Seq(ItemSets) /\ Len(states_') = 1
        /\ states_'[1] = lr1_items
        /\ dfa' \in Seq(EdgeMaps) /\ Len(dfa') = 1 /\ dfa'[1] = NoEdges
    BY <1>3, AddHeadFacts
  <2>4. DOMAIN states_' = {1} /\ DOMAIN dfa' = {1}
    BY <2>3, LenProperties
  <2>5. Found' = {First} /\ Edges' = {}
    BY <2>2, <2>3, <2>4, NoEdgesTyped DEF Found, Edges
  <2>6. DOMAIN states_ = {} /\ DOMAIN dfa = {}
    <3>1. Len(states_) = 0 /\ Len(dfa) = 0
      BY <2>1 DEF ShapeInv, TypeInv
    <3>2. states_ \in Seq(ItemSets) /\ dfa \in Seq(EdgeMaps)
      BY <2>1 DEF ShapeInv, TypeInv
    <3>3. QED
      BY <3>1, <3>2, LenProperties
  <2>7. Found = {First} /\ Edges = {}
    BY <2>6 DEF Found, Edges
  <2>8. QED
    BY <2>5, <2>7 DEF A!vars
<1>4. CASE AddState
  BY <1>1, <1>4, AddDraws, SMTT(30)
<1>5. CASE ApplyClosure \/ MakeState \/ Visit \/ Return \/ UNCHANGED vars
  BY <1>2, <1>5 DEF ApplyClosure, MakeState, Visit, Return, vars, stateVars
<1>6. QED
  BY <1>3, <1>4, <1>5 DEF Next

LEMMA InitAutomaton == Init => A!Init
<1> SUFFICES ASSUME Init PROVE A!Init
  OBVIOUS
<1>1. DOMAIN states_ = {} /\ DOMAIN dfa = {}
  BY DEF Init
<1>2. QED
  BY <1>1 DEF A!Init, Found, Edges

(***************************************************************************)
(* For every grammar and every order of the hash tables, what add_state    *)
(* finds is a state of the canonical LR(1) automaton and what it draws a   *)
(* transition of it, each once: First is the least closed set over the     *)
(* augment item, Goto the least one over the items that have moved.        *)
(***************************************************************************)
THEOREM CollectionImplementsAutomaton == Spec => A!Init /\ [][A!Draw]_A!vars
<1>1. Init => Inv /\ KernelInv /\ A!Init
  BY InitInv, InitKernel, InitAutomaton
<1>2. Inv /\ KernelInv /\ [Next]_vars => (Inv /\ KernelInv)'
  BY StepInv, StepKernel
<1>3. QED
  BY <1>1, <1>2, StepAutomaton, PTL DEF Spec

\* When the recursion has come back, no transition is left to draw.
CompleteWhenDone == states_ # <<>> /\ stack = <<>> => A!Left = {}

(***************************************************************************)
(* And none is missing when resolve has returned, although it does not go  *)
(* into a state a second time and begins no round of its own.              *)
(***************************************************************************)
THEOREM CollectionIsComplete == Spec => []CompleteWhenDone
<1>1. Inv /\ ResolveInv /\ KernelInv => CompleteWhenDone
  <2> SUFFICES ASSUME Inv, ResolveInv, KernelInv, states_ # <<>>, stack = <<>>,
                      NEW e \in A!Left
               PROVE  FALSE
    BY DEF CompleteWhenDone
  <2>1. /\ states_ \in Seq(ItemSets) /\ dfa \in Seq(EdgeMaps)
        /\ Len(dfa) = Len(states_)
    BY DEF Inv, ShapeInv, TypeInv
  <2>2. 1 \in 1 .. Len(states_)
    BY <2>1, EmptySeq
  <2>3. PICK p \in 1 .. Len(states_) : states_[p] = e[1]
    <3>1. e[1] \in Found
      BY DEF A!Left
    <3>2. QED
      BY <3>1, <2>1, <2>2, FoundAre DEF KernelInv
  <2>4. DOMAIN dfa[p] = Moves(states_[p])
    <3>1. ~ OnStack(p) /\ ~ Promised(p)
      <4>1. \A k : k \notin 1 .. Len(stack)
        <5>1. Len(stack) = 0
          OBVIOUS
        <5>2. QED
          BY <5>1
      <4>2. QED
        BY <4>1 DEF OnStack, Promised
    <3>2. QED
      BY <3>1 DEF ResolveInv
  <2>5. e[2] \in DOMAIN dfa[p]
    BY <2>3, <2>4 DEF A!Left
  <2> DEFINE d == <<states_[p], e[2], states_[dfa[p][e[2]]]>>
  <2>6. IsEdge(d, p, e[2])
    BY <2>1, <2>5 DEF IsEdge
  <2>7. d \in Edges
    <3> HIDE DEF d
    <3>1. QED
      BY <2>1, <2>6, EdgesAre
  <2>8. <<d[1], d[2]>> = e
    <3>1. e = <<e[1], e[2]>>
      BY DEF A!Left
    <3>2. QED
      BY <3>1, <2>3
  <2> HIDE DEF d
  <2>9. QED
    BY <2>7, <2>8 DEF A!Left
<1>2. Init => Inv /\ ResolveInv /\ KernelInv
  BY InitInv, InitResolve, InitKernel
<1>3. Inv /\ ResolveInv /\ KernelInv /\ [Next]_vars => (Inv /\ ResolveInv /\ KernelInv)'
  BY StepInv, StepResolve, StepKernel
<1>4. QED
  BY <1>1, <1>2, <1>3, PTL DEF Spec

-----------------------------------------------------------------------------
(* The rows: conflicts are reported, and rows without one do not depend on  *)
(* the order, for any number of tokens and rules.                           *)

\* The final items that have written, or passed by, column i.
Done(i) == Contributors(i) \ left

Unwritten(i) == IF i \in shifts THEN <<Shift, 0>> ELSE <<SyntaxError, 0>>

Written ==
  \A i \in Columns :
    IF Done(i) = {} \/ ShiftKept(i) THEN row[i] = Unwritten(i)
    ELSE \E f \in Done(i) : row[i] = Entry(f)

Silent ==
  ~ Reported =>
    \A i \in Columns : ~ ShiftKept(i) /\ Augment \notin Contributors(i) =>
      /\ \A f, g \in Done(i) : f = g
      /\ i \in shifts /\ precedence_table[i] # "left" => Done(i) = {}

Justified == Reported => \E i \in Columns : Conflict(i)

RowInv == TypeOK /\ Written /\ Silent /\ Justified

LEMMA EntryType ==
  ASSUME NEW f \in Finals
  PROVE  /\ Entry(f) \in Entries
         /\ Entry(f)[1] = IF f = Augment THEN Accept ELSE Reduce
         /\ Entry(f)[1] # Shift
  BY FillAssumption DEF Entry, Entries, Finals, Augment

LEMMA RowInitInv == RowInit => RowInv
<1> SUFFICES ASSUME RowInit PROVE RowInv
  OBVIOUS
<1>1. PICK F \in SUBSET Finals : look_ahead \in [F -> SUBSET Columns \ {{}}]
  BY DEF RowInit
<1>2. \A f \in DOMAIN look_ahead : look_ahead[f] \subseteq Columns
  BY <1>1
<1>3. PICK D \in SUBSET Columns : declared \in [D -> {"left", "right"}]
  BY DEF RowInit
<1>4. row \in [Columns -> Entries]
  BY DEF RowInit, Entries
<1>5. TypeOK
  BY <1>1, <1>2, <1>3, <1>4 DEF RowInit, TypeOK, Precedence
<1>6. \A i \in Columns : Done(i) = {}
  BY DEF Done, Contributors, RowInit
<1>7. Written
  BY <1>6 DEF Written, Unwritten, RowInit
<1>8. ~ Reported
  BY DEF Reported, RowInit
<1>9. QED
  BY <1>5, <1>6, <1>7, <1>8 DEF RowInv, Silent, Justified

-----------------------------------------------------------------------------
\* What an entry says of the items that have come by.
LEMMA EntryMeans ==
  ASSUME RowInv, NEW i \in Columns
  PROVE  /\ Is(i, Shift) => i \in shifts /\ (Done(i) = {} \/ ShiftKept(i))
         /\ Is(i, Reduce) => Done(i) # {} /\ ~ ShiftKept(i)
         /\ Done(i) # {} /\ ~ ShiftKept(i) /\ Augment \notin Contributors(i) =>
              Is(i, Reduce)
         /\ Done(i) = {} /\ i \in shifts => Is(i, Shift)
         /\ ShiftKept(i) => Is(i, Shift)
<1>1. Written /\ TypeOK
  BY DEF RowInv
<1>2. \A f \in Done(i) : f \in Finals /\ f \in Contributors(i)
  BY <1>1 DEF Done, Contributors, TypeOK
<1>3. CASE Done(i) = {} \/ ShiftKept(i)
  <2>1. row[i] = Unwritten(i)
    BY <1>1, <1>3 DEF Written
  <2>2. Is(i, Shift) <=> i \in shifts
    BY <2>1, FillAssumption DEF Is, Unwritten
  <2>3. ~ Is(i, Reduce)
    BY <2>1, FillAssumption DEF Is, Unwritten
  <2>4. QED
    BY <1>3, <2>2, <2>3 DEF ShiftKept
<1>4. CASE ~ (Done(i) = {} \/ ShiftKept(i))
  <2>1. PICK f \in Done(i) : row[i] = Entry(f)
    BY <1>1, <1>4 DEF Written
  <2>2. ~ Is(i, Shift) /\ (f # Augment => Is(i, Reduce))
    BY <1>2, <2>1, EntryType DEF Is
  <2>3. QED
    BY <1>2, <1>4, <2>2
<1>5. QED
  BY <1>3, <1>4

\* Nothing is counted only if nothing was met.
LEMMA Counted ==
  ASSUME TypeOK, NEW f \in left, Final(f)
  PROVE  /\ rr_conflicts' \in Nat /\ sr_conflicts' \in Nat
         /\ Reported' <=> Reported \/ RRConflicts(f) # {} \/ SRConflicts(f) # {}
<1>1. look_ahead[f] \subseteq Columns
  BY DEF TypeOK
<1>2. IsFiniteSet(RRConflicts(f)) /\ IsFiniteSet(SRConflicts(f))
  <2>1. RRConflicts(f) \subseteq Columns /\ SRConflicts(f) \subseteq Columns
    BY <1>1 DEF RRConflicts, SRConflicts
  <2>2. QED
    BY <2>1, FillAssumption, FS_Subset
<1>3. /\ Cardinality(RRConflicts(f)) \in Nat /\ Cardinality(SRConflicts(f)) \in Nat
      /\ Cardinality(RRConflicts(f)) = 0 <=> RRConflicts(f) = {}
      /\ Cardinality(SRConflicts(f)) = 0 <=> SRConflicts(f) = {}
  BY <1>2, FS_CardinalityType, FS_EmptySet
<1>4. /\ rr_conflicts' = rr_conflicts + Cardinality(RRConflicts(f))
      /\ sr_conflicts' = sr_conflicts + Cardinality(SRConflicts(f))
  BY DEF Final
<1>5. rr_conflicts \in Nat /\ sr_conflicts \in Nat
  BY DEF TypeOK
<1>6. PICK m \in Nat, n \in Nat :
        /\ m = Cardinality(RRConflicts(f)) /\ n = Cardinality(SRConflicts(f))
  BY <1>3
<1>7. /\ m = 0 <=> RRConflicts(f) = {}
      /\ n = 0 <=> SRConflicts(f) = {}
      /\ rr_conflicts' = rr_conflicts + m /\ sr_conflicts' = sr_conflicts + n
  BY <1>3, <1>4, <1>6
<1>8. rr_conflicts' \in Nat /\ sr_conflicts' \in Nat
  BY <1>5, <1>7
<1>9. Reported' <=> Reported \/ m > 0 \/ n > 0
  BY <1>5, <1>7 DEF Reported
<1>10. QED
  BY <1>7, <1>8, <1>9

LEMMA FinalInv ==
  ASSUME RowInv, NEW f \in left, Final(f)
  PROVE  RowInv'
<1>1. /\ TypeOK /\ left' = left \ {f} /\ f \in DOMAIN look_ahead /\ f \in Finals
      /\ look_ahead[f] \subseteq Columns
      /\ UNCHANGED <<shifts, look_ahead, declared, precedence_table>>
      /\ row' = [i \in Columns |-> IF i \in look_ahead[f] \ Kept(f) THEN Entry(f)
                                   ELSE row[i]]
  BY DEF RowInv, TypeOK, Final, input
<1>2. /\ \A i : Contributors(i)' = Contributors(i)
      /\ \A i : ShiftKept(i)' <=> ShiftKept(i)
      /\ \A i : Conflict(i)' <=> Conflict(i)
      /\ \A i : Unwritten(i)' = Unwritten(i)
  BY <1>1 DEF Contributors, ShiftKept, Conflict, Unwritten
<1>3. \A i : Done(i)' = Done(i) \cup (IF i \in look_ahead[f] THEN {f} ELSE {})
  BY <1>1, <1>2 DEF Done, Contributors
<1>4. /\ rr_conflicts' \in Nat /\ sr_conflicts' \in Nat
      /\ Reported' <=> Reported \/ RRConflicts(f) # {} \/ SRConflicts(f) # {}
  BY <1>1, Counted
<1>5. TypeOK'
  <2>1. row' \in [Columns -> Entries]
    BY <1>1, EntryType DEF TypeOK
  <2>2. QED
    BY <1>1, <1>4, <2>1 DEF TypeOK
<1>6. Written'
  <2> SUFFICES ASSUME NEW i \in Columns
               PROVE  IF Done(i)' = {} \/ ShiftKept(i) THEN row'[i] = Unwritten(i)
                      ELSE \E g \in Done(i)' : row'[i] = Entry(g)
    BY <1>2 DEF Written
  <2>1. IF Done(i) = {} \/ ShiftKept(i) THEN row[i] = Unwritten(i)
        ELSE \E g \in Done(i) : row[i] = Entry(g)
    BY DEF RowInv, Written
  <2>2. CASE i \notin look_ahead[f]
    BY <1>1, <1>3, <2>1, <2>2
  <2>3. CASE i \in look_ahead[f] /\ ShiftKept(i)
    <3>1. i \in Kept(f)
      BY <2>3, EntryMeans DEF Kept, ShiftKept
    <3>2. QED
      BY <1>1, <2>1, <2>3, <3>1
  <2>4. CASE i \in look_ahead[f] /\ ~ ShiftKept(i)
    <3>1. i \notin Kept(f)
      BY <2>4, EntryMeans DEF Kept, ShiftKept
    <3>2. row'[i] = Entry(f) /\ f \in Done(i)'
      BY <1>1, <1>3, <2>4, <3>1
    <3>3. QED
      BY <2>4, <3>2
  <2>5. QED
    BY <2>2, <2>3, <2>4
<1>7. Silent'
  <2> SUFFICES ASSUME ~ Reported', NEW i \in Columns, ~ ShiftKept(i),
                      Augment \notin Contributors(i)
               PROVE  /\ \A g, h \in Done(i)' : g = h
                      /\ i \in shifts /\ precedence_table[i] # "left" =>
                           Done(i)' = {}
    BY <1>1, <1>2 DEF Silent
  <2>1. ~ Reported /\ RRConflicts(f) = {} /\ SRConflicts(f) = {}
    BY <1>4
  <2>2. /\ \A g, h \in Done(i) : g = h
        /\ i \in shifts /\ precedence_table[i] # "left" => Done(i) = {}
    BY <2>1 DEF RowInv, Silent
  <2>3. CASE i \notin look_ahead[f]
    BY <1>3, <2>2, <2>3
  <2>4. CASE i \in look_ahead[f]
    <3>1. ~ Is(i, Reduce)
      BY <2>1, <2>4 DEF RRConflicts
    <3>2. Done(i) = {}
      BY <3>1, EntryMeans
    <3>3. ~ (i \in shifts /\ precedence_table[i] # "left")
      <4> SUFFICES ASSUME i \in shifts, precedence_table[i] # "left" PROVE FALSE
        OBVIOUS
      <4>1. precedence_table[i] = "none"
        BY <1>1 DEF ShiftKept, TypeOK, Precedences
      <4>2. Is(i, Shift)
        BY <3>2, EntryMeans
      <4>3. QED
        BY <2>1, <2>4, <4>1, <4>2 DEF SRConflicts
    <3>4. QED
      BY <1>3, <2>4, <3>2, <3>3
  <2>5. QED
    BY <2>3, <2>4
<1>8. Justified'
  <2> SUFFICES ASSUME Reported' PROVE \E i \in Columns : Conflict(i)
    BY <1>2 DEF Justified
  <2>1. CASE Reported
    BY <2>1 DEF RowInv, Justified
  <2>2. CASE RRConflicts(f) # {}
    <3>1. PICK i \in look_ahead[f] : Is(i, Reduce)
      BY <2>2 DEF RRConflicts
    <3>2. i \in Columns /\ Done(i) # {} /\ ~ ShiftKept(i)
      BY <1>1, <3>1, EntryMeans
    <3>3. PICK g \in Done(i) : TRUE
      BY <3>2
    <3>4. f \in Contributors(i) /\ g \in Contributors(i) /\ f # g
      BY <1>1, <3>1 DEF Done, Contributors
    <3>5. QED
      BY <3>2, <3>4 DEF Conflict
  <2>3. CASE SRConflicts(f) # {}
    <3>1. PICK i \in look_ahead[f] : Is(i, Shift) /\ precedence_table[i] = "none"
      BY <2>3 DEF SRConflicts
    <3>2. i \in Columns /\ i \in shifts /\ ~ ShiftKept(i)
      BY <1>1, <3>1, EntryMeans DEF ShiftKept
    <3>3. f \in Contributors(i)
      BY <1>1, <3>1 DEF Contributors
    <3>4. QED
      BY <3>1, <3>2, <3>3 DEF Conflict
  <2>4. QED
    BY <1>4, <2>1, <2>2, <2>3
<1>9. QED
  BY <1>5, <1>6, <1>7, <1>8 DEF RowInv

LEMMA RowStepInv == RowInv /\ [RowNext]_rowVars => RowInv'
<1> SUFFICES ASSUME RowInv, [RowNext]_rowVars PROVE RowInv'
  OBVIOUS
<1>1. CASE RowNext
  BY <1>1, FinalInv DEF RowNext
<1>2. CASE UNCHANGED rowVars
  BY <1>2 DEF rowVars, input, RowInv, TypeOK, Written, Silent, Justified, Done,
     Contributors, ShiftKept, Unwritten, Conflict, Reported
<1>3. QED
  BY <1>1, <1>2

-----------------------------------------------------------------------------
LEMMA InvReports == RowInv => ConflictsReported
<1> SUFFICES ASSUME RowInv PROVE ConflictsReported
  OBVIOUS
<1>1. ASSUME Filled, NEW i \in Columns, Conflict(i),
             Augment \notin Contributors(i), ~ Reported
      PROVE  FALSE
  <2>1. Done(i) = Contributors(i)
    BY <1>1 DEF Done, Filled
  <2>2. /\ ~ ShiftKept(i)
        /\ \A f, g \in Done(i) : f = g
        /\ i \in shifts /\ precedence_table[i] # "left" => Done(i) = {}
    BY <1>1 DEF RowInv, Silent, Conflict
  <2>3. QED
    BY <1>1, <2>1, <2>2 DEF Conflict
<1>2. QED
  BY <1>1 DEF RowInv, Justified, ConflictsReported

LEMMA InvDetermines == RowInv => RowDetermined
<1> SUFFICES ASSUME RowInv, Filled, NEW i \in Columns, ~ Conflict(i)
             PROVE  OnlyMove(i) = {row[i]}
  BY DEF RowDetermined
<1>1. Done(i) = Contributors(i)
  BY DEF Done, Filled
<1>2. IF Contributors(i) = {} \/ ShiftKept(i) THEN row[i] = Unwritten(i)
      ELSE \E f \in Contributors(i) : row[i] = Entry(f)
  BY <1>1 DEF RowInv, Written
<1>3. CASE Contributors(i) = {} \/ ShiftKept(i)
  BY <1>2, <1>3 DEF OnlyMove, Unwritten, ShiftKept
<1>4. CASE Contributors(i) # {} /\ ~ ShiftKept(i)
  <2>1. PICK f \in Contributors(i) : row[i] = Entry(f)
    BY <1>2, <1>4
  <2>2. \A g \in Contributors(i) : g = f
    BY <1>4 DEF Conflict
  <2>3. OnlyMove(i) = {Entry(g) : g \in Contributors(i)}
    BY <1>4 DEF OnlyMove
  <2>4. QED
    BY <2>1, <2>2, <2>3
<1>5. QED
  BY <1>3, <1>4

(***************************************************************************)
(* fill_table reports the conflicts of a row, and only those; ACCEPT aside.*)
(***************************************************************************)
THEOREM RowReports == RowSpec => []ConflictsReported
  BY RowInitInv, RowStepInv, InvReports, PTL DEF RowSpec

(***************************************************************************)
(* A column without a conflict holds the only move, in whatever order.     *)
(***************************************************************************)
THEOREM RowIsDetermined == RowSpec => [](TypeOK /\ RowDetermined)
<1>1. RowInv => TypeOK /\ RowDetermined
  BY InvDetermines DEF RowInv
<1>2. QED
  BY RowInitInv, RowStepInv, <1>1, PTL DEF RowSpec
=============================================================================
