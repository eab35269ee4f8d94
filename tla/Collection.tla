----------------------------- MODULE Collection -----------------------------
(***************************************************************************)
(* The canonical collection of LR(1) states: CanonicalCollection::add_state *)
(* and resolve (src/src/parsergen/canonical_collection.cc) with the         *)
(* recursion of GrammarState::resolve (derivation.cc).  A state is closed   *)
(* by its constructor, which is the module Closure, before it is looked up; *)
(* it is then known by its items.  The maps are hash tables: their order is *)
(* left open.                                                               *)
(***************************************************************************)
EXTENDS Naturals, Sequences, SequencesExt

CONSTANTS Actions, Rules, FirstOfs, HasEmpty

VARIABLES
    kernel, lr1_items, expanded, dirty, next_dirty, phase,  \* of Closure
    states_,           \* the items of each state; its place is its address
    state_n_, state_id_to_ptr_,
    dfa,               \* the transitions of each state, by symbol
    stack              \* calls of resolve: [state, build, visit, symbol]

closureVars == <<kernel, lr1_items, expanded, dirty, next_dirty, phase>>
stateVars == <<states_, state_n_, state_id_to_ptr_>>
vars == <<closureVars, stateVars, dfa, stack>>

C == INSTANCE Closure WITH Kernels <- {}

\* What parser generators ask of a grammar: the rule in front is that of
\* AUGMENT, which stands in no rule.
ASSUME CollectionAssumption ==
  /\ C!ClosureAssumption
  /\ "$" \in Actions
  /\ Rules # <<>>
  /\ \A r \in DOMAIN Rules : \A j \in DOMAIN Rules[r].grammar :
       Rules[r].grammar[j] # Rules[1].token

-----------------------------------------------------------------------------
NoEdges == [s \in {} |-> 0]

AugmentVector == [it \in {<<1, 0>>} |-> {"$"}]

\* The symbols in front of which an item stands, and the items behind one.
Moves(I) == {C!Curr(it) : it \in {jt \in DOMAIN I : ~C!IsFinal(jt)}}

InitialItems(I, s) ==
    [jt \in {<<it[1], it[2] + 1>> :
               it \in {kt \in DOMAIN I : ~C!IsFinal(kt) /\ C!Curr(kt) = s}} |->
       I[<<jt[1], jt[2] - 1>>]]

\* make_shared<GrammarState>: the constructor up to apply_closure.
Construct(items) ==
    /\ kernel' = items /\ lr1_items' = items
    /\ expanded' = {}
    /\ dirty' = DOMAIN items /\ next_dirty' = {}
    /\ phase' = "expand"

Init ==
    /\ kernel = AugmentVector /\ lr1_items = AugmentVector
    /\ expanded = {}
    /\ dirty = DOMAIN AugmentVector /\ next_dirty = {}
    /\ phase = "expand"
    /\ states_ = <<>> /\ state_n_ = 0 /\ state_id_to_ptr_ = <<>>
    /\ dfa = <<>> /\ stack = <<>>

ApplyClosure == C!Next /\ UNCHANGED <<stateVars, dfa, stack>>

-----------------------------------------------------------------------------
\* Mutant: states are compared like LALR(1) states.
SameCore(I, J) == DOMAIN I = DOMAIN J

\* GrammarState::operator==
SameState(I, J) == I = J

Extend(f, x, y) == [z \in DOMAIN f \cup {x} |-> IF z = x THEN y ELSE f[z]]

\* Where emplace finds the state, or behind the last if it is new.
Emplaced ==
    LET same == {p \in DOMAIN states_ : SameState(states_[p], lr1_items)}
    IN  IF same = {} THEN Len(states_) + 1 ELSE CHOOSE p \in same : TRUE

\* Mutant: the result of emplace is not asked.
RegisterAlways(p) ==
    /\ states_' = IF p \in DOMAIN states_ THEN states_ ELSE Append(states_, lr1_items)
    /\ state_id_to_ptr_' = Append(state_id_to_ptr_, p)
    /\ state_n_' = state_n_ + 1

Register(p) ==
    IF p \in DOMAIN states_ THEN UNCHANGED stateVars
    ELSE /\ states_' = Append(states_, lr1_items)
         /\ state_id_to_ptr_' = Append(state_id_to_ptr_, p)
         /\ state_n_' = state_n_ + 1

\* GrammarState::resolve as it is called: a frame with the symbols of
\* initial_items, none of which has its edge yet.
Frame(p, I) == [state |-> p, build |-> Moves(I), visit |-> Moves(I), symbol |-> ""]

Top == stack[Len(stack)]
SetTop(frame) == stack' = Append(Front(stack), frame)

\* CanonicalCollection::resolve: the head is added and resolved.
AddHead ==
    /\ phase = "closed" /\ states_ = <<>>
    /\ Register(1)
    /\ dfa' = <<NoEdges>>
    /\ stack' = <<Frame(1, lr1_items)>>
    /\ phase' = "idle"
    /\ UNCHANGED <<kernel, lr1_items, expanded, dirty, next_dirty>>

\* The loop over initial_items: the vector is made a state ...
MakeState ==
    /\ phase = "idle" /\ stack # <<>>
    /\ \E s \in Top.build :
         /\ Construct(InitialItems(states_[Top.state], s))
         /\ SetTop([Top EXCEPT !.build = @ \ {s}, !.symbol = s])
    /\ UNCHANGED <<stateVars, dfa>>

\* ... and when it is closed add_state looks it up.
AddState ==
    /\ phase = "closed" /\ states_ # <<>>
    /\ Register(Emplaced)
    /\ LET known == IF Emplaced \in DOMAIN dfa THEN dfa ELSE Append(dfa, NoEdges)
       IN  dfa' = [known EXCEPT ![Top.state] = Extend(@, Top.symbol, Emplaced)]
    /\ phase' = "idle"
    /\ UNCHANGED <<kernel, lr1_items, expanded, dirty, next_dirty, stack>>

\* Mutant: the loop over dfa ends with its first edge.
VisitOne ==
    /\ phase = "idle" /\ stack # <<>> /\ Top.build = {}
    /\ \E s \in Top.visit :
         LET to   == dfa[Top.state][s]
             rest == Append(Front(stack), [Top EXCEPT !.visit = {}])
         IN  stack' = IF dfa[to] = NoEdges THEN Append(rest, Frame(to, states_[to]))
                      ELSE rest
    /\ UNCHANGED <<closureVars, stateVars, dfa>>

\* The loop over dfa: a state with edges is being resolved or has been.
Visit ==
    /\ phase = "idle" /\ stack # <<>> /\ Top.build = {}
    /\ \E s \in Top.visit :
         LET to   == dfa[Top.state][s]
             rest == Append(Front(stack), [Top EXCEPT !.visit = @ \ {s}])
         IN  stack' = IF dfa[to] = NoEdges THEN Append(rest, Frame(to, states_[to])) ELSE rest
    /\ UNCHANGED <<closureVars, stateVars, dfa>>

Return ==
    /\ phase = "idle" /\ stack # <<>> /\ Top.build = {} /\ Top.visit = {}
    /\ stack' = Front(stack)
    /\ UNCHANGED <<closureVars, stateVars, dfa>>

Next == ApplyClosure \/ AddHead \/ MakeState \/ AddState \/ Visit \/ Return

Spec == Init /\ [][Next]_vars /\ WF_vars(Next)

-----------------------------------------------------------------------------
\* Nobody is forgotten: a state that moves and has no edges yet is still to be
\* visited by a call that is going on, although each call passes over states
\* that another one seems to have done.
UnresolvedAreAwaited ==
    \A p \in DOMAIN states_ :
       (Moves(states_[p]) # {} /\ dfa[p] = NoEdges) =>
          \E k \in DOMAIN stack :
             \/ stack[k].state = p
             \/ \E s \in stack[k].visit \cap DOMAIN dfa[stack[k].state] :
                   dfa[stack[k].state][s] = p

\* The ids are what LalrMerge and the rows of the table count on: the places of
\* n different states in the order they were made, the head's the first.
IdsAreDense ==
    /\ state_n_ = Len(state_id_to_ptr_)
    /\ \A i \in DOMAIN state_id_to_ptr_ : state_id_to_ptr_[i] = i
    /\ IsInjective(states_)
=============================================================================
