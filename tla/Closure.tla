------------------------------ MODULE Closure ------------------------------
(***************************************************************************)
(* GrammarState::apply_closure (src/src/parsergen/derivation.cc): the      *)
(* items a state is closed to and their lookaheads.  A first phase takes   *)
(* "dirty" items and expands the tokens they expect; a second one merges   *)
(* lookaheads until a pass changes nothing.  The items are kept in a hash  *)
(* table, so the order in which either phase meets them is left open.      *)
(***************************************************************************)
EXTENDS Integers, Sequences, FiniteSets

CONSTANTS
  Actions,       \* the action tokens
  Rules,         \* the grammar, a sequence of [token, grammar]
  FirstOfs,      \* first_ofs_ of each token that has rules
  HasEmpty,      \* the tokens whose option HAS_EMPTY is set
  Kernels        \* the initial items considered: LR(0) items to lookaheads

Keys    == {Rules[r].token : r \in DOMAIN Rules}
Symbols == Actions \cup Keys
Items   == UNION {{r} \X (0 .. Len(Rules[r].grammar)) : r \in DOMAIN Rules}

ASSUME ClosureAssumption ==
  /\ Rules \in Seq([token : Keys, grammar : Seq(Symbols)])
  /\ Actions \cap Keys = {}
  /\ FirstOfs \in [Keys -> SUBSET Actions]
  /\ HasEmpty \subseteq Keys
  /\ IsFiniteSet(Actions)

\* An item set: its LR(0) items, each with its look_ahead.
IsItemSet(I) == DOMAIN I \subseteq Items /\ I \in [DOMAIN I -> SUBSET Actions]

Token(it)   == Rules[it[1]].token
Body(it)    == Rules[it[1]].grammar
IsFinal(it) == it[2] = Len(Body(it))
Curr(it)    == Body(it)[it[2] + 1]

\* The items apply_closure works on: the others are final or expect an action.
Expands(it) == ~ IsFinal(it) /\ Curr(it) \in Keys

\* A state is built from items that have moved over a symbol, or from the
\* augment item, whose token stands in no rule.
ASSUME KernelAssumption ==
  \A I \in Kernels :
    /\ IsItemSet(I)
    /\ \A it \in DOMAIN I : it[2] = 0 =>
         \A r \in DOMAIN Rules : \A j \in DOMAIN Rules[r].grammar :
           Rules[r].grammar[j] # Token(it)

-----------------------------------------------------------------------------
(***************************************************************************)
(* merge_next_lookaheads: FIRST of what follows the expected symbol, up to *)
(* the first symbol that cannot be empty; the look_ahead of the item when  *)
(* there is none.                                                          *)
(***************************************************************************)
FirstOf(s) == IF s \in Actions THEN {s} ELSE FirstOfs[s]

Follows(it, j) ==
  \A k \in it[2] + 2 .. j - 1 : Body(it)[k] \in HasEmpty

NextLookaheads(it, look_ahead) ==
  (UNION {FirstOf(Body(it)[j]) :
            j \in {k \in it[2] + 2 .. Len(Body(it)) : Follows(it, k)}})
  \cup (IF Follows(it, Len(Body(it)) + 1) THEN look_ahead ELSE {})

Initial(B) == {it \in Items : it[2] = 0 /\ Token(it) = B}

-----------------------------------------------------------------------------
VARIABLES
  kernel,      \* the items the state was built from
  lr1_items,   \* the items so far
  expanded,    \* expanded_rules
  dirty,       \* curr_dirty: the items of this round that are left
  next_dirty,
  phase        \* "expand", "merge" or "closed"

vars == <<kernel, lr1_items, expanded, dirty, next_dirty, phase>>

TypeOK ==
  /\ IsItemSet(kernel)
  /\ IsItemSet(lr1_items)
  /\ expanded \subseteq Keys
  /\ dirty \subseteq DOMAIN lr1_items
  /\ next_dirty \subseteq DOMAIN lr1_items
  /\ phase \in {"expand", "merge", "closed"}

Init ==
  /\ kernel \in Kernels
  /\ lr1_items = kernel
  /\ expanded = {}
  /\ dirty = DOMAIN kernel /\ next_dirty = {}
  /\ phase = "expand"

\* Mutant: the merge does not look at the token of the item.
MergedAll(I, B, la) == [it \in DOMAIN I |-> I[it] \cup la]

\* look_ahead.merge on every item whose derivation has token B.
Merged(I, B, la) ==
  [it \in DOMAIN I |-> IF Token(it) = B THEN I[it] \cup la ELSE I[it]]

Take(it) == phase = "expand" /\ it \in dirty /\ dirty' = dirty \ {it}

\* A final item, or one that expects an action.
Pass(it) ==
  /\ Take(it) /\ ~ Expands(it)
  /\ UNCHANGED <<kernel, lr1_items, expanded, next_dirty, phase>>

\* Option 2
MergeLookaheads(it) ==
  /\ Take(it) /\ Expands(it) /\ Curr(it) \in expanded
  /\ lr1_items' = Merged(lr1_items, Curr(it),
                         NextLookaheads(it, lr1_items[it]))
  /\ UNCHANGED <<kernel, expanded, next_dirty, phase>>

\* Mutant: the token is not selected in expanded_rules.
ExpandUnmarked(it) ==
  /\ Take(it) /\ Expands(it) /\ Curr(it) \notin expanded
  /\ lr1_items' = [jt \in DOMAIN lr1_items \cup Initial(Curr(it)) |->
                     IF jt \in Initial(Curr(it))
                     THEN NextLookaheads(it, lr1_items[it])
                     ELSE lr1_items[jt]]
  /\ next_dirty' = next_dirty \cup Initial(Curr(it))
  /\ UNCHANGED <<kernel, expanded, phase>>

\* Option 3
Expand(it) ==
  /\ Take(it) /\ Expands(it) /\ Curr(it) \notin expanded
  /\ lr1_items' = [jt \in DOMAIN lr1_items \cup Initial(Curr(it)) |->
                     IF jt \in Initial(Curr(it))
                     THEN NextLookaheads(it, lr1_items[it])
                     ELSE lr1_items[jt]]
  /\ expanded' = expanded \cup {Curr(it)}
  /\ next_dirty' = next_dirty \cup Initial(Curr(it))
  /\ UNCHANGED <<kernel, phase>>

\* The two lists change places; with nothing dirty the second phase begins.
NextRound ==
  /\ phase = "expand" /\ dirty = {}
  /\ dirty' = next_dirty /\ next_dirty' = {}
  /\ phase' = IF next_dirty = {} THEN "merge" ELSE "expand"
  /\ UNCHANGED <<kernel, lr1_items, expanded>>

(***************************************************************************)
(* The second phase.  `dirty = dirty || merge(..)' does not merge once     *)
(* something has changed, so a pass merges the lookaheads of one item into *)
(* the first item they add to, and goes on to the next pass; a pass that   *)
(* finds nothing to add is the last.                                       *)
(***************************************************************************)
Adds(it, jt) ==
  /\ Expands(it) /\ Token(jt) = Curr(it)
  /\ ~ (NextLookaheads(it, lr1_items[it]) \subseteq lr1_items[jt])

MergePass ==
  /\ phase = "merge"
  /\ \E it, jt \in DOMAIN lr1_items :
       /\ Adds(it, jt)
       /\ lr1_items' = [lr1_items EXCEPT
                          ![jt] = @ \cup NextLookaheads(it, lr1_items[it])]
  /\ UNCHANGED <<kernel, expanded, dirty, next_dirty, phase>>

\* Mutant: one pass is taken to be enough.
OnlyPass ==
  /\ phase = "merge" /\ phase' = "closed"
  /\ UNCHANGED <<kernel, lr1_items, expanded, dirty, next_dirty>>

LastPass ==
  /\ phase = "merge"
  /\ \A it, jt \in DOMAIN lr1_items : ~ Adds(it, jt)
  /\ phase' = "closed"
  /\ UNCHANGED <<kernel, lr1_items, expanded, dirty, next_dirty>>

Next == \/ NextRound \/ MergePass \/ LastPass
        \/ \E it \in dirty : Pass(it) \/ MergeLookaheads(it) \/ Expand(it)

Spec == Init /\ [][Next]_vars
FairSpec == Spec /\ WF_vars(Next)

-----------------------------------------------------------------------------
\* An item set that apply_closure would leave as it is.
Closed(I) ==
  \A it \in DOMAIN I : Expands(it) =>
    /\ Initial(Curr(it)) \subseteq DOMAIN I
    /\ \A jt \in DOMAIN I :
         Token(jt) = Curr(it) => NextLookaheads(it, I[it]) \subseteq I[jt]

Below(I, J) == DOMAIN I \subseteq DOMAIN J /\ \A it \in DOMAIN I : I[it] \subseteq J[it]

(***************************************************************************)
(* When the second phase ends nothing is missing: although a pass stops    *)
(* merging at its first change, every item the state expects is there and  *)
(* every lookahead has reached every item it belongs to.  The assert of    *)
(* line 129 holds on the way.                                              *)
(***************************************************************************)
ClosureComplete ==
  /\ phase = "closed" => Closed(lr1_items) /\ Below(kernel, lr1_items)
  /\ phase = "merge" =>
       \A it \in DOMAIN lr1_items : Expands(it) => Curr(it) \in expanded

(***************************************************************************)
(* And nothing is there that need not be: the items stay below every       *)
(* closed item set J that contains the kernel.                             *)
(***************************************************************************)
ClosureSound(J) ==
  IsItemSet(J) /\ Closed(J) /\ Below(kernel, J) => Below(lr1_items, J)

-----------------------------------------------------------------------------
(***************************************************************************)
(* The closure without an order: rounds over all items at once, until one  *)
(* changes nothing.  Each round before adds an item or a lookahead, so     *)
(* there is one among the first Bound.                                     *)
(***************************************************************************)
Round(I) ==
  LET D == DOMAIN I \cup (UNION {Initial(Curr(it)) :
                                  it \in {jt \in DOMAIN I : Expands(jt)}})
  IN [jt \in D |->
        (IF jt \in DOMAIN I THEN I[jt] ELSE {})
        \cup (UNION {NextLookaheads(it, I[it]) : it \in
               {kt \in DOMAIN I : Expands(kt) /\ Curr(kt) = Token(jt)}})]

Rounds(I) ==
  LET rounds[n \in Nat] == IF n = 0 THEN I ELSE Round(rounds[n - 1])
  IN rounds

Bound == Cardinality(Items) * (Cardinality(Actions) + 1)

LeastClosed(I) ==
  Rounds(I)[CHOOSE n \in 0 .. Bound : Round(Rounds(I)[n]) = Rounds(I)[n]]

(***************************************************************************)
(* Whatever the order of the hash table, the closure is the least closed   *)
(* item set over the kernel, and no step ever exceeds it.                  *)
(***************************************************************************)
ClosureIsLeast ==
  LET least == LeastClosed(kernel)
  IN /\ ClosureSound(least)
     /\ phase = "closed" => lr1_items = least
=============================================================================
