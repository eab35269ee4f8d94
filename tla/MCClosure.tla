----------------------------- MODULE MCClosure -----------------------------
(***************************************************************************)
(* Instances of Closure: every kernel that the states of a grammar have.   *)
(***************************************************************************)
EXTENDS Closure

Rule(token, grammar) == [token |-> token, grammar |-> grammar]

(***************************************************************************)
(* P -> D E    D -> D d | (nothing)    E -> T | E + T    T -> F | T * F    *)
(* F -> n | ( E ): the lookaheads E and T get from their own left          *)
(* recursion have to travel down to T and F.                               *)
(***************************************************************************)
ExprRules == <<Rule("AUGMENT", <<"P">>), Rule("P", <<"D", "E">>),
               Rule("D", <<"D", "d">>), Rule("D", <<>>),
               Rule("E", <<"T">>), Rule("E", <<"E", "+", "T">>),
               Rule("T", <<"F">>), Rule("T", <<"T", "*", "F">>),
               Rule("F", <<"n">>), Rule("F", <<"(", "E", ")">>)>>
ExprFirstOfs == [AUGMENT |-> {"d"}, P |-> {"d"}, D |-> {"d"},
                 E |-> {"n", "("}, T |-> {"n", "("}, F |-> {"n", "("}]

(***************************************************************************)
(* S -> A p | B y    A -> x A y | z    B -> x A y                          *)
(***************************************************************************)
NestRules == <<Rule("AUGMENT", <<"S">>), Rule("S", <<"A", "p">>),
               Rule("S", <<"B", "y">>), Rule("A", <<"x", "A", "y">>),
               Rule("A", <<"z">>), Rule("B", <<"x", "A", "y">>)>>
NestFirstOfs == [AUGMENT |-> {"x", "z"}, S |-> {"x", "z"},
                 A |-> {"x", "z"}, B |-> {"x"}]

-----------------------------------------------------------------------------
\* GrammarState::resolve: the kernels of the states an item set leads to.
Moved(I, s) ==
  LET over == {it \in DOMAIN I : ~ IsFinal(it) /\ Curr(it) = s}
  IN [jt \in {<<it[1], it[2] + 1>> : it \in over} |-> I[<<jt[1], jt[2] - 1>>]]
Successors(I) == {Moved(I, s) : s \in {Curr(it) : it \in
                                         {jt \in DOMAIN I : ~ IsFinal(jt)}}}

RECURSIVE Reachable(_)
Reachable(K) ==
  LET more == K \cup (UNION {Successors(LeastClosed(I)) : I \in K})
  IN IF more = K THEN K ELSE Reachable(more)

AugmentKernel == [it \in {<<1, 0>>} |-> {"$"}]
MCKernels == Reachable({AugmentKernel})

-----------------------------------------------------------------------------
(***************************************************************************)
(* "CLR(1) tables need a canonical collection of LR(1) items. This is what *)
(* the DFA is currently" (canonical_collection.cc:171): in LR(1) closing a *)
(* state adds items and leaves the lookaheads of the kernel as they were.  *)
(***************************************************************************)
KernelKept == \A it \in DOMAIN kernel : lr1_items[it] = kernel[it]

(***************************************************************************)
(* Both phases end: lookaheads only grow, and each pass but the last adds. *)
(***************************************************************************)
ClosureEnds == <>(phase = "closed")
=============================================================================
