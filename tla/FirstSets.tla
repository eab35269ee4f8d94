----------------------------- MODULE FirstSets -----------------------------
(***************************************************************************)
(* The constructor of CanonicalCollection (src/src/parsergen/              *)
(* canonical_collection.cc): the first_of vector of every nonterminal, and *)
(* whether it may be empty, computed by a recursive descent that reads the *)
(* first symbol of each production.  `frames' is the recursion of          *)
(* lr_1_firstof_impl; the outer loop runs over a hash table, in any order. *)
(***************************************************************************)
EXTENDS Integers, Sequences

CONSTANTS
  Actions,          \* the action tokens (terminals)
  GrammarTokens,    \* the %type tokens (nonterminals)
  ProductionMaps    \* the grammars considered: productions of each token

Symbols == Actions \cup GrammarTokens

\* productions_ has a key for each token that stands left of a rule.
IsProductionMap(p) ==
  /\ DOMAIN p \subseteq GrammarTokens
  /\ \A A \in DOMAIN p : p[A] \in Seq(Seq(Symbols))

ASSUME GrammarAssumption ==
  /\ Actions \cap GrammarTokens = {}
  /\ \A p \in ProductionMaps : IsProductionMap(p)

VARIABLES
  productions,   \* productions_
  first_ofs,     \* first_ofs_, a set of action tokens for each key
  has_empty,     \* the keys whose option HAS_EMPTY is set
  initialized,   \* the keys whose option INITIALIZED is set
  frames,        \* calls of lr_1_firstof_impl, the innermost last
  errors         \* tokens reported to have no productions

vars == <<productions, first_ofs, has_empty, initialized, frames, errors>>

Keys == DOMAIN productions

Frames == [token : Keys, todo : Seq(Seq(Symbols))]

TypeOK ==
  /\ IsProductionMap(productions)
  /\ first_ofs \in [Keys -> SUBSET Actions]
  /\ has_empty \subseteq Keys
  /\ initialized \subseteq Keys
  /\ frames \in Seq(Frames)
  /\ errors \subseteq GrammarTokens

Init ==
  /\ productions \in ProductionMaps
  /\ first_ofs = [A \in Keys |-> {}]
  /\ has_empty = {} /\ initialized = {}
  /\ frames = <<>>
  /\ errors = {}

Call(A)  == [token |-> A, todo |-> productions[A]]
Top      == frames[Len(frames)]
Callers  == SubSeq(frames, 1, Len(frames) - 1)
Visiting == {frames[k].token : k \in DOMAIN frames}

\* The production the innermost call is looking at.
Production == Head(Top.todo)
Reading    == frames # <<>> /\ Top.todo # <<>>
NextProduction ==
  frames' = Append(Callers, [token |-> Top.token, todo |-> Tail(Top.todo)])

\* lr_1_firstof_init: the loop stops at the first call that reported an error.
FirstOf(A) ==
  /\ frames = <<>> /\ errors = {}
  /\ A \in Keys \ initialized
  /\ frames' = <<Call(A)>>
  /\ UNCHANGED <<productions, first_ofs, has_empty, initialized, errors>>

EmptyProduction ==
  /\ Reading /\ Production = <<>>
  /\ has_empty' = has_empty \cup {Top.token}
  /\ NextProduction
  /\ UNCHANGED <<productions, first_ofs, initialized, errors>>

\* Mutant: the last symbol of the production is read.
EndsWith(t) ==
  Reading /\ Production # <<>> /\ Production[Len(Production)] = t
StartsWith(t) == Reading /\ Production # <<>> /\ Production[1] = t

Select(t) ==
  /\ StartsWith(t) /\ t \in Actions
  /\ first_ofs' = [first_ofs EXCEPT ![Top.token] = @ \cup {t}]
  /\ NextProduction
  /\ UNCHANGED <<productions, has_empty, initialized, errors>>

NoProductions(B) ==
  /\ StartsWith(B) /\ B \in GrammarTokens \ Keys
  /\ errors' = errors \cup {B}
  /\ NextProduction
  /\ UNCHANGED <<productions, first_ofs, has_empty, initialized>>

\* The recursive call, for a token that is neither being visited nor done.
Recurse(B) ==
  /\ StartsWith(B) /\ B \in Keys \ (Visiting \cup initialized)
  /\ frames' = Append(frames, Call(B))
  /\ UNCHANGED <<productions, first_ofs, has_empty, initialized, errors>>

\* Mutant: a token that is already initialized is not merged.
MergeVisiting(B) ==
  /\ StartsWith(B) /\ B \in Keys \cap (Visiting \cup initialized)
  /\ has_empty' = IF B \in has_empty /\ Len(Production) = 1
                  THEN has_empty \cup {Top.token} ELSE has_empty
  /\ first_ofs' = IF B \in initialized THEN first_ofs
                  ELSE [first_ofs EXCEPT ![Top.token] = @ \cup first_ofs[B]]
  /\ NextProduction
  /\ UNCHANGED <<productions, initialized, errors>>

\* What follows the call, which a visited token returns from at once.
Merge(B) ==
  /\ StartsWith(B) /\ B \in Keys \cap (Visiting \cup initialized)
  /\ has_empty' = IF B \in has_empty /\ Len(Production) = 1
                  THEN has_empty \cup {Top.token} ELSE has_empty
  /\ first_ofs' = [first_ofs EXCEPT ![Top.token] = @ \cup first_ofs[B]]
  /\ NextProduction
  /\ UNCHANGED <<productions, initialized, errors>>

\* Mutant: the option INITIALIZED is never set.
ReturnUnmarked ==
  /\ frames # <<>> /\ Top.todo = <<>>
  /\ frames' = Callers
  /\ UNCHANGED <<productions, first_ofs, has_empty, initialized, errors>>

Return ==
  /\ frames # <<>> /\ Top.todo = <<>>
  /\ initialized' = initialized \cup {Top.token}
  /\ frames' = Callers
  /\ UNCHANGED <<productions, first_ofs, has_empty, errors>>

Next == \/ EmptyProduction \/ Return
        \/ \E A \in GrammarTokens : FirstOf(A)
        \/ \E t \in Symbols : \/ Select(t) \/ NoProductions(t)
                              \/ Recurse(t) \/ Merge(t)

Spec == Init /\ [][Next]_vars
FairSpec == Spec /\ WF_vars(Next)

Done == frames = <<>> /\ (errors # {} \/ initialized = Keys)

-----------------------------------------------------------------------------
(***************************************************************************)
(* FIRST and "may be empty" by their equations: N is closed when it has    *)
(* every token one of whose productions consists of members of N, and F is *)
(* closed over N when it lets through what each production can begin with. *)
(***************************************************************************)
EmptyClosed(N) ==
  \A A \in Keys : \A r \in DOMAIN productions[A] :
    (\A j \in DOMAIN productions[A][r] : productions[A][r][j] \in N) => A \in N

Begins(F, s) == IF s \in Actions THEN {s} ELSE IF s \in Keys THEN F[s] ELSE {}

FirstClosed(F, N) ==
  \A A \in Keys : \A r \in DOMAIN productions[A] :
    \A j \in DOMAIN productions[A][r] :
      (\A k \in 1 .. j - 1 : productions[A][r][k] \in N)
        => Begins(F, productions[A][r][j]) \subseteq F[A]

(***************************************************************************)
(* Nothing is put into a vector that the token cannot begin with, and no   *)
(* token is taken for empty that is not: at every step, in every order,    *)
(* the vectors are below every solution of the equations.                  *)
(***************************************************************************)
FirstSound ==
  /\ \A N \in SUBSET Keys : EmptyClosed(N) => has_empty \subseteq N
  /\ \A N \in SUBSET Keys : EmptyClosed(N) =>
       \A F \in [Keys -> SUBSET Actions] :
         FirstClosed(F, N) => \A A \in Keys : first_ofs[A] \subseteq F[A]

\* The least solutions.
TrueEmpty == {A \in Keys : \A N \in SUBSET Keys : EmptyClosed(N) => A \in N}
TrueFirst ==
  [A \in Keys |-> {t \in Actions : \A F \in [Keys -> SUBSET Actions] :
                     FirstClosed(F, TrueEmpty) => t \in F[A]}]

\* A begins a production of B ... : the calls lr_1_firstof_impl makes, and the
\* tokens they get to.
Leads(A, B) == \E r \in DOMAIN productions[A] :
                 productions[A][r] # <<>> /\ productions[A][r][1] = B
LeadsTo(A, B) ==
  \A S \in SUBSET Keys :
    (\A C, D \in Keys : Leads(C, D) /\ C \in S \cup {A} => D \in S) => B \in S

\* No token leads back to itself through another one, and a production that
\* goes on after its first symbol begins with one that is never empty.
WithinReach ==
  /\ \A A, B \in Keys : A # B => ~ (LeadsTo(A, B) /\ LeadsTo(B, A))
  /\ \A A \in Keys : \A r \in DOMAIN productions[A] :
       Len(productions[A][r]) > 1 => productions[A][r][1] \notin TrueEmpty

(***************************************************************************)
(* For grammars the descent can see through, what it computes is FIRST, in *)
(* whatever order the hash table hands out the tokens: a vector that is    *)
(* merged half built would be caught here.                                 *)
(***************************************************************************)
FirstComplete ==
  Done /\ errors = {} /\ WithinReach =>
    first_ofs = TrueFirst /\ has_empty = TrueEmpty
=============================================================================
