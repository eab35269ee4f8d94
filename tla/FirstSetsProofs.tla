-------------------------- MODULE FirstSetsProofs --------------------------
(***************************************************************************)
(* FirstSets is sound for every grammar: the vectors never hold more than  *)
(* the tokens' FIRST sets.  It is complete as far as FirstComplete asks:   *)
(* where the option bits are right and the descent from a token reaches    *)
(* all the tokens its productions lead to (WithinReach).                   *)
(***************************************************************************)
EXTENDS FirstSets, SequenceTheorems, TLAPS

\* A call looks at productions of its own token only.
OwnProductions ==
  \A k \in DOMAIN frames : \A m \in DOMAIN frames[k].todo :
    \E r \in DOMAIN productions[frames[k].token] :
      frames[k].todo[m] = productions[frames[k].token][r]

EmptySound ==
  \A N \in SUBSET Keys : EmptyClosed(N) => has_empty \subseteq N

VectorSound ==
  \A N \in SUBSET Keys : EmptyClosed(N) =>
    \A F \in [Keys -> SUBSET Actions] :
      FirstClosed(F, N) => \A A \in Keys : first_ofs[A] \subseteq F[A]

Inv == TypeOK /\ OwnProductions /\ EmptySound /\ VectorSound

LEMMA InitInv == Init => Inv
  BY GrammarAssumption
  DEF Init, Inv, TypeOK, OwnProductions, EmptySound, VectorSound, Keys

LEMMA CutSeq ==
  ASSUME NEW S, NEW s \in Seq(S), NEW n \in Nat, n <= Len(s)
  PROVE  /\ SubSeq(s, 1, n) \in Seq(S)
         /\ Len(SubSeq(s, 1, n)) = n
         /\ \A k \in 1 .. n : SubSeq(s, 1, n)[k] = s[k]
<1>1. \A k \in 1 .. n : s[k] \in S
  BY ElementOfSeq, LenProperties
<1>2. /\ SubSeq(s, 1, n) \in Seq(S)
      /\ Len(SubSeq(s, 1, n)) = IF 1 <= n THEN n - 1 + 1 ELSE 0
      /\ \A k \in 1 .. n - 1 + 1 : SubSeq(s, 1, n)[k] = s[1 + k - 1]
  BY <1>1, SubSeqProperties
<1>3. QED
  BY <1>2

(***************************************************************************)
(* What a step that reads a production may use.                            *)
(***************************************************************************)
LEMMA TopTypes ==
  ASSUME TypeOK, frames # <<>>
  PROVE  /\ Len(frames) \in DOMAIN frames
         /\ Top \in Frames
         /\ Callers \in Seq(Frames)
         /\ Len(Callers) = Len(frames) - 1
         /\ \A k \in DOMAIN Callers : k \in DOMAIN frames /\ Callers[k] = frames[k]
<1>1. frames \in Seq(Frames) /\ Len(frames) \in Nat /\ Len(frames) > 0
  BY EmptySeq DEF TypeOK
<1>2. Len(frames) \in DOMAIN frames /\ Top \in Frames
  BY <1>1, ElementOfSeq DEF Top
<1>3. /\ Callers \in Seq(Frames) /\ Len(Callers) = Len(frames) - 1
      /\ \A k \in 1 .. Len(frames) - 1 : Callers[k] = frames[k]
  <2>1. Len(frames) - 1 \in Nat /\ Len(frames) - 1 <= Len(frames)
    BY <1>1
  <2>2. QED
    BY <1>1, <2>1, CutSeq DEF Callers
<1>4. QED
  BY <1>1, <1>2, <1>3, LenProperties

LEMMA ProductionFacts ==
  ASSUME TypeOK, OwnProductions, Reading
  PROVE  /\ Top.token \in Keys
         /\ Top.todo \in Seq(Seq(Symbols)) /\ Top.todo # <<>>
         /\ Production \in Seq(Symbols)
         /\ \E r \in DOMAIN productions[Top.token] :
              Production = productions[Top.token][r]
<1>1. Len(frames) \in DOMAIN frames /\ Top \in Frames
  BY TopTypes DEF Reading
<1>2. Top.token \in Keys /\ Top.todo \in Seq(Seq(Symbols)) /\ Top.todo # <<>>
  BY <1>1 DEF Frames, Reading
<1>3. 1 \in DOMAIN Top.todo /\ Production = Top.todo[1]
  BY <1>2, EmptySeq, LenProperties, HeadTailProperties DEF Production
<1>4. Production \in Seq(Symbols)
  BY <1>2, <1>3, LenProperties, ElementOfSeq
<1>5. \E r \in DOMAIN productions[Top.token] :
        Top.todo[1] = productions[Top.token][r]
  BY <1>1, <1>3 DEF OwnProductions, Top
<1>6. QED
  BY <1>2, <1>3, <1>4, <1>5

LEMMA AppendFrame ==
  ASSUME NEW S, NEW s \in Seq(S), NEW e \in S
  PROVE  /\ Append(s, e) \in Seq(S)
         /\ DOMAIN Append(s, e) = DOMAIN s \cup {Len(s) + 1}
         /\ \A k \in DOMAIN s : Append(s, e)[k] = s[k]
         /\ Append(s, e)[Len(s) + 1] = e
  BY AppendProperties, LenProperties

\* Going on to the next production keeps what is known of the frames.
LEMMA NextProductionFrames ==
  ASSUME TypeOK, OwnProductions, Reading, NextProduction,
         productions' = productions
  PROVE  frames' \in Seq(Frames) /\ OwnProductions'
<1> DEFINE rest == [token |-> Top.token, todo |-> Tail(Top.todo)]
<1>1. /\ Top.token \in Keys
      /\ Top.todo \in Seq(Seq(Symbols)) /\ Top.todo # <<>>
  BY ProductionFacts
<1>2. /\ Len(frames) \in DOMAIN frames /\ Callers \in Seq(Frames)
      /\ \A k \in DOMAIN Callers : k \in DOMAIN frames /\ Callers[k] = frames[k]
  BY TopTypes DEF Reading
<1>3. /\ Tail(Top.todo) \in Seq(Seq(Symbols))
      /\ \A m \in DOMAIN Tail(Top.todo) :
           m + 1 \in DOMAIN Top.todo /\ Tail(Top.todo)[m] = Top.todo[m + 1]
  <2>1. /\ Tail(Top.todo) \in Seq(Seq(Symbols))
        /\ Len(Tail(Top.todo)) = Len(Top.todo) - 1
        /\ \A m \in 1 .. Len(Tail(Top.todo)) : Tail(Top.todo)[m] = Top.todo[m + 1]
    BY <1>1, HeadTailProperties
  <2>2. QED
    BY <2>1, <1>1, LenProperties
<1>4. rest \in Frames
  BY <1>1, <1>3 DEF Frames
<1>5. /\ frames' \in Seq(Frames)
      /\ DOMAIN frames' = DOMAIN Callers \cup {Len(Callers) + 1}
      /\ \A k \in DOMAIN Callers : frames'[k] = Callers[k]
      /\ frames'[Len(Callers) + 1] = rest
  BY <1>2, <1>4, AppendFrame DEF NextProduction
<1>6. ASSUME NEW k \in DOMAIN frames', NEW m \in DOMAIN frames'[k].todo
      PROVE  \E r \in DOMAIN productions[frames'[k].token] :
               frames'[k].todo[m] = productions[frames'[k].token][r]
  <2>1. CASE k \in DOMAIN Callers
    BY <2>1, <1>2, <1>5, <1>6 DEF OwnProductions
  <2>2. CASE k = Len(Callers) + 1
    <3>1. frames'[k].token = Top.token /\ frames'[k].todo = Tail(Top.todo)
      BY <2>2, <1>5
    <3>2. m + 1 \in DOMAIN Top.todo /\ frames'[k].todo[m] = Top.todo[m + 1]
      BY <3>1, <1>3, <1>6
    <3>3. QED
      BY <3>1, <3>2, <1>2 DEF OwnProductions, Top
  <2>3. QED
    BY <2>1, <2>2, <1>5
<1>7. QED
  BY <1>5, <1>6 DEF OwnProductions

(***************************************************************************)
(* The closed solutions of the equations, seen from the production that is *)
(* being read.                                                             *)
(***************************************************************************)
LEMMA ReadClosed ==
  ASSUME TypeOK, OwnProductions, Reading, Production # <<>>,
         NEW N \in SUBSET Keys, NEW F \in [Keys -> SUBSET Actions],
         FirstClosed(F, N)
  PROVE  Begins(F, Production[1]) \subseteq F[Top.token]
<1>1. PICK r \in DOMAIN productions[Top.token] :
        Production = productions[Top.token][r]
  BY ProductionFacts
<1>2. Top.token \in Keys /\ Production \in Seq(Symbols)
  BY ProductionFacts
<1>3. 1 \in DOMAIN Production /\ 1 .. 1 - 1 = {}
  BY <1>2, EmptySeq, LenProperties
<1>4. QED
  BY <1>1, <1>2, <1>3 DEF FirstClosed

LEMMA ReadEmpty ==
  ASSUME TypeOK, OwnProductions, Reading,
         NEW N \in SUBSET Keys, EmptyClosed(N),
         \A j \in DOMAIN Production : Production[j] \in N
  PROVE  Top.token \in N
<1>1. PICK r \in DOMAIN productions[Top.token] :
        Production = productions[Top.token][r]
  BY ProductionFacts
<1>2. Top.token \in Keys
  BY ProductionFacts
<1>3. QED
  BY <1>1, <1>2 DEF EmptyClosed

\* The equations are about the productions only.
LEMMA SameClosed ==
  ASSUME productions' = productions
  PROVE  /\ Keys' = Keys
         /\ \A N \in SUBSET Keys : EmptyClosed(N)' <=> EmptyClosed(N)
         /\ \A N \in SUBSET Keys : \A F \in [Keys -> SUBSET Actions] :
              FirstClosed(F, N)' <=> FirstClosed(F, N)
<1>1. Keys' = Keys
  BY DEF Keys
<1>2. ASSUME NEW N \in SUBSET Keys PROVE EmptyClosed(N)' <=> EmptyClosed(N)
  BY <1>1 DEF EmptyClosed
<1>3. ASSUME NEW N \in SUBSET Keys, NEW F \in [Keys -> SUBSET Actions]
      PROVE  FirstClosed(F, N)' <=> FirstClosed(F, N)
  <2>1. ASSUME NEW s PROVE Begins(F, s)' = Begins(F, s)
    BY <1>1 DEF Begins
  <2>2. QED
    BY <1>1, <2>1 DEF FirstClosed
<1>4. QED
  BY <1>1, <1>2, <1>3

LEMMA SameSound ==
  ASSUME VectorSound, UNCHANGED <<productions, first_ofs>> PROVE VectorSound'
<1> SUFFICES ASSUME NEW N \in SUBSET Keys, EmptyClosed(N)',
                    NEW F \in [Keys -> SUBSET Actions], FirstClosed(F, N)',
                    NEW A \in Keys
             PROVE  first_ofs'[A] \subseteq F[A]
  BY SameClosed DEF VectorSound
<1>1. EmptyClosed(N) /\ FirstClosed(F, N)
  BY SameClosed
<1>2. QED
  BY <1>1 DEF VectorSound

LEMMA EmptyProductionInv == ASSUME Inv, EmptyProduction PROVE Inv'
<1>1. /\ TypeOK /\ OwnProductions /\ Reading /\ NextProduction
      /\ Production = <<>>
      /\ has_empty' = has_empty \cup {Top.token}
      /\ UNCHANGED <<productions, first_ofs, initialized, errors>>
  BY DEF Inv, EmptyProduction
<1>2. Top.token \in Keys
  BY <1>1, ProductionFacts
<1>3. frames' \in Seq(Frames) /\ OwnProductions'
  BY <1>1, NextProductionFrames
<1>4. TypeOK'
  BY <1>1, <1>2, <1>3 DEF TypeOK, IsProductionMap, Frames, Keys
<1>5. EmptySound'
  <2> SUFFICES ASSUME NEW N \in SUBSET Keys, EmptyClosed(N)
               PROVE  has_empty' \subseteq N
    BY <1>1 DEF EmptySound, EmptyClosed, Keys
  <2>1. has_empty \subseteq N
    BY DEF Inv, EmptySound
  <2>2. \A j \in DOMAIN Production : Production[j] \in N
    BY <1>1
  <2>3. Top.token \in N
    BY <1>1, <2>2, ReadEmpty
  <2>4. QED
    BY <1>1, <2>1, <2>3
<1>6. VectorSound'
  BY <1>1, SameSound DEF Inv
<1>7. QED
  BY <1>3, <1>4, <1>5, <1>6 DEF Inv

\* A step that adds to one vector what every solution has there is sound.
LEMMA GrowVector ==
  ASSUME Inv, productions' = productions,
         NEW A \in Keys, NEW T \in SUBSET Actions,
         first_ofs' = [first_ofs EXCEPT ![A] = @ \cup T],
         \A N \in SUBSET Keys : EmptyClosed(N) =>
           \A F \in [Keys -> SUBSET Actions] : FirstClosed(F, N) => T \subseteq F[A]
  PROVE  first_ofs' \in [Keys -> SUBSET Actions] /\ VectorSound'
<1>1. first_ofs \in [Keys -> SUBSET Actions]
  BY DEF Inv, TypeOK
<1>2. first_ofs' \in [Keys -> SUBSET Actions]
  BY <1>1
<1>3. ASSUME NEW N \in SUBSET Keys, EmptyClosed(N),
             NEW F \in [Keys -> SUBSET Actions], FirstClosed(F, N),
             NEW B \in Keys
      PROVE  first_ofs'[B] \subseteq F[B]
  <2>1. first_ofs[B] \subseteq F[B] /\ T \subseteq F[A]
    BY <1>3 DEF Inv, VectorSound
  <2>2. QED
    BY <1>1, <2>1
<1>4. VectorSound'
  <2> SUFFICES ASSUME NEW N \in SUBSET Keys, EmptyClosed(N)',
                      NEW F \in [Keys -> SUBSET Actions], FirstClosed(F, N)',
                      NEW B \in Keys
               PROVE  first_ofs'[B] \subseteq F[B]
    BY SameClosed DEF VectorSound
  <2>1. EmptyClosed(N) /\ FirstClosed(F, N)
    BY SameClosed
  <2>2. QED
    BY <1>3, <2>1
<1>5. QED
  BY <1>2, <1>4

LEMMA SelectInv == ASSUME Inv, NEW t \in Symbols, Select(t) PROVE Inv'
<1>1. /\ TypeOK /\ OwnProductions /\ Reading /\ NextProduction
      /\ Production # <<>> /\ Production[1] = t /\ t \in Actions
      /\ first_ofs' = [first_ofs EXCEPT ![Top.token] = @ \cup {t}]
      /\ UNCHANGED <<productions, has_empty, initialized, errors>>
  BY DEF Inv, Select, StartsWith
<1>2. Top.token \in Keys
  BY <1>1, ProductionFacts
<1>3. frames' \in Seq(Frames) /\ OwnProductions'
  BY <1>1, NextProductionFrames
<1>4. ASSUME NEW N \in SUBSET Keys, EmptyClosed(N),
             NEW F \in [Keys -> SUBSET Actions], FirstClosed(F, N)
      PROVE  {t} \subseteq F[Top.token]
  <2>1. Begins(F, t) \subseteq F[Top.token]
    BY <1>1, <1>4, ReadClosed
  <2>2. QED
    BY <1>1, <2>1 DEF Begins
<1>5. first_ofs' \in [Keys -> SUBSET Actions] /\ VectorSound'
  <2> DEFINE T == {t}
  <2>1. T \in SUBSET Actions
    BY <1>1
  <2>2. first_ofs' = [first_ofs EXCEPT ![Top.token] = @ \cup T]
    BY <1>1
  <2>3. \A N \in SUBSET Keys : EmptyClosed(N) =>
          \A F \in [Keys -> SUBSET Actions] :
            FirstClosed(F, N) => T \subseteq F[Top.token]
    BY <1>4
  <2> HIDE DEF T
  <2>4. QED
    BY <1>1, <1>2, <2>1, <2>2, <2>3, GrowVector
<1>6. TypeOK'
  BY <1>1, <1>3, <1>5 DEF TypeOK, IsProductionMap, Frames, Keys
<1>7. EmptySound'
  BY <1>1 DEF Inv, EmptySound, EmptyClosed, Keys
<1>8. QED
  BY <1>3, <1>5, <1>6, <1>7 DEF Inv

LEMMA MergeInv == ASSUME Inv, NEW B \in Symbols, Merge(B) PROVE Inv'
<1>1. /\ TypeOK /\ OwnProductions /\ Reading /\ NextProduction
      /\ Production # <<>> /\ Production[1] = B /\ B \in Keys
      /\ has_empty' = IF B \in has_empty /\ Len(Production) = 1
                      THEN has_empty \cup {Top.token} ELSE has_empty
      /\ first_ofs' = [first_ofs EXCEPT ![Top.token] = @ \cup first_ofs[B]]
      /\ UNCHANGED <<productions, initialized, errors>>
  BY DEF Inv, Merge, StartsWith
<1>2. Top.token \in Keys /\ Production \in Seq(Symbols)
  BY <1>1, ProductionFacts
<1>3. frames' \in Seq(Frames) /\ OwnProductions'
  BY <1>1, NextProductionFrames
<1>4. first_ofs[B] \in SUBSET Actions /\ B \notin Actions
  BY <1>1, GrammarAssumption DEF TypeOK, IsProductionMap, Keys
<1>5. ASSUME NEW N \in SUBSET Keys, EmptyClosed(N),
             NEW F \in [Keys -> SUBSET Actions], FirstClosed(F, N)
      PROVE  first_ofs[B] \subseteq F[Top.token]
  <2>1. Begins(F, B) \subseteq F[Top.token]
    BY <1>1, <1>5, ReadClosed
  <2>2. Begins(F, B) = F[B]
    BY <1>1, <1>4 DEF Begins
  <2>3. first_ofs[B] \subseteq F[B]
    BY <1>1, <1>5 DEF Inv, VectorSound
  <2>4. QED
    BY <2>1, <2>2, <2>3
<1>6. first_ofs' \in [Keys -> SUBSET Actions] /\ VectorSound'
  BY <1>1, <1>2, <1>4, <1>5, GrowVector
<1>7. has_empty' \subseteq Keys
  BY <1>1, <1>2 DEF TypeOK
<1>8. TypeOK'
  BY <1>1, <1>3, <1>6, <1>7 DEF TypeOK, IsProductionMap, Frames, Keys
<1>9. EmptySound'
  <2> SUFFICES ASSUME NEW N \in SUBSET Keys, EmptyClosed(N)
               PROVE  has_empty' \subseteq N
    BY <1>1 DEF EmptySound, EmptyClosed, Keys
  <2>1. has_empty \subseteq N
    BY DEF Inv, EmptySound
  <2>2. CASE B \in has_empty /\ Len(Production) = 1
    <3>1. \A j \in DOMAIN Production : Production[j] \in N
      BY <1>1, <1>2, <2>1, <2>2, LenProperties
    <3>2. Top.token \in N
      BY <1>1, <3>1, ReadEmpty
    <3>3. QED
      BY <1>1, <2>1, <3>2
  <2>3. CASE ~ (B \in has_empty /\ Len(Production) = 1)
    BY <1>1, <2>1, <2>3
  <2>4. QED
    BY <2>2, <2>3
<1>10. QED
  BY <1>3, <1>6, <1>8, <1>9 DEF Inv

\* The steps that leave every vector alone.
LEMMA FramesOnlyInv ==
  ASSUME Inv, UNCHANGED <<productions, first_ofs, has_empty>>,
         frames' \in Seq(Frames), OwnProductions',
         initialized' \subseteq Keys, errors' \subseteq GrammarTokens
  PROVE  Inv'
<1>1. TypeOK'
  BY DEF Inv, TypeOK, IsProductionMap, Frames, Keys
<1>2. EmptySound' /\ VectorSound'
  BY SameClosed, SameSound DEF Inv, EmptySound
<1>3. QED
  BY <1>1, <1>2 DEF Inv

LEMMA NoProductionsInv ==
  ASSUME Inv, NEW B \in Symbols, NoProductions(B) PROVE Inv'
<1>1. /\ TypeOK /\ OwnProductions /\ Reading /\ NextProduction
      /\ errors' = errors \cup {B} /\ B \in GrammarTokens
      /\ UNCHANGED <<productions, first_ofs, has_empty, initialized>>
  BY DEF Inv, NoProductions, StartsWith
<1>2. frames' \in Seq(Frames) /\ OwnProductions'
  BY <1>1, NextProductionFrames
<1>3. initialized' \subseteq Keys /\ errors' \subseteq GrammarTokens
  BY <1>1 DEF TypeOK
<1>4. QED
  BY <1>1, <1>2, <1>3, FramesOnlyInv

LEMMA CallFrame ==
  ASSUME TypeOK, NEW A \in Keys
  PROVE  /\ Call(A) \in Frames
         /\ Call(A).token = A /\ Call(A).todo = productions[A]
  BY DEF TypeOK, IsProductionMap, Call, Frames, Keys

LEMMA RecurseInv == ASSUME Inv, NEW B \in Symbols, Recurse(B) PROVE Inv'
<1>1. /\ TypeOK /\ OwnProductions /\ B \in Keys
      /\ frames' = Append(frames, Call(B))
      /\ UNCHANGED <<productions, first_ofs, has_empty, initialized, errors>>
  BY DEF Inv, Recurse
<1>2. frames \in Seq(Frames)
  BY <1>1 DEF TypeOK
<1>3. /\ frames' \in Seq(Frames)
      /\ DOMAIN frames' = DOMAIN frames \cup {Len(frames) + 1}
      /\ \A k \in DOMAIN frames : frames'[k] = frames[k]
      /\ frames'[Len(frames) + 1] = Call(B)
  BY <1>1, <1>2, CallFrame, AppendFrame
<1>4. OwnProductions'
  BY <1>1, <1>3, CallFrame DEF OwnProductions
<1>5. initialized' \subseteq Keys /\ errors' \subseteq GrammarTokens
  BY <1>1 DEF TypeOK
<1>6. QED
  BY <1>1, <1>3, <1>4, <1>5, FramesOnlyInv

LEMMA FirstOfInv == ASSUME Inv, NEW A \in GrammarTokens, FirstOf(A) PROVE Inv'
<1>1. /\ TypeOK /\ A \in Keys /\ frames' = <<Call(A)>>
      /\ UNCHANGED <<productions, first_ofs, has_empty, initialized, errors>>
  BY DEF Inv, FirstOf
<1>2. frames' \in Seq(Frames) /\ DOMAIN frames' = {1} /\ frames'[1] = Call(A)
  BY <1>1, CallFrame
<1>3. OwnProductions'
  BY <1>1, <1>2, CallFrame DEF OwnProductions
<1>4. initialized' \subseteq Keys /\ errors' \subseteq GrammarTokens
  BY <1>1 DEF TypeOK
<1>5. QED
  BY <1>1, <1>2, <1>3, <1>4, FramesOnlyInv

LEMMA ReturnInv == ASSUME Inv, Return PROVE Inv'
<1>1. /\ TypeOK /\ OwnProductions /\ frames # <<>> /\ frames' = Callers
      /\ initialized' = initialized \cup {Top.token}
      /\ UNCHANGED <<productions, first_ofs, has_empty, errors>>
  BY DEF Inv, Return
<1>2. /\ Top \in Frames /\ Callers \in Seq(Frames)
      /\ \A k \in DOMAIN Callers : k \in DOMAIN frames /\ Callers[k] = frames[k]
  BY <1>1, TopTypes
<1>3. OwnProductions'
  BY <1>1, <1>2 DEF OwnProductions
<1>4. initialized' \subseteq Keys /\ errors' \subseteq GrammarTokens
  BY <1>1, <1>2 DEF TypeOK, Frames
<1>5. QED
  BY <1>1, <1>2, <1>3, <1>4, FramesOnlyInv

LEMMA StepInv == Inv /\ [Next]_vars => Inv'
<1> SUFFICES ASSUME Inv, [Next]_vars PROVE Inv'
  OBVIOUS
<1>1. CASE EmptyProduction
  BY <1>1, EmptyProductionInv
<1>2. CASE Return
  BY <1>2, ReturnInv
<1>3. CASE \E A \in GrammarTokens : FirstOf(A)
  BY <1>3, FirstOfInv
<1>4. CASE \E t \in Symbols : Select(t)
  BY <1>4, SelectInv
<1>5. CASE \E t \in Symbols : NoProductions(t)
  BY <1>5, NoProductionsInv
<1>6. CASE \E t \in Symbols : Recurse(t)
  BY <1>6, RecurseInv
<1>7. CASE \E t \in Symbols : Merge(t)
  BY <1>7, MergeInv
<1>8. CASE UNCHANGED vars
  <2>1. TypeOK /\ UNCHANGED <<productions, first_ofs, has_empty>>
    BY <1>8 DEF Inv, vars
  <2>2. /\ frames' \in Seq(Frames) /\ OwnProductions'
        /\ initialized' \subseteq Keys /\ errors' \subseteq GrammarTokens
    BY <1>8 DEF Inv, TypeOK, vars, OwnProductions
  <2>3. QED
    BY <2>1, <2>2, FramesOnlyInv
<1>9. QED
  BY <1>1, <1>2, <1>3, <1>4, <1>5, <1>6, <1>7, <1>8 DEF Next

(***************************************************************************)
(* For every grammar and every order of the hash table, every vector holds *)
(* only tokens its nonterminal can begin with, and only nonterminals that  *)
(* can be empty are marked so.                                             *)
(***************************************************************************)
THEOREM FirstSetsSound == Spec => [](TypeOK /\ FirstSound)
<1>1. Init => Inv
  BY InitInv
<1>2. Inv /\ [Next]_vars => Inv'
  BY StepInv
<1>3. Inv => TypeOK /\ FirstSound
  BY DEF Inv, EmptySound, VectorSound, FirstSound
<1>4. QED
  BY <1>1, <1>2, <1>3, PTL DEF Spec
-----------------------------------------------------------------------------
(***************************************************************************)
(* Completeness, for the grammars the descent can see through.  A production *)
(* is handled when what it begins with has been merged and will not grow    *)
(* any more.  Every production of a token that is done has been handled,    *)
(* and so has every one a running call no longer has to read: a token that  *)
(* is being visited is merged only into itself, because the calls lead to   *)
(* one another.                                                            *)
(***************************************************************************)
Acyclic == \A A, B \in Keys : A # B => ~ (LeadsTo(A, B) /\ LeadsTo(B, A))

Handled(A, p) ==
  IF p = <<>> THEN A \in has_empty
  ELSE /\ p[1] \in Actions \cup initialized \cup {A}
       /\ Begins(first_ofs, p[1]) \subseteq first_ofs[A]
       /\ Len(p) = 1 /\ p[1] \in has_empty => A \in has_empty

Calls ==
  /\ \A k \in DOMAIN frames : frames[k].token \notin initialized
  /\ \A j, k \in DOMAIN frames : j < k =>
       /\ frames[j].token # frames[k].token
       /\ LeadsTo(frames[j].token, frames[k].token)

Covered ==
  /\ \A A \in initialized : \A r \in DOMAIN productions[A] :
       Handled(A, productions[A][r])
  /\ \A k \in DOMAIN frames : \A r \in DOMAIN productions[frames[k].token] :
       \/ Handled(frames[k].token, productions[frames[k].token][r])
       \/ \E m \in DOMAIN frames[k].todo :
            frames[k].todo[m] = productions[frames[k].token][r]

Complete == errors = {} /\ Acyclic => Calls /\ Covered

LEMMA LeadsStep ==
  ASSUME NEW A \in Keys, NEW B \in Keys, NEW C \in Keys,
         Leads(A, B)
  PROVE  /\ LeadsTo(A, B)
         /\ LeadsTo(C, A) => LeadsTo(C, B)
<1>1. LeadsTo(A, B)
  BY DEF LeadsTo
<1>2. LeadsTo(C, A) => LeadsTo(C, B)
  BY DEF LeadsTo
<1>3. QED
  BY <1>1, <1>2

LEMMA SameLeads ==
  ASSUME productions' = productions
  PROVE  /\ Acyclic' <=> Acyclic
         /\ \A A, B \in Keys : LeadsTo(A, B)' <=> LeadsTo(A, B)
<1>1. Keys' = Keys
  BY DEF Keys
<1>2. \A A, B : Leads(A, B)' <=> Leads(A, B)
  BY DEF Leads
<1>3. \A A, B : LeadsTo(A, B)' <=> LeadsTo(A, B)
  BY <1>1, <1>2 DEF LeadsTo
<1>4. QED
  BY <1>1, <1>3 DEF Acyclic

\* What is handled stays so when the vector of a token that is not done grows.
LEMMA HandledStays ==
  ASSUME TypeOK, productions' = productions, NEW A \in Keys, NEW p, Handled(A, p),
         NEW T \in Keys, T \notin initialized, initialized \subseteq initialized',
         first_ofs' \in [Keys -> SUBSET Actions],
         \A B \in Keys : first_ofs[B] \subseteq first_ofs'[B],
         \A B \in Keys : B # T => first_ofs'[B] = first_ofs[B],
         has_empty \subseteq has_empty', has_empty' \subseteq has_empty \cup {T}
  PROVE  Handled(A, p)'
<1>1. CASE p = <<>>
  BY <1>1 DEF Handled
<1>2. CASE p # <<>>
  <2>1. /\ p[1] \in Actions \cup initialized \cup {A}
        /\ Begins(first_ofs, p[1]) \subseteq first_ofs[A]
        /\ Len(p) = 1 /\ p[1] \in has_empty => A \in has_empty
    BY <1>2 DEF Handled
  <2>2. Keys' = Keys /\ initialized \subseteq Keys /\ Actions \cap Keys = {}
    BY GrammarAssumption DEF Keys, TypeOK, IsProductionMap
  <2>3. Begins(first_ofs', p[1]) \subseteq first_ofs'[A]
    <3>1. CASE p[1] = A
      BY <3>1, <2>2 DEF Begins
    <3>2. CASE p[1] \in Actions
      BY <3>2, <2>1 DEF Begins
    <3>3. CASE p[1] \in initialized
      BY <3>3, <2>1, <2>2 DEF Begins
    <3>4. QED
      BY <2>1, <3>1, <3>2, <3>3
  <2>4. Begins(first_ofs, p[1])' = Begins(first_ofs', p[1])
    BY <2>2 DEF Begins
  <2>5. p[1] \in has_empty' /\ Len(p) = 1 => A \in has_empty'
    BY <2>1, <2>2
  <2>6. QED
    BY <1>2, <2>1, <2>3, <2>4, <2>5 DEF Handled
<1>3. QED
  BY <1>1, <1>2

\* The frames behind a step that goes on to the next production.
LEMMA NextFrames ==
  ASSUME TypeOK, OwnProductions, Reading, NextProduction
  PROVE  /\ Len(frames) \in DOMAIN frames /\ DOMAIN frames' = DOMAIN frames
         /\ \A k \in DOMAIN frames : frames'[k].token = frames[k].token
         /\ \A k \in DOMAIN frames : k # Len(frames) => frames'[k].todo = frames[k].todo
         /\ \A m \in DOMAIN Top.todo : \/ Top.todo[m] = Production
                                       \/ \E n \in DOMAIN frames'[Len(frames)].todo :
                                            frames'[Len(frames)].todo[n] = Top.todo[m]
<1> DEFINE rest == [token |-> Top.token, todo |-> Tail(Top.todo)]
<1>1. /\ Top.token \in Keys
      /\ Top.todo \in Seq(Seq(Symbols)) /\ Top.todo # <<>>
  BY ProductionFacts
<1>2. /\ frames \in Seq(Frames) /\ Len(frames) \in Nat /\ Len(frames) \in DOMAIN frames
      /\ Callers \in Seq(Frames) /\ Len(Callers) = Len(frames) - 1
      /\ \A k \in DOMAIN Callers : k \in DOMAIN frames /\ Callers[k] = frames[k]
  BY TopTypes DEF Reading, TypeOK
<1>3. /\ Tail(Top.todo) \in Seq(Seq(Symbols))
      /\ Len(Tail(Top.todo)) = Len(Top.todo) - 1 /\ Len(Top.todo) \in Nat
      /\ \A m \in 1 .. Len(Tail(Top.todo)) : Tail(Top.todo)[m] = Top.todo[m + 1]
      /\ Production = Top.todo[1]
  BY <1>1, HeadTailProperties, EmptySeq DEF Production
<1>4. rest \in Frames
  BY <1>1, <1>3 DEF Frames
<1>5. /\ DOMAIN frames' = DOMAIN Callers \cup {Len(Callers) + 1}
      /\ \A k \in DOMAIN Callers : frames'[k] = Callers[k]
      /\ frames'[Len(Callers) + 1] = rest
  BY <1>2, <1>4, AppendFrame DEF NextProduction
<1>6. DOMAIN frames' = DOMAIN frames /\ DOMAIN Callers = 1 .. Len(frames) - 1
  BY <1>2, <1>5, LenProperties
<1>7. frames'[Len(frames)] = rest
  BY <1>2, <1>5
<1>8. ASSUME NEW k \in DOMAIN frames, k # Len(frames) PROVE frames'[k] = frames[k]
  BY <1>2, <1>5, <1>6, <1>8, LenProperties
<1>9. \A k \in DOMAIN frames : frames'[k].token = frames[k].token
  BY <1>7, <1>8 DEF Top
<1>10. ASSUME NEW m \in DOMAIN Top.todo
       PROVE  \/ Top.todo[m] = Production
              \/ \E n \in DOMAIN rest.todo : rest.todo[n] = Top.todo[m]
  <2>1. m \in 1 .. Len(Top.todo)
    BY <1>1, LenProperties
  <2>2. CASE m = 1
    BY <2>2, <1>3
  <2>3. CASE m # 1
    <3>1. m - 1 \in 1 .. Len(Tail(Top.todo))
      BY <2>1, <2>3, <1>3
    <3>2. rest.todo[m - 1] = Top.todo[m]
      BY <3>1, <1>3, <2>1
    <3>3. m - 1 \in DOMAIN rest.todo
      BY <3>1, <1>3, LenProperties
    <3>4. QED
      BY <3>2, <3>3
  <2>4. QED
    BY <2>2, <2>3
<1>11. QED
  BY <1>2, <1>6, <1>7, <1>8, <1>9, <1>10

LEMMA FrameTokens ==
  ASSUME TypeOK PROVE \A k \in DOMAIN frames : frames[k].token \in Keys
<1> SUFFICES ASSUME NEW k \in DOMAIN frames PROVE frames[k].token \in Keys
  OBVIOUS
<1>1. frames \in Seq(Frames)
  BY DEF TypeOK
<1>2. frames[k] \in Frames
  BY <1>1, LenProperties, ElementOfSeq
<1>3. QED
  BY <1>2 DEF Frames

\* A production has been handled.
LEMMA ReadComplete ==
  ASSUME Inv, Inv', Complete, Reading, NextProduction,
         NEW T, T = Top.token, NEW q, q = Production,
         UNCHANGED <<productions, initialized, errors>>,
         \A B \in Keys : first_ofs[B] \subseteq first_ofs'[B],
         \A B \in Keys : B # T => first_ofs'[B] = first_ofs[B],
         has_empty \subseteq has_empty', has_empty' \subseteq has_empty \cup {T},
         errors = {} /\ Acyclic /\ Calls => Handled(T, q)'
  PROVE  Complete'
<1> SUFFICES ASSUME errors' = {}, Acyclic' PROVE Calls' /\ Covered'
  BY DEF Complete
<1>1. Calls /\ Covered /\ Handled(T, q)'
  BY SameLeads DEF Complete
<1>2. /\ Len(frames) \in DOMAIN frames /\ DOMAIN frames' = DOMAIN frames
      /\ \A k \in DOMAIN frames : frames'[k].token = frames[k].token
      /\ \A k \in DOMAIN frames : k # Len(frames) => frames'[k].todo = frames[k].todo
      /\ \A m \in DOMAIN Top.todo : \/ Top.todo[m] = Production
                                    \/ \E n \in DOMAIN frames'[Len(frames)].todo :
                                         frames'[Len(frames)].todo[n] = Top.todo[m]
  BY NextFrames DEF Inv
<1>3. \A k \in DOMAIN frames : frames[k].token \in Keys
  BY FrameTokens DEF Inv
<1>4. Calls'
  BY <1>1, <1>2, <1>3, SameLeads DEF Calls
<1>5. T \in Keys /\ T \notin initialized
  BY <1>1, <1>2, <1>3 DEF Top, Calls
<1>6. ASSUME NEW A \in Keys, NEW p, Handled(A, p) PROVE Handled(A, p)'
  <2>1. TypeOK /\ first_ofs' \in [Keys -> SUBSET Actions]
    BY DEF Inv, TypeOK, Keys
  <2>2. QED
    BY <1>5, <1>6, <2>1, HandledStays
<1>7. ASSUME NEW A \in initialized, NEW r \in DOMAIN productions[A], NEW p,
             p = productions[A][r]
      PROVE  Handled(A, p)'
  <2>1. A \in Keys
    BY DEF Inv, TypeOK
  <2>2. Handled(A, p)
    BY <1>1, <1>7 DEF Covered
  <2>3. QED
    BY <2>1, <2>2, <1>6
<1>8. ASSUME NEW k \in DOMAIN frames, NEW A, A = frames[k].token,
             NEW r \in DOMAIN productions[A], NEW p, p = productions[A][r]
      PROVE  \/ Handled(A, p)'
             \/ \E m \in DOMAIN frames'[k].todo : frames'[k].todo[m] = p
  <2>1. A \in Keys
    BY <1>3, <1>8
  <2>2. Handled(A, p) \/ \E m \in DOMAIN frames[k].todo : frames[k].todo[m] = p
    BY <1>1, <1>8 DEF Covered
  <2>3. Handled(A, p) => Handled(A, p)'
    BY <2>1, <1>6
  <2>4. CASE \E m \in DOMAIN frames[k].todo : frames[k].todo[m] = p
    <3>1. CASE k # Len(frames)
      BY <3>1, <2>4, <1>2
    <3>2. CASE k = Len(frames)
      <4>1. A = Top.token /\ frames[k].todo = Top.todo
        BY <3>2, <1>8 DEF Top
      <4>2. p = Production \/ \E n \in DOMAIN frames'[k].todo : frames'[k].todo[n] = p
        BY <2>4, <4>1, <3>2, <1>2
      <4>3. CASE p = Production
        <5>1. A = T /\ p = q
          BY <4>1, <4>3
        <5>2. QED
          BY <5>1, <1>1
      <4>4. QED
        BY <4>2, <4>3
    <3>3. QED
      BY <3>1, <3>2
  <2>5. QED
    BY <2>2, <2>3, <2>4
<1>9. Covered'
  <2>1. ASSUME NEW A \in initialized', NEW r \in DOMAIN productions'[A]
        PROVE  Handled(A, productions[A][r])'
    BY <1>7 DEF Handled
  <2>2. ASSUME NEW k \in DOMAIN frames', NEW r \in DOMAIN productions'[frames'[k].token]
        PROVE  \/ Handled(frames[k].token, productions[frames[k].token][r])'
               \/ \E m \in DOMAIN frames'[k].todo :
                    frames'[k].todo[m] = productions'[frames'[k].token][r]
    <3>1. k \in DOMAIN frames /\ r \in DOMAIN productions[frames[k].token]
      BY <1>2
    <3>2. PICK A : A = frames[k].token
      OBVIOUS
    <3>3. PICK p : p = productions[A][r]
      OBVIOUS
    <3>4. Handled(A, p)' \/ \E m \in DOMAIN frames'[k].todo : frames'[k].todo[m] = p
      BY <3>1, <3>2, <3>3, <1>8
    <3>5. A = frames'[k].token /\ p = productions'[A][r]
      BY <3>1, <3>2, <3>3, <1>2
    <3>6. QED
      BY <3>4, <3>5 DEF Handled
  <2>3. QED
    BY <2>1, <2>2 DEF Covered
<1>10. QED
  BY <1>4, <1>9

LEMMA EmptyProductionComplete ==
  ASSUME Inv, Inv', Complete, EmptyProduction PROVE Complete'
<1>1. /\ Reading /\ NextProduction /\ Production = <<>>
      /\ has_empty' = has_empty \cup {Top.token}
      /\ UNCHANGED <<productions, first_ofs, initialized, errors>>
  BY DEF EmptyProduction
<1>2. PICK T : T = Top.token
  OBVIOUS
<1>3. PICK q : q = Production
  OBVIOUS
<1>4. Handled(T, q)'
  BY <1>1, <1>2, <1>3 DEF Handled
<1>5. QED
  BY <1>1, <1>2, <1>3, <1>4, ReadComplete

LEMMA SelectComplete ==
  ASSUME Inv, Inv', Complete, NEW t \in Symbols, Select(t) PROVE Complete'
<1>1. /\ Reading /\ NextProduction /\ Production # <<>> /\ Production[1] = t
      /\ t \in Actions
      /\ first_ofs' = [first_ofs EXCEPT ![Top.token] = @ \cup {t}]
      /\ UNCHANGED <<productions, has_empty, initialized, errors>>
  BY DEF Select, StartsWith
<1>2. PICK T : T = Top.token
  OBVIOUS
<1>3. PICK q : q = Production
  OBVIOUS
<1>4. /\ T \in Keys /\ first_ofs \in [Keys -> SUBSET Actions]
      /\ has_empty \subseteq Keys /\ Actions \cap Keys = {} /\ Keys' = Keys
  BY <1>1, <1>2, ProductionFacts, GrammarAssumption
  DEF Inv, TypeOK, Keys, IsProductionMap
<1>5. /\ \A B \in Keys : first_ofs[B] \subseteq first_ofs'[B]
      /\ \A B \in Keys : B # T => first_ofs'[B] = first_ofs[B]
      /\ t \in first_ofs'[T]
  BY <1>1, <1>2, <1>4
<1>6. Handled(T, q)'
  BY <1>1, <1>3, <1>4, <1>5 DEF Handled, Begins
<1>7. QED
  BY <1>1, <1>2, <1>3, <1>5, <1>6, ReadComplete

LEMMA MergeComplete ==
  ASSUME Inv, Inv', Complete, NEW B \in Symbols, Merge(B) PROVE Complete'
<1>1. /\ Reading /\ NextProduction /\ Production # <<>> /\ Production[1] = B
      /\ B \in Keys /\ B \in Visiting \cup initialized
      /\ has_empty' = IF B \in has_empty /\ Len(Production) = 1
                      THEN has_empty \cup {Top.token} ELSE has_empty
      /\ first_ofs' = [first_ofs EXCEPT ![Top.token] = @ \cup first_ofs[B]]
      /\ UNCHANGED <<productions, initialized, errors>>
  BY DEF Merge, StartsWith
<1>2. PICK T : T = Top.token
  OBVIOUS
<1>3. PICK q : q = Production
  OBVIOUS
<1>4. /\ T \in Keys /\ first_ofs \in [Keys -> SUBSET Actions]
      /\ has_empty \subseteq Keys /\ Actions \cap Keys = {} /\ Keys' = Keys
  BY <1>1, <1>2, ProductionFacts, GrammarAssumption
  DEF Inv, TypeOK, Keys, IsProductionMap
<1>5. /\ \A C \in Keys : first_ofs[C] \subseteq first_ofs'[C]
      /\ \A C \in Keys : C # T => first_ofs'[C] = first_ofs[C]
      /\ first_ofs[B] \subseteq first_ofs'[T]
  BY <1>1, <1>2, <1>4
<1>6. has_empty \subseteq has_empty' /\ has_empty' \subseteq has_empty \cup {T}
  BY <1>1, <1>2
<1>7. ASSUME Acyclic, Calls PROVE B \in initialized \cup {T}
  <2> SUFFICES ASSUME B \in Visiting PROVE B = T
    BY <1>1
  <2>1. PICK k \in DOMAIN frames : B = frames[k].token
    BY DEF Visiting
  <2>2. Leads(T, B)
    BY <1>1, <1>2, ProductionFacts DEF Inv, Leads
  <2>3. LeadsTo(T, B)
    BY <1>1, <1>4, <2>2, LeadsStep
  <2>4. CASE k = Len(frames)
    BY <2>1, <2>4, <1>2 DEF Top
  <2>5. CASE k # Len(frames)
    <3>1. Len(frames) \in DOMAIN frames /\ frames \in Seq(Frames)
      BY <1>1, TopTypes DEF Inv, TypeOK, Reading
    <3>2. k < Len(frames)
      BY <3>1, <2>1, <2>5, LenProperties
    <3>3. LeadsTo(B, T)
      BY <3>1, <3>2, <1>2, <1>7, <2>1 DEF Calls, Top
    <3>4. QED
      BY <3>3, <2>3, <1>1, <1>4, <1>7 DEF Acyclic
  <2>6. QED
    BY <2>4, <2>5
<1>8. ASSUME Acyclic, Calls PROVE Handled(T, q)'
  <2>1. B \in initialized' \cup {T}
    BY <1>1, <1>7, <1>8
  <2>2. B # T => first_ofs'[B] = first_ofs[B]
    BY <1>1, <1>5
  <2>3. first_ofs'[B] \subseteq first_ofs'[T]
    BY <1>5, <2>2
  <2>4. Len(q) = 1 /\ B \in has_empty' => T \in has_empty'
    BY <1>1, <1>2, <1>3, <1>6
  <2>5. B \in Keys' /\ B \notin Actions
    BY <1>1, <1>4
  <2>6. QED
    BY <1>1, <1>3, <2>1, <2>3, <2>4, <2>5 DEF Handled, Begins
<1>9. QED
  BY <1>1, <1>2, <1>3, <1>5, <1>6, <1>8, ReadComplete
LEMMA NoProductionsComplete ==
  ASSUME NEW B \in Symbols, NoProductions(B) PROVE Complete'
  BY DEF NoProductions, Complete

\* Calls leave the vectors alone.
LEMMA HandledSame ==
  ASSUME UNCHANGED <<productions, first_ofs, has_empty>>,
         initialized \subseteq initialized', NEW A, NEW p, Handled(A, p)
  PROVE  Handled(A, p)'
<1>1. \A s : Begins(first_ofs, s)' = Begins(first_ofs, s)
  BY DEF Begins, Keys
<1>2. QED
  BY <1>1 DEF Handled

LEMMA CallComplete ==
  ASSUME Inv, Complete, NEW B \in Keys, B \notin initialized,
         UNCHANGED <<productions, first_ofs, has_empty, initialized, errors>>,
         DOMAIN frames' = DOMAIN frames \cup {Len(frames) + 1},
         \A k \in DOMAIN frames : frames'[k] = frames[k],
         frames'[Len(frames) + 1] = Call(B),
         \A k \in DOMAIN frames : frames[k].token # B,
         \A k \in DOMAIN frames : LeadsTo(frames[k].token, B)
  PROVE  Complete'
<1> SUFFICES ASSUME errors' = {}, Acyclic' PROVE Calls' /\ Covered'
  BY DEF Complete
<1>1. Calls /\ Covered
  BY SameLeads DEF Complete
<1>2. frames \in Seq(Frames) /\ DOMAIN frames = 1 .. Len(frames) /\ Len(frames) \in Nat
  BY LenProperties DEF Inv, TypeOK
<1>3. \A k \in DOMAIN frames : frames[k].token \in Keys
  BY FrameTokens DEF Inv
<1>4. Call(B).token = B /\ Call(B).todo = productions[B]
  BY CallFrame DEF Inv
<1>5. Calls'
  <2>1. ASSUME NEW k \in DOMAIN frames' PROVE frames'[k].token \notin initialized'
    BY <1>1, <1>4 DEF Calls
  <2>2. ASSUME NEW j \in DOMAIN frames', NEW k \in DOMAIN frames', j < k
        PROVE  /\ frames'[j].token # frames'[k].token
               /\ LeadsTo(frames[j].token, frames[k].token)'
    <3>1. j \in DOMAIN frames
      BY <1>2, <2>2
    <3>2. PICK a : a = frames[j].token
      OBVIOUS
    <3>3. a = frames'[j].token /\ a \in Keys
      BY <3>1, <3>2, <1>3
    <3>4. PICK b : b = frames'[k].token
      OBVIOUS
    <3>5. a # b /\ LeadsTo(a, b) /\ b \in Keys
      <4>1. CASE k \in DOMAIN frames
        BY <4>1, <3>1, <3>2, <3>4, <1>1, <1>3, <2>2 DEF Calls
      <4>2. CASE k = Len(frames) + 1
        BY <4>2, <3>1, <3>2, <3>4, <1>4
      <4>3. QED
        BY <4>1, <4>2
    <3>6. LeadsTo(a, b)'
      BY <3>3, <3>5, SameLeads
    <3>7. QED
      BY <3>3, <3>4, <3>5, <3>6 DEF LeadsTo
  <2>3. QED
    BY <2>1, <2>2 DEF Calls
<1>6. Covered'
  <2>1. ASSUME NEW A \in initialized', NEW r \in DOMAIN productions'[A]
        PROVE  Handled(A, productions[A][r])'
    BY <1>1 DEF Covered, Handled, Begins, Keys
  <2>2. ASSUME NEW k \in DOMAIN frames', NEW r \in DOMAIN productions'[frames'[k].token]
        PROVE  \/ Handled(frames[k].token, productions[frames[k].token][r])'
               \/ \E m \in DOMAIN frames'[k].todo :
                    frames'[k].todo[m] = productions'[frames'[k].token][r]
    <3>1. CASE k \in DOMAIN frames
      BY <3>1, <1>1 DEF Covered, Handled, Begins, Keys
    <3>2. CASE k = Len(frames) + 1
      BY <3>2, <1>4
    <3>3. QED
      BY <3>1, <3>2
  <2>3. QED
    BY <2>1, <2>2 DEF Covered
<1>7. QED
  BY <1>5, <1>6

LEMMA RecurseComplete ==
  ASSUME Inv, Complete, NEW B \in Symbols, Recurse(B) PROVE Complete'
<1>1. /\ Reading /\ Production # <<>> /\ Production[1] = B
      /\ B \in Keys /\ B \notin Visiting /\ B \notin initialized
      /\ frames' = Append(frames, Call(B))
      /\ UNCHANGED <<productions, first_ofs, has_empty, initialized, errors>>
  BY DEF Recurse, StartsWith
<1>2. CASE errors = {} /\ Acyclic
  <2>1. /\ frames \in Seq(Frames) /\ Len(frames) \in DOMAIN frames
        /\ DOMAIN frames' = DOMAIN frames \cup {Len(frames) + 1}
        /\ \A k \in DOMAIN frames : frames'[k] = frames[k]
        /\ frames'[Len(frames) + 1] = Call(B)
    BY <1>1, CallFrame, AppendFrame, TopTypes DEF Inv, TypeOK, Reading
  <2>2. \A k \in DOMAIN frames : frames[k].token # B /\ frames[k].token \in Keys
    BY <1>1, FrameTokens DEF Visiting, Inv
  <2>3. Leads(Top.token, B)
    BY <1>1, ProductionFacts DEF Inv, Leads
  <2>4. ASSUME NEW k \in DOMAIN frames PROVE LeadsTo(frames[k].token, B)
    <3>1. Top.token \in Keys /\ frames[k].token \in Keys
      BY <2>1, <2>2 DEF Top
    <3>2. k = Len(frames) \/ k < Len(frames)
      BY <2>1, LenProperties
    <3>3. k < Len(frames) => LeadsTo(frames[k].token, Top.token)
      BY <1>2, <2>1 DEF Complete, Calls, Top
    <3>4. QED
      BY <1>1, <2>3, <3>1, <3>2, <3>3, LeadsStep DEF Top
  <2>5. QED
    BY <1>1, <2>1, <2>2, <2>4, CallComplete
<1>3. CASE ~ (errors = {} /\ Acyclic)
  BY <1>1, <1>3, SameLeads DEF Complete
<1>4. QED
  BY <1>2, <1>3

LEMMA FirstOfComplete ==
  ASSUME Inv, Complete, NEW A \in GrammarTokens, FirstOf(A) PROVE Complete'
<1>1. /\ frames = <<>> /\ A \in Keys /\ A \notin initialized /\ frames' = <<Call(A)>>
      /\ UNCHANGED <<productions, first_ofs, has_empty, initialized, errors>>
  BY DEF FirstOf
<1>2. /\ DOMAIN frames = {} /\ Len(frames) = 0
      /\ DOMAIN frames' = {1} /\ frames'[1] = Call(A)
  BY <1>1
<1>3. QED
  BY <1>1, <1>2, CallComplete

LEMMA ReturnComplete == ASSUME Inv, Complete, Return PROVE Complete'
<1> SUFFICES ASSUME errors' = {}, Acyclic' PROVE Calls' /\ Covered'
  BY DEF Complete
<1>1. /\ frames # <<>> /\ Top.todo = <<>> /\ frames' = Callers
      /\ initialized' = initialized \cup {Top.token}
      /\ UNCHANGED <<productions, first_ofs, has_empty, errors>>
  BY DEF Return
<1>2. Calls /\ Covered
  BY <1>1, SameLeads DEF Complete
<1>3. /\ Len(frames) \in DOMAIN frames /\ frames \in Seq(Frames)
      /\ \A k \in DOMAIN Callers : k \in DOMAIN frames /\ Callers[k] = frames[k]
      /\ \A k \in DOMAIN Callers : k < Len(frames)
  BY <1>1, TopTypes, LenProperties DEF Inv, TypeOK
<1>4. \A k \in DOMAIN frames : frames[k].token \in Keys
  BY FrameTokens DEF Inv
<1>5. Calls'
  <2>1. ASSUME NEW k \in DOMAIN frames' PROVE frames'[k].token \notin initialized'
    BY <1>1, <1>2, <1>3 DEF Calls, Top
  <2>2. ASSUME NEW j \in DOMAIN frames', NEW k \in DOMAIN frames', j < k
        PROVE  /\ frames'[j].token # frames'[k].token
               /\ LeadsTo(frames[j].token, frames[k].token)'
    <3>1. PICK a : a = frames[j].token
      OBVIOUS
    <3>2. PICK b : b = frames[k].token
      OBVIOUS
    <3>3. a # b /\ LeadsTo(a, b) /\ a \in Keys /\ b \in Keys
      BY <1>1, <1>2, <1>3, <1>4, <2>2, <3>1, <3>2 DEF Calls
    <3>4. LeadsTo(a, b)' /\ a = frames'[j].token /\ b = frames'[k].token
      BY <1>1, <1>3, <3>1, <3>2, <3>3, SameLeads
    <3>5. QED
      BY <3>3, <3>4 DEF LeadsTo
  <2>3. QED
    BY <2>1, <2>2 DEF Calls
<1>6. ASSUME NEW A \in initialized', NEW r \in DOMAIN productions[A], NEW p,
             p = productions[A][r]
      PROVE  Handled(A, p)'
  <2>1. Handled(A, p)
    <3>1. CASE A \in initialized
      BY <3>1, <1>2, <1>6 DEF Covered
    <3>2. CASE A = Top.token
      <4>1. \A m \in DOMAIN Top.todo : FALSE
        BY <1>1
      <4>2. QED
        BY <3>2, <4>1, <1>2, <1>3, <1>6 DEF Covered, Top
    <3>3. QED
      BY <1>1, <3>1, <3>2
  <2>2. QED
    BY <2>1, <1>1, HandledSame
<1>7. ASSUME NEW k \in DOMAIN frames', NEW A, A = frames'[k].token,
             NEW r \in DOMAIN productions[A], NEW p, p = productions[A][r]
      PROVE  \/ Handled(A, p)'
             \/ \E m \in DOMAIN frames'[k].todo : frames'[k].todo[m] = p
  <2>1. k \in DOMAIN frames /\ frames'[k] = frames[k]
    BY <1>1, <1>3, <1>7
  <2>2. Handled(A, p) \/ \E m \in DOMAIN frames[k].todo : frames[k].todo[m] = p
    BY <1>2, <1>7, <2>1 DEF Covered
  <2>3. Handled(A, p) => Handled(A, p)'
    BY <1>1, HandledSame
  <2>4. QED
    BY <2>1, <2>2, <2>3
<1>8. Covered'
  <2>1. ASSUME NEW A \in initialized', NEW r \in DOMAIN productions'[A]
        PROVE  Handled(A, productions[A][r])'
    BY <1>1, <1>6 DEF Handled
  <2>2. ASSUME NEW k \in DOMAIN frames', NEW r \in DOMAIN productions'[frames'[k].token]
        PROVE  \/ Handled(frames[k].token, productions[frames[k].token][r])'
               \/ \E m \in DOMAIN frames'[k].todo :
                    frames'[k].todo[m] = productions'[frames'[k].token][r]
    <3>1. PICK A : A = frames'[k].token
      OBVIOUS
    <3>2. PICK p : p = productions[A][r]
      OBVIOUS
    <3>3. Handled(A, p)' \/ \E m \in DOMAIN frames'[k].todo : frames'[k].todo[m] = p
      BY <3>1, <3>2, <1>1, <1>7
    <3>4. QED
      BY <3>1, <3>2, <3>3, <1>1 DEF Handled
  <2>3. QED
    BY <2>1, <2>2 DEF Covered
<1>9. QED
  BY <1>5, <1>8

LEMMA StepComplete == ASSUME Inv, Inv', Complete, [Next]_vars PROVE Complete'
<1>1. CASE EmptyProduction
  BY <1>1, EmptyProductionComplete
<1>2. CASE Return
  BY <1>2, ReturnComplete
<1>3. CASE \E A \in GrammarTokens : FirstOf(A)
  BY <1>3, FirstOfComplete
<1>4. CASE \E t \in Symbols : Select(t)
  BY <1>4, SelectComplete
<1>5. CASE \E t \in Symbols : NoProductions(t)
  BY <1>5, NoProductionsComplete
<1>6. CASE \E t \in Symbols : Recurse(t)
  BY <1>6, RecurseComplete
<1>7. CASE \E t \in Symbols : Merge(t)
  BY <1>7, MergeComplete
<1>8. CASE UNCHANGED vars
  <2>1. /\ UNCHANGED <<productions, first_ofs, has_empty, initialized>>
        /\ UNCHANGED <<frames, errors>>
    BY <1>8 DEF vars
  <2>2. Keys' = Keys
    BY <2>1 DEF Keys
  <2>3. \A A, B : LeadsTo(A, B)' <=> LeadsTo(A, B)
    BY <2>1, <2>2 DEF LeadsTo, Leads
  <2>4. Acyclic' <=> Acyclic
    BY <2>2, <2>3 DEF Acyclic
  <2>5. Calls' <=> Calls
    BY <2>1 DEF Calls, LeadsTo, Leads, Keys
  <2>6. Covered' <=> Covered
    BY <2>1 DEF Covered, Handled, Begins, Keys
  <2>7. QED
    BY <2>1, <2>4, <2>5, <2>6 DEF Complete
<1>9. QED
  BY <1>1, <1>2, <1>3, <1>4, <1>5, <1>6, <1>7, <1>8 DEF Next

(***************************************************************************)
(* What is done and covered solves the equations, so that it is FIRST.     *)
(***************************************************************************)
LEMMA CompleteSolves ==
  ASSUME Inv, Complete, Done, errors = {}, WithinReach
  PROVE  first_ofs = TrueFirst /\ has_empty = TrueEmpty
<1>1. /\ initialized = Keys /\ Covered
      /\ first_ofs \in [Keys -> SUBSET Actions] /\ has_empty \in SUBSET Keys
      /\ Actions \cap Keys = {}
  BY GrammarAssumption
  DEF Done, Complete, WithinReach, Acyclic, Inv, TypeOK, Keys, IsProductionMap
<1>2. ASSUME NEW A \in Keys, NEW r \in DOMAIN productions[A]
      PROVE  /\ productions[A][r] \in Seq(Symbols)
             /\ Handled(A, productions[A][r])
             /\ Len(productions[A][r]) > 1 => productions[A][r][1] \notin TrueEmpty
  <2>1. productions[A] \in Seq(Seq(Symbols))
    BY DEF Inv, TypeOK, IsProductionMap, Keys
  <2>2. productions[A][r] \in Seq(Symbols)
    BY <2>1, LenProperties, ElementOfSeq
  <2>3. QED
    BY <1>1, <2>2 DEF Covered, WithinReach
<1>3. has_empty \subseteq TrueEmpty
  BY <1>1 DEF Inv, EmptySound, TrueEmpty
<1>4. EmptyClosed(has_empty)
  <2> SUFFICES ASSUME NEW A \in Keys, NEW r \in DOMAIN productions[A],
                      \A j \in DOMAIN productions[A][r] : productions[A][r][j] \in has_empty
               PROVE  A \in has_empty
    BY DEF EmptyClosed
  <2> DEFINE p == productions[A][r]
  <2>1. p \in Seq(Symbols) /\ Handled(A, p) /\ (Len(p) > 1 => p[1] \notin TrueEmpty)
    BY <1>2
  <2>2. \A j \in DOMAIN p : p[j] \in has_empty
    OBVIOUS
  <2> HIDE DEF p
  <2>3. CASE p = <<>>
    BY <2>1, <2>3 DEF Handled
  <2>4. CASE p # <<>>
    <3>1. 1 \in DOMAIN p /\ Len(p) \in Nat /\ Len(p) > 0
      BY <2>1, <2>4, EmptySeq, LenProperties
    <3>2. p[1] \in has_empty
      BY <2>2, <3>1
    <3>3. ~ (Len(p) > 1)
      BY <2>1, <3>2, <1>3
    <3>4. \A n \in Nat : n > 0 /\ ~ (n > 1) => n = 1
      OBVIOUS
    <3>5. Len(p) = 1
      BY <3>1, <3>3, <3>4
    <3>6. QED
      BY <2>1, <2>4, <3>2, <3>5 DEF Handled
  <2>5. QED
    BY <2>3, <2>4
<1>5. has_empty = TrueEmpty
  BY <1>1, <1>3, <1>4 DEF TrueEmpty
<1>6. FirstClosed(first_ofs, TrueEmpty)
  <2> SUFFICES ASSUME NEW A \in Keys, NEW r \in DOMAIN productions[A],
                      NEW j \in DOMAIN productions[A][r],
                      \A k \in 1 .. j - 1 : productions[A][r][k] \in TrueEmpty
               PROVE  Begins(first_ofs, productions[A][r][j]) \subseteq first_ofs[A]
    BY DEF FirstClosed
  <2> DEFINE p == productions[A][r]
  <2>1. p \in Seq(Symbols) /\ Handled(A, p) /\ (Len(p) > 1 => p[1] \notin TrueEmpty)
    BY <1>2
  <2>2. j \in 1 .. Len(p) /\ Len(p) \in Nat
    BY <2>1, LenProperties
  <2>3. \A k \in 1 .. j - 1 : p[k] \in TrueEmpty
    OBVIOUS
  <2>4. p # <<>>
    OBVIOUS
  <2> HIDE DEF p
  <2>5. j = 1
    <3>1. SUFFICES ASSUME j # 1 PROVE FALSE
      OBVIOUS
    <3>2. 1 \in 1 .. j - 1 /\ Len(p) > 1
      BY <2>2, <3>1
    <3>3. QED
      BY <2>1, <2>3, <3>2
  <2>6. Begins(first_ofs, p[j]) \subseteq first_ofs[A]
    BY <2>1, <2>4, <2>5 DEF Handled
  <2>7. QED
    BY <2>6 DEF p
<1>7. EmptyClosed(TrueEmpty) /\ TrueEmpty \in SUBSET Keys
  BY <1>1, <1>4, <1>5
<1>8. ASSUME NEW A \in Keys PROVE first_ofs[A] = TrueFirst[A]
  <2>1. TrueFirst[A] = {t \in Actions : \A F \in [Keys -> SUBSET Actions] :
                          FirstClosed(F, TrueEmpty) => t \in F[A]}
    BY DEF TrueFirst
  <2>2. ASSUME NEW t \in first_ofs[A] PROVE t \in TrueFirst[A]
    BY <1>1, <1>7, <2>1 DEF Inv, VectorSound
  <2>3. ASSUME NEW t \in TrueFirst[A] PROVE t \in first_ofs[A]
    BY <1>1, <1>6, <2>1
  <2>4. QED
    BY <2>2, <2>3
<1>9. first_ofs = TrueFirst
  BY <1>1, <1>8 DEF TrueFirst
<1>10. QED
  BY <1>5, <1>9

(***************************************************************************)
(* For every grammar whose tokens do not lead back to themselves through   *)
(* others, and whose productions begin with a symbol that is never empty   *)
(* unless they have only that, the vectors are FIRST when the descent      *)
(* returns, in whatever order the hash table hands out the tokens.         *)
(***************************************************************************)
THEOREM FirstSetsComplete == Spec => []FirstComplete
<1>1. Init => Inv
  BY InitInv
<1>2. Inv /\ [Next]_vars => Inv'
  BY StepInv
<1>3. Init => Complete
  BY DEF Init, Complete, Calls, Covered
<1>4. Inv /\ Inv' /\ Complete /\ [Next]_vars => Complete'
  BY StepComplete
<1>5. Inv /\ Complete => FirstComplete
  BY CompleteSolves DEF FirstComplete
<1>6. QED
  BY <1>1, <1>2, <1>3, <1>4, <1>5, PTL DEF Spec
=============================================================================
