--------------------------- MODULE LRParserProofs ---------------------------
(***************************************************************************)
(* Proofs about LRParser, for every grammar, table and bound.              *)
(***************************************************************************)
EXTENDS LRParserProps, SequenceTheorems, FiniteSetTheorems,
        WellFoundedInduction, TLAPS

(***************************************************************************)
(* Pushing a pair and cutting a stack, as facts about its elements.        *)
(***************************************************************************)
LEMMA PushPair ==
  ASSUME NEW s \in Seq(Nat), NEW a \in Nat, NEW b \in Nat
  PROVE  /\ s \o <<a, b>> \in Seq(Nat)
         /\ Len(s \o <<a, b>>) = Len(s) + 2
         /\ \A k \in 1 .. Len(s) : (s \o <<a, b>>)[k] = s[k]
         /\ (s \o <<a, b>>)[Len(s) + 1] = a
         /\ (s \o <<a, b>>)[Len(s) + 2] = b
  OBVIOUS

LEMMA CutStack ==
  ASSUME NEW s \in Seq(Nat), NEW m \in 0 .. Len(s)
  PROVE  /\ SubSeq(s, 1, m) \in Seq(Nat)
         /\ Len(SubSeq(s, 1, m)) = m
         /\ \A k \in 1 .. m : SubSeq(s, 1, m)[k] = s[k]
  OBVIOUS

(***************************************************************************)
(* A slot that may be on the stack: the slot behind it exists, because a   *)
(* later token was lexed, or it is the first slot before the first shift.  *)
(***************************************************************************)
Bounded(s, at, lexed) ==
  s \in Nat /\ (s + 1 < lexed \/ (s = 0 /\ at = 0 /\ lexed = 1))

StackShape ==
  /\ Len(stack) % 2 = 1
  /\ \A k \in 1 .. Len(stack) :
       IF k % 2 = 1 THEN stack[k] \in States ELSE Bounded(stack[k], i, Len(input))

ShapeInv ==
  /\ TypeOK
  /\ status \in {"parsing", "unwinding"} =>
       /\ StackShape
       /\ i < Len(input)
       /\ Bounded(dest_idx, i, Len(input))
  /\ status = "parsing" =>
       /\ stack[Len(stack)] = current_state
       /\ tok \notin {EOF, LexFail} => Len(input) < MaxLexed

(***************************************************************************)
(* The tables keep their domain whatever is written to one of their slots. *)
(***************************************************************************)
Cells(f) == DOMAIN f = Slots /\ \A s \in Slots : IsCell(f[s])

LEMMA WriteCell ==
  ASSUME NEW f, Cells(f), NEW s \in Slots, NEW c, IsCell(c)
  PROVE  Cells([f EXCEPT ![s] = c])
  BY DEF Cells

\* A call of the lexer leaves the tables well formed.
LEMMA CallLexerTypes ==
  ASSUME TypeOK, NEW p \in Nat, NEW n \in 1 .. MaxLexed, NEW slot \in Slots,
         NEW t \in Actions \cup {LexFail}, CallLexer(p, n, slot, t)
  PROVE  /\ token_table' \in [Slots -> Tokens \cup {LexFail}]
         /\ Cells(value_table')
         /\ tok' = t
         /\ t \notin {EOF, LexFail} => n < MaxLexed
<1> USE SizeAssumption
<1>1. n \in Positions /\ Cells(value_table)
  BY DEF TypeOK, Cells, Positions, Unknown
<1>2. token_table' \in [Slots -> Tokens \cup {LexFail}]
  BY DEF TypeOK, CallLexer, Tokens, Actions
<1>3. /\ IsCell([val |-> Leaf(p, n), pos |-> n])
      /\ IsCell([val |-> value_table[slot].val, pos |-> n])
  BY <1>1 DEF IsCell
<1>4. Cells(value_table')
  BY <1>1, <1>3, WriteCell DEF CallLexer
<1>5. QED
  BY <1>2, <1>4 DEF CallLexer

\* So does a destructor.
LEMMA RunDestructorTypes ==
  ASSUME TypeOK, NEW slot \in Slots, RunDestructor(slot)
  PROVE  Cells(value_table')
<1>1. IsCell([val |-> Null, pos |-> 0]) /\ Cells(value_table)
  BY SizeAssumption DEF IsCell, Positions, Unknown, TypeOK, Cells
<1>2. QED
  BY <1>1, WriteCell DEF RunDestructor

LEMMA InitShape == Init => ShapeInv
  BY SizeAssumption, RuleAssumption
  DEF Init, ShapeInv, TypeOK, Slots, Tokens, Actions, States, Positions,
      IsCell, Unknown, EOF, LexFail

LEMMA StartShape == ASSUME ShapeInv, Start PROVE ShapeInv'
<1> USE SizeAssumption
<1>1. PICK t \in Actions \cup {LexFail} :
        CallLexer(parses + 1, 1, 0, t) /\ input' = <<t>>
  BY DEF Start
<1>2. TypeOK /\ parses + 1 \in Nat /\ 0 \in Slots /\ 1 \in 1 .. MaxLexed
  BY DEF ShapeInv, TypeOK, Slots
<1>3. /\ token_table' \in [Slots -> Tokens \cup {LexFail}]
      /\ Cells(value_table')
      /\ tok' = t
      /\ t \notin {EOF, LexFail} => 1 < MaxLexed
  BY <1>1, <1>2, CallLexerTypes
<1>4. TypeOK'
  BY <1>1, <1>2, <1>3 DEF Start, TypeOK, Cells, States, Tokens
<1>5. StackShape' /\ Bounded(dest_idx, i, Len(input))'
  BY <1>1 DEF Start, StackShape, Bounded, States
<1>6. QED
  BY <1>1, <1>3, <1>4, <1>5 DEF Start, ShapeInv

LEMMA ShiftShape == ASSUME ShapeInv, Shift PROVE ShapeInv'
<1> USE SizeAssumption
<1> DEFINE n == Len(input) + 1
<1>1. PICK t \in Actions \cup {LexFail} :
        CallLexer(parses, n, i + 1, t) /\ input' = Append(input, t)
  BY DEF Shift
<1>2. /\ TypeOK /\ status = "parsing" /\ tok \in Actions /\ tok \in Tokens
      /\ current_state \in States
  BY DEF Shift, Parsing, ShapeInv, TypeOK, Actions, Tokens
<1>3. Entry \in Entries /\ Entry.op = "shift" /\ tok # EOF
  BY <1>2, TableAssumption DEF Shift, Parsing, Entry
<1>4. Entry.arg \in States
  BY <1>3 DEF Entries
<1>5. /\ n \in 1 .. MaxLexed /\ parses \in Nat
      /\ i + 1 \in Slots /\ i + 1 < n /\ i \in Nat
  BY <1>2, <1>3 DEF ShapeInv, TypeOK, Slots, Shift, Parsing
<1>6. /\ token_table' \in [Slots -> Tokens \cup {LexFail}]
      /\ Cells(value_table')
      /\ tok' = t
      /\ t \notin {EOF, LexFail} => n < MaxLexed
  BY <1>1, <1>2, <1>5, CallLexerTypes
<1>7. /\ input' \in Seq(Actions \cup {LexFail})
      /\ Len(input') = n
  BY <1>1, <1>2 DEF TypeOK
<1>8. /\ stack' \in Seq(Nat)
      /\ Len(stack') = Len(stack) + 2
      /\ \A k \in 1 .. Len(stack) : stack'[k] = stack[k]
      /\ stack'[Len(stack) + 1] = i
      /\ stack'[Len(stack) + 2] = Entry.arg
  BY <1>2, <1>4, <1>5, PushPair DEF Shift, TypeOK, States
<1>9. TypeOK'
  BY <1>2, <1>4, <1>5, <1>6, <1>7, <1>8 DEF Shift, TypeOK, Cells
<1>10. \A s : Bounded(s, i, Len(input)) => Bounded(s, i', Len(input'))
  BY <1>5, <1>7, <1>2 DEF Bounded, TypeOK
<1>11. Bounded(i, i', Len(input'))
  BY <1>5, <1>7 DEF Bounded
<1>12. StackShape'
  <2>1. Len(stack) \in Nat /\ Len(stack) % 2 = 1
    BY <1>2 DEF ShapeInv, StackShape, TypeOK
  <2>2. Len(stack') % 2 = 1
    BY <2>1, <1>8
  <2>3. ASSUME NEW k \in 1 .. Len(stack')
        PROVE  IF k % 2 = 1 THEN stack'[k] \in States
                            ELSE Bounded(stack'[k], i', Len(input'))
    <3>1. CASE k \in 1 .. Len(stack)
      BY <3>1, <1>2, <1>8, <1>10 DEF ShapeInv, StackShape
    <3>2. CASE k = Len(stack) + 1
      BY <3>2, <2>1, <1>8, <1>11
    <3>3. CASE k = Len(stack) + 2
      BY <3>3, <2>1, <1>8, <1>4
    <3>4. QED
      BY <3>1, <3>2, <3>3, <2>1, <1>8
  <2>4. QED
    BY <2>2, <2>3 DEF StackShape
<1>13. QED
  BY <1>2, <1>5, <1>6, <1>7, <1>8, <1>9, <1>10, <1>12
  DEF Shift, ShapeInv

(***************************************************************************)
(* What a reduction pops and where it puts its result.                     *)
(***************************************************************************)
LEMMA ReduceFacts ==
  ASSUME ShapeInv, Parsing("reduce"), StackHoldsArgs
  PROVE  /\ Entry.arg \in DOMAIN Rules
         /\ ArgCount \in Nat
         /\ Rule.token \in ActionTokenN .. TokenN - 1
         /\ Rule.token \in Tokens
         /\ Len(Remaining) = Len(stack) - 2 * ArgCount
         /\ Len(Remaining) \in 1 .. Len(stack)
         /\ Len(Remaining) % 2 = 1
         /\ Remaining \in Seq(Nat)
         /\ \A k \in 1 .. Len(Remaining) : Remaining[k] = stack[k]
         /\ Goto \in States
         /\ \A k \in 1 .. ArgCount :
              ArgSlot(k) \in Slots /\ Bounded(ArgSlot(k), i, Len(input))
         /\ DestSlot \in Slots
         /\ Bounded(DestSlot, i, Len(input))
<1> USE SizeAssumption
<1>0. /\ status = "parsing" /\ tok # LexFail
      /\ Entry.op = "reduce"
  BY DEF Parsing
<1>1. /\ TypeOK /\ StackShape /\ i < Len(input)
      /\ Bounded(dest_idx, i, Len(input))
  BY <1>0 DEF ShapeInv
<1>2. Entry \in Entries
  <2>1. tok \in Tokens /\ current_state \in States
    BY <1>0, <1>1 DEF TypeOK, Actions, Tokens
  <2>2. QED
    BY <2>1, TableAssumption DEF Entry
<1>3. Entry.arg \in DOMAIN Rules
  BY <1>0, <1>2 DEF Entries
<1>4. Rule \in [token : ActionTokenN .. TokenN - 1, tok_n : Nat]
  <2>1. Entry.arg \in 1 .. Len(Rules)
    BY <1>3, RuleAssumption
  <2>2. QED
    BY <2>1, RuleAssumption, ElementOfSeq DEF Rule
<1>5. /\ ArgCount \in Nat /\ Rule.token \in ActionTokenN .. TokenN - 1
      /\ Rule.token \in Tokens
  BY <1>4 DEF ArgCount, Tokens
<1> DEFINE m == Len(stack) - 2 * ArgCount
<1>6. /\ stack \in Seq(Nat) /\ Len(stack) \in Nat
      /\ Len(stack) % 2 = 1 /\ Len(stack) > 2 * ArgCount
  <2>1. stack \in Seq(Nat)
    BY <1>1 DEF TypeOK
  <2>2. QED
    BY <2>1 DEF StackHoldsArgs
<1>7. m \in 1 .. Len(stack) /\ m \in 0 .. Len(stack) /\ m % 2 = 1
  BY <1>5, <1>6
<1>8. /\ Remaining \in Seq(Nat) /\ Len(Remaining) = m
      /\ \A k \in 1 .. m : Remaining[k] = stack[k]
  BY <1>6, <1>7, CutStack DEF Remaining
<1>9. Goto \in States
  <2>1. Remaining[m] \in States
    BY <1>1, <1>7, <1>8 DEF StackShape
  <2>2. /\ Table[Remaining[m]][Rule.token] \in Entries
        /\ Table[Remaining[m]][Rule.token].op \in {"shift", "error"}
    BY <2>1, <1>5, TableAssumption
  <2>3. QED
    BY <2>2, <1>8 DEF Goto, Entries, States
<1>10. ASSUME NEW k \in 1 .. ArgCount
       PROVE  ArgSlot(k) \in Slots /\ Bounded(ArgSlot(k), i, Len(input))
  <2>1. m + 2 * k - 1 \in 1 .. Len(stack) /\ (m + 2 * k - 1) % 2 = 0
    BY <1>5, <1>6, <1>7
  <2>2. Bounded(ArgSlot(k), i, Len(input))
    BY <2>1, <1>1, <1>8 DEF StackShape, ArgSlot
  <2>3. QED
    BY <2>2, <1>1 DEF Bounded, Slots, TypeOK
<1>11. DestSlot \in Slots /\ Bounded(DestSlot, i, Len(input))
  BY <1>1, <1>5, <1>10 DEF DestSlot, TypeOK
<1>12. QED
  BY <1>3, <1>5, <1>7, <1>8, <1>9, <1>10, <1>11

LEMMA ReduceShape == ASSUME ShapeInv, Reduce PROVE ShapeInv'
<1> USE SizeAssumption
<1>0. Parsing("reduce") /\ StackHoldsArgs
  BY DEF Reduce
<1>1. /\ TypeOK /\ StackShape /\ i < Len(input) /\ Len(input) <= MaxLexed
      /\ status = "parsing" /\ tok \in Actions \cup {LexFail}
      /\ Len(input) \in Nat /\ Len(stack) \in Nat /\ i \in Nat
  BY DEF Reduce, Parsing, ShapeInv, TypeOK, Slots
<1>2. Rule.token \in Tokens /\ Goto \in States
  BY <1>0, ReduceFacts
<1>2a. /\ Len(Remaining) \in Nat /\ Len(Remaining) <= Len(stack)
       /\ Len(Remaining) % 2 = 1
       /\ Remaining \in Seq(Nat)
       /\ \A k \in 1 .. Len(Remaining) : Remaining[k] = stack[k]
  BY <1>0, ReduceFacts
<1>2b. DestSlot \in Slots /\ Bounded(DestSlot, i, Len(input))
  BY <1>0, ReduceFacts
<1>2c. DestSlot \in Nat
  BY <1>2b DEF Slots
<1>3. IsCell(Reduced)
  <2>1. CASE Entry.arg \in ActionRules
    BY <2>1 DEF Reduced, IsCell, Positions, Unknown
  <2>2. CASE Entry.arg \notin ActionRules /\ ArgCount > 0
    <3>1. 1 \in 1 .. ArgCount /\ ArgSlot(1) \in Slots
      BY <2>2, <1>0, ReduceFacts
    <3>2. Args[1] = value_table[ArgSlot(1)]
      BY <3>1 DEF Args
    <3>3. QED
      BY <2>2, <3>1, <3>2, <1>1 DEF Reduced, TypeOK
  <2>3. CASE Entry.arg \notin ActionRules /\ ~ (ArgCount > 0)
    BY <2>3 DEF Reduced, IsCell, Positions, Unknown
  <2>4. QED
    BY <2>1, <2>2, <2>3
<1> DEFINE values == [value_table EXCEPT ![DestSlot] = Reduced]
           tokens == [token_table EXCEPT ![DestSlot] = Rule.token]
<1>4. Cells(value_table) /\ Cells(values)
  BY <1>1, <1>2b, <1>3, WriteCell DEF TypeOK, Cells
<1>5. tokens \in [Slots -> Tokens \cup {LexFail}]
  BY <1>1, <1>2 DEF TypeOK
<1>6. /\ i' \in Slots /\ i' < Len(input)
      /\ Cells(value_table')
      /\ token_table' \in [Slots -> Tokens \cup {LexFail}]
      /\ Len(input) = 1 => i' = i
  <2>1. CASE i = DestSlot
    BY <2>1, <1>1, <1>4, <1>5 DEF Reduce, TypeOK
  <2>2. CASE i # DestSlot
    <3>1. /\ DestSlot + 1 < Len(input) /\ DestSlot + 1 \in Slots
          /\ i \in Slots
      BY <2>2, <1>1, <1>2b DEF Bounded, Slots, TypeOK
    <3>2. IsCell(values[i]) /\ tokens[i] \in Tokens \cup {LexFail}
      BY <3>1, <1>4, <1>5 DEF Cells
    <3>3. /\ value_table' = [values EXCEPT ![DestSlot + 1] = values[i]]
          /\ token_table' = [tokens EXCEPT ![DestSlot + 1] = tokens[i]]
          /\ i' = DestSlot + 1
      BY <2>2 DEF Reduce
    <3>4. Cells(value_table')
      BY <3>1, <3>2, <3>3, <1>4, WriteCell
    <3>5. token_table' \in [Slots -> Tokens \cup {LexFail}]
      BY <3>1, <3>2, <3>3, <1>5
    <3>6. QED
      <4>1. \A d \in Nat, n \in Nat : d + 1 < n => n # 1
        OBVIOUS
      <4>2. Len(input) # 1
        BY <4>1, <3>1, <1>1, <1>2c
      <4>3. QED
        BY <3>1, <3>3, <3>4, <3>5, <4>2
  <2>3. QED
    BY <2>1, <2>2
<1>7. /\ stack' \in Seq(Nat)
      /\ Len(stack') = Len(Remaining) + 2
      /\ \A k \in 1 .. Len(Remaining) : stack'[k] = Remaining[k]
      /\ stack'[Len(Remaining) + 1] = DestSlot
      /\ stack'[Len(Remaining) + 2] = Goto
  BY <1>2, <1>2a, <1>2b, PushPair DEF Reduce, States, Slots
<1>8. TypeOK'
  BY <1>1, <1>2, <1>2b, <1>6, <1>7 DEF Reduce, TypeOK, Cells
<1>9. input' = input
  BY DEF Reduce
<1>10. \A s : Bounded(s, i, Len(input)) => Bounded(s, i', Len(input'))
  BY <1>6, <1>9 DEF Bounded
<1>11. StackShape'
  <2>0. /\ StackShape /\ Len(stack) \in Nat
        /\ Goto \in States
        /\ Bounded(DestSlot, i', Len(input'))
    BY <1>1, <1>2, <1>2b, <1>10
  <2>1. Len(stack') % 2 = 1
    BY <1>2a, <1>7
  <2>2. ASSUME NEW k \in 1 .. Len(stack')
        PROVE  IF k % 2 = 1 THEN stack'[k] \in States
                            ELSE Bounded(stack'[k], i', Len(input'))
    <3>1. CASE k \in 1 .. Len(Remaining)
      <4>1. k \in 1 .. Len(stack) /\ stack'[k] = stack[k]
        BY <3>1, <2>0, <1>2a, <1>7
      <4>2. QED
        BY <4>1, <2>0, <1>10 DEF StackShape
    <3>2. CASE k = Len(Remaining) + 1
      BY <3>2, <2>0, <1>2a, <1>7
    <3>3. CASE k = Len(Remaining) + 2
      BY <3>3, <2>0, <1>2a, <1>7
    <3>4. QED
      BY <3>1, <3>2, <3>3, <1>2a, <1>7
  <2>3. QED
    BY <2>1, <2>2 DEF StackShape
<1>12. /\ status' = "parsing" /\ tok' = tok
       /\ stack'[Len(stack')] = current_state'
       /\ Bounded(dest_idx', i', Len(input'))
  BY <1>1, <1>2a, <1>2b, <1>7, <1>10 DEF Reduce
<1>13. tok \notin {EOF, LexFail} => Len(input) < MaxLexed
  BY <1>1 DEF ShapeInv
<1>14. QED
  BY <1>6, <1>8, <1>9, <1>11, <1>12, <1>13 DEF ShapeInv

(***************************************************************************)
(* The steps that end a parse leave the stack and the slots alone.         *)
(***************************************************************************)
LEMMA AcceptShape == ASSUME ShapeInv, Accept PROVE ShapeInv'
<1>1. TypeOK'
  BY DEF ShapeInv, Accept, Parsing, TypeOK, IsCell
<1>2. status' = "accepted"
  BY DEF Accept
<1>3. QED
  BY <1>1, <1>2 DEF ShapeInv

LEMMA LexErrorShape == ASSUME ShapeInv, LexError PROVE ShapeInv'
<1>1. TypeOK' /\ StackShape' /\ status' = "unwinding"
  BY DEF ShapeInv, LexError, TypeOK, IsCell, StackShape
<1>2. i' < Len(input') /\ Bounded(dest_idx', i', Len(input'))
  BY DEF ShapeInv, LexError
<1>3. QED
  BY <1>1, <1>2 DEF ShapeInv

LEMMA SyntaxErrorShape == ASSUME ShapeInv, SyntaxError PROVE ShapeInv'
<1>1. /\ TypeOK /\ StackShape /\ i \in Slots
      /\ i < Len(input) /\ Bounded(dest_idx, i, Len(input))
  BY DEF ShapeInv, SyntaxError, Parsing, TypeOK
<1>2. Cells(value_table')
  BY <1>1, RunDestructorTypes DEF SyntaxError
<1>3. /\ TypeOK' /\ StackShape' /\ status' = "unwinding"
      /\ i' < Len(input') /\ Bounded(dest_idx', i', Len(input'))
  BY <1>1, <1>2 DEF SyntaxError, TypeOK, StackShape, Cells
<1>4. QED
  BY <1>3 DEF ShapeInv

LEMMA UnwindShape == ASSUME ShapeInv, Unwind PROVE ShapeInv'
<1>1. /\ TypeOK /\ StackShape /\ status = "unwinding"
      /\ i < Len(input) /\ Bounded(dest_idx, i, Len(input))
  BY DEF ShapeInv, Unwind
<1>2. /\ stack \in Seq(Nat) /\ Len(stack) \in Nat
      /\ Len(stack) > 1 /\ Len(stack) % 2 = 1
  BY <1>1 DEF TypeOK, Unwind, StackShape
<1>3. stack[Len(stack) - 1] \in Slots
  <2>1. /\ Len(stack) - 1 \in 1 .. Len(stack)
        /\ (Len(stack) - 1) % 2 = 0
    BY <1>2
  <2>2. Bounded(stack[Len(stack) - 1], i, Len(input))
    BY <2>1, <1>1 DEF StackShape
  <2>3. QED
    BY <2>2, <1>1, SizeAssumption DEF Bounded, Slots, TypeOK
<1>4. Cells(value_table')
  BY <1>1, <1>3, RunDestructorTypes DEF Unwind
<1>5. Len(stack) - 2 \in 0 .. Len(stack)
  BY <1>2
<1>6. /\ stack' \in Seq(Nat) /\ Len(stack') = Len(stack) - 2
      /\ \A k \in 1 .. Len(stack) - 2 : stack'[k] = stack[k]
  BY <1>2, <1>5, CutStack DEF Unwind
<1>7. TypeOK'
  BY <1>1, <1>4, <1>6 DEF Unwind, TypeOK, Cells
<1>8. StackShape'
  <2>1. Len(stack') % 2 = 1
    BY <1>2, <1>6
  <2>2. ASSUME NEW k \in 1 .. Len(stack')
        PROVE  IF k % 2 = 1 THEN stack'[k] \in States
                            ELSE Bounded(stack'[k], i', Len(input'))
    <3>1. k \in 1 .. Len(stack) - 2
      BY <1>6
    <3>1a. k \in 1 .. Len(stack) /\ stack'[k] = stack[k]
      BY <3>1, <1>2, <1>6
    <3>2. i' = i /\ input' = input
      BY DEF Unwind
    <3>3. QED
      BY <3>1a, <3>2, <1>1 DEF StackShape
  <2>3. QED
    BY <2>1, <2>2 DEF StackShape
<1>9. QED
  BY <1>1, <1>7, <1>8 DEF Unwind, ShapeInv

LEMMA RejectShape == ASSUME ShapeInv, Reject PROVE ShapeInv'
<1>1. TypeOK'
  BY DEF ShapeInv, Reject, TypeOK, IsCell
<1>2. status' = "rejected"
  BY DEF Reject
<1>3. QED
  BY <1>1, <1>2 DEF ShapeInv

LEMMA StutterShape == ASSUME ShapeInv, UNCHANGED vars PROVE ShapeInv'
  BY DEF ShapeInv, vars, TypeOK, IsCell, StackShape, Bounded

LEMMA StepShape == ShapeInv /\ [Next]_vars => ShapeInv'
<1> SUFFICES ASSUME ShapeInv, [Next]_vars PROVE ShapeInv'
  OBVIOUS
<1>1. CASE Start
  BY <1>1, StartShape
<1>2. CASE Shift
  BY <1>2, ShiftShape
<1>3. CASE Reduce
  BY <1>3, ReduceShape
<1>4. CASE Accept
  BY <1>4, AcceptShape
<1>5. CASE LexError
  BY <1>5, LexErrorShape
<1>6. CASE SyntaxError
  BY <1>6, SyntaxErrorShape
<1>7. CASE Unwind
  BY <1>7, UnwindShape
<1>8. CASE Reject
  BY <1>8, RejectShape
<1>9. CASE UNCHANGED vars
  BY <1>9, StutterShape
<1>10. QED
  BY <1>1, <1>2, <1>3, <1>4, <1>5, <1>6, <1>7, <1>8, <1>9 DEF Next, Step

THEOREM ShapeCorrect == Spec => []ShapeInv
  BY InitShape, StepShape, PTL DEF Spec

(***************************************************************************)
(* Type correctness, for every grammar, empty rules included: no step of   *)
(* the parser leaves the tables, whose size is the number of tokens lexed. *)
(***************************************************************************)
THEOREM TypeCorrect == Spec => []TypeOK
<1>1. ShapeInv => TypeOK
  BY DEF ShapeInv
<1>2. QED
  BY <1>1, ShapeCorrect, PTL

-----------------------------------------------------------------------------
(***************************************************************************)
(* Grammars without empty rules.  The inductive invariant behind           *)
(* SlotDiscipline counts in stack positions: with the lookahead in slot i  *)
(* the stack holds i symbols, the k-th of them in slot k - 1, and the slot *)
(* of the lookahead holds its token.                                       *)
(***************************************************************************)
SlotInv ==
  status = "parsing" =>
    /\ Len(stack) = 2 * i + 1
    /\ \A k \in 1 .. i : stack[2 * k] = k - 1
    /\ token_table[i] = tok

LEMMA InitSlots == Init => SlotInv
  BY DEF Init, SlotInv

LEMMA StartSlots == ASSUME ShapeInv, Start PROVE SlotInv'
<1>1. PICK t \in Actions \cup {LexFail} : CallLexer(parses + 1, 1, 0, t)
  BY DEF Start
<1>2. 0 \in Slots
  BY SizeAssumption DEF Slots
<1>3. token_table' = [token_table EXCEPT ![0] = t] /\ tok' = t
  BY <1>1 DEF CallLexer
<1>4. token_table'[0] = tok'
  BY <1>2, <1>3 DEF ShapeInv, TypeOK
<1>5. QED
  BY <1>4 DEF Start, SlotInv

LEMMA ShiftSlots == ASSUME ShapeInv, SlotInv, Shift PROVE SlotInv'
<1>1. PICK t \in Actions \cup {LexFail} :
        CallLexer(parses, Len(input) + 1, i + 1, t)
  BY DEF Shift
<1>2. /\ TypeOK /\ ShapeInv' /\ status = "parsing"
      /\ Len(stack) = 2 * i + 1
      /\ \A k \in 1 .. i : stack[2 * k] = k - 1
  BY ShiftShape DEF ShapeInv, SlotInv, Shift, Parsing
<1>3. /\ i \in Nat /\ i' = i + 1 /\ i' \in Slots
  BY <1>2 DEF ShapeInv, TypeOK, Slots, Shift
<1>4. token_table'[i'] = tok'
  BY <1>1, <1>2, <1>3 DEF CallLexer, TypeOK
<1>5. Entry.arg \in Nat /\ stack \in Seq(Nat)
  BY <1>2 DEF ShapeInv, TypeOK, States, Shift
<1>6. /\ Len(stack') = Len(stack) + 2
      /\ \A k \in 1 .. Len(stack) : stack'[k] = stack[k]
      /\ stack'[Len(stack) + 1] = i
  BY <1>3, <1>5, PushPair DEF Shift
<1>7. Len(stack') = 2 * i' + 1
  BY <1>2, <1>3, <1>6
<1>8. ASSUME NEW k \in 1 .. i' PROVE stack'[2 * k] = k - 1
  <2>1. CASE k \in 1 .. i
    BY <2>1, <1>2, <1>3, <1>6
  <2>2. CASE k = i + 1
    BY <2>2, <1>2, <1>3, <1>6
  <2>3. QED
    BY <2>1, <2>2, <1>3
<1>9. QED
  BY <1>4, <1>7, <1>8 DEF SlotInv

(***************************************************************************)
(* A rule of n > 0 symbols finds them in the n slots below the lookahead,  *)
(* so the slot of its result is not the slot of the lookahead.             *)
(***************************************************************************)
LEMMA DestSlotBelow ==
  ASSUME ShapeInv, SlotInv, NoEmptyRule, Parsing("reduce"), StackHoldsArgs
  PROVE  /\ ArgCount \in 1 .. i
         /\ DestSlot = i - ArgCount
         /\ Len(Remaining) = 2 * (i - ArgCount) + 1
         /\ \A k \in 1 .. ArgCount : ArgSlot(k) = i - ArgCount + k - 1
<1> DEFINE n == ArgCount
<1>1. n \in Nat /\ n > 0
  <2>1. Entry.arg \in DOMAIN Rules /\ ArgCount \in Nat
    BY ReduceFacts
  <2>2. QED
    BY <2>1 DEF NoEmptyRule, ArgCount, Rule
<1>2. /\ i \in Nat /\ Len(stack) = 2 * i + 1
      /\ \A k \in 1 .. i : stack[2 * k] = k - 1
  BY DEF ShapeInv, TypeOK, Slots, SlotInv, Parsing
<1>3. n <= i
  BY <1>1, <1>2 DEF StackHoldsArgs
<1>4. Len(Remaining) = 2 * (i - n) + 1
  <2>1. Len(Remaining) = Len(stack) - 2 * ArgCount
    BY ReduceFacts
  <2>2. QED
    BY <2>1, <1>1, <1>2
<1>5. ASSUME NEW k \in 1 .. n PROVE ArgSlot(k) = i - n + k - 1
  <2> k \in Nat /\ 1 <= k /\ k <= n
    BY <1>1
  <2>1. /\ Len(Remaining) + 2 * k - 1 = 2 * (i - n + k)
        /\ i - n + k \in 1 .. i
    BY <1>1, <1>2, <1>3, <1>4
  <2>2. ArgSlot(k) = stack[Len(Remaining) + 2 * k - 1]
    BY DEF ArgSlot
  <2>3. PICK j \in 1 .. i : j = i - n + k
    BY <2>1
  <2>4. stack[2 * j] = j - 1
    BY <1>2
  <2>5. Len(Remaining) + 2 * k - 1 = 2 * j
    BY <2>1, <2>3
  <2>6. ArgSlot(k) = j - 1
    BY <2>2, <2>4, <2>5
  <2>7. j - 1 = i - n + k - 1
    BY <2>3, <1>1, <1>2
  <2>8. QED
    BY <2>6, <2>7
<1>6. DestSlot = i - n
  <2>1. 1 \in 1 .. n /\ ArgCount # 0
    BY <1>1
  <2>2. ArgSlot(1) = i - n + 1 - 1
    BY <2>1, <1>5
  <2>3. QED
    BY <2>1, <2>2, <1>1, <1>2 DEF DestSlot
<1>7. QED
  BY <1>1, <1>2, <1>3, <1>4, <1>5, <1>6

\* The lookahead moves from slot i to the slot behind the result.
LEMMA ReduceSlots ==
  ASSUME ShapeInv, SlotInv, NoEmptyRule, Reduce PROVE SlotInv'
<1> DEFINE n == ArgCount
<1>1. /\ Parsing("reduce") /\ StackHoldsArgs /\ TypeOK
      /\ Len(stack) = 2 * i + 1 /\ token_table[i] = tok
      /\ \A k \in 1 .. i : stack[2 * k] = k - 1
  BY DEF Reduce, Parsing, ShapeInv, SlotInv
<1>2. /\ n \in 1 .. i /\ DestSlot = i - n
      /\ Len(Remaining) = 2 * (i - n) + 1
  BY <1>1, DestSlotBelow
<1>3. i \in Nat /\ i \in Slots
  BY <1>1 DEF TypeOK, Slots
<1>4. /\ Remaining \in Seq(Nat) /\ Goto \in Nat
      /\ \A k \in 1 .. Len(Remaining) : Remaining[k] = stack[k]
  BY <1>1, ReduceFacts DEF States
<1>5. i # DestSlot /\ DestSlot \in Nat /\ DestSlot + 1 \in Slots
      /\ DestSlot \in Slots
  <2>1. MaxLexed \in Nat /\ i < MaxLexed
    BY <1>3, SizeAssumption DEF Slots
  <2>2. DestSlot \in Nat /\ DestSlot < i
    BY <1>2, <1>3
  <2>3. QED
    BY <2>1, <2>2, <1>3 DEF Slots
<1> DEFINE tokens == [token_table EXCEPT ![DestSlot] = Rule.token]
<1>6. /\ token_table' = [tokens EXCEPT ![DestSlot + 1] = tokens[i]]
      /\ i' = DestSlot + 1 /\ tok' = tok
  BY <1>5 DEF Reduce
<1>7. token_table'[i'] = tok'
  <2>1. DOMAIN token_table = Slots /\ DOMAIN tokens = Slots
    BY <1>1 DEF TypeOK
  <2>2. tokens[i] = token_table[i]
    BY <2>1, <1>3, <1>5
  <2>3. token_table'[DestSlot + 1] = tokens[i]
    BY <2>1, <1>5, <1>6
  <2>4. QED
    BY <2>2, <2>3, <1>1, <1>6
<1>8. /\ Len(stack') = Len(Remaining) + 2
      /\ \A k \in 1 .. Len(Remaining) : stack'[k] = Remaining[k]
      /\ stack'[Len(Remaining) + 1] = DestSlot
  BY <1>4, <1>5, PushPair DEF Reduce
<1>9. i' = i - n + 1
  BY <1>2, <1>6
<1>10. Len(stack') = 2 * i' + 1
  BY <1>2, <1>3, <1>8, <1>9
<1>11. ASSUME NEW k \in 1 .. i' PROVE stack'[2 * k] = k - 1
  <2>1. CASE k \in 1 .. i - n
    <3>1. 2 * k \in 1 .. Len(Remaining) /\ k \in 1 .. i
      BY <2>1, <1>2, <1>3
    <3>2. QED
      BY <3>1, <1>1, <1>4, <1>8
  <2>2. CASE k = i - n + 1
    <3>1. 2 * k = Len(Remaining) + 1 /\ k - 1 = DestSlot
      BY <2>2, <1>2, <1>3
    <3>2. QED
      BY <3>1, <1>8
  <2>3. QED
    BY <2>1, <2>2, <1>2, <1>3, <1>9
<1>12. QED
  BY <1>7, <1>10, <1>11 DEF SlotInv

LEMMA StepSlots ==
  ASSUME NoEmptyRule
  PROVE  ShapeInv /\ SlotInv /\ [Next]_vars => SlotInv'
<1> SUFFICES ASSUME ShapeInv, SlotInv, [Next]_vars PROVE SlotInv'
  OBVIOUS
<1>1. CASE Start
  BY <1>1, StartSlots
<1>2. CASE Shift
  BY <1>2, ShiftSlots
<1>3. CASE Reduce
  BY <1>3, ReduceSlots
<1>4. CASE Accept \/ LexError \/ SyntaxError \/ Unwind \/ Reject
  BY <1>4 DEF Accept, LexError, SyntaxError, Unwind, Reject, SlotInv
<1>5. CASE UNCHANGED vars
  BY <1>5 DEF vars, SlotInv
<1>6. QED
  BY <1>1, <1>2, <1>3, <1>4, <1>5 DEF Next, Step

THEOREM SlotsCorrect == ASSUME NoEmptyRule PROVE Spec => [](ShapeInv /\ SlotInv)
<1>1. Init => ShapeInv /\ SlotInv
  BY InitShape, InitSlots
<1>2. ShapeInv /\ SlotInv /\ [Next]_vars => (ShapeInv /\ SlotInv)'
  BY StepShape, StepSlots
<1>3. QED
  BY <1>1, <1>2, PTL DEF Spec

(***************************************************************************)
(* The slot discipline, for every table: without empty rules a parse never *)
(* keeps two live values in one slot.                                      *)
(***************************************************************************)
THEOREM SlotsDisciplined == ASSUME NoEmptyRule PROVE Spec => []SlotDiscipline
<1>1. ShapeInv /\ SlotInv => SlotDiscipline
  <2> SUFFICES ASSUME ShapeInv, SlotInv, status = "parsing"
               PROVE  /\ \A k \in 1 .. Depth : stack[2 * k] = k - 1
                      /\ i = Depth
    BY DEF SlotDiscipline
  <2>1. i \in Nat /\ Len(stack) = 2 * i + 1
    BY DEF ShapeInv, TypeOK, Slots, SlotInv
  <2>2. Depth = i
    BY <2>1 DEF Depth
  <2>3. QED
    BY <2>2 DEF SlotInv
<1>2. QED
  BY <1>1, SlotsCorrect, PTL

-----------------------------------------------------------------------------
(***************************************************************************)
(* The asserts.  With k symbols below it, a state is one whose items have  *)
(* the dot behind k symbols at most, so the rule it reduces by finds its   *)
(* symbols on the stack.                                                   *)
(***************************************************************************)
DotsInv(dots) ==
  status = "parsing" => \A k \in 0 .. i : dots[stack[2 * k + 1]] <= k

\* What the theorems ask of the table, over its states and tokens.
LEMMA TableDomain ==
  DOMAIN Table = States /\ \A s \in States : DOMAIN Table[s] = Tokens
BY TableAssumption

LEMMA DotsOfTable ==
  ASSUME NEW dots, CountsDots(dots)
  PROVE  /\ dots \in [States -> Nat] /\ dots[0] = 0
         /\ \A s \in States, t \in Tokens :
              /\ Table[s][t].op = "shift"
                   => dots[Table[s][t].arg] <= dots[s] + 1
              /\ Table[s][t].op = "reduce"
                   => Rules[Table[s][t].arg].tok_n <= dots[s]
BY TableDomain DEF CountsDots

LEMMA GotoOfTable ==
  ASSUME NEW s, ByGoto(s)
  PROVE  s # 0 /\ \A q \in States, t \in Actions :
                    Table[q][t].op = "shift" => Table[q][t].arg # s
BY TableDomain, SizeAssumption DEF ByGoto, Actions, Tokens

LEMMA AcceptOfTable ==
  ASSUME AcceptsByGoto
  PROVE  \A s \in States, t \in Tokens : Table[s][t].op = "accept" => ByGoto(s)
BY TableDomain DEF AcceptsByGoto

LEMMA InitDots == ASSUME NEW dots PROVE Init => DotsInv(dots)
  BY DEF Init, DotsInv

LEMMA StartDots ==
  ASSUME NEW dots, CountsDots(dots), ShapeInv, Start PROVE DotsInv(dots)'
<1>1. stack' = <<0>> /\ i' = 0
  BY DEF Start
<1>2. stack'[1] = 0 /\ dots[0] = 0
  BY <1>1, DotsOfTable
<1>3. QED
  BY <1>1, <1>2 DEF DotsInv

LEMMA ShiftDots ==
  ASSUME NEW dots, CountsDots(dots), ShapeInv, SlotInv, DotsInv(dots), Shift
  PROVE  DotsInv(dots)'
<1>1. /\ TypeOK /\ status = "parsing" /\ tok \in Tokens /\ current_state \in States
      /\ Entry.op = "shift" /\ stack[Len(stack)] = current_state
      /\ Len(stack) = 2 * i + 1 /\ i \in Nat /\ stack \in Seq(Nat)
      /\ i' = i + 1
  BY SizeAssumption
  DEF ShapeInv, SlotInv, Shift, Parsing, TypeOK, Actions, Tokens, Slots
<1>2. Entry \in Entries
  BY <1>1, TableAssumption DEF Entry
<1>3. Entry.arg \in States /\ Entry.arg \in Nat
  BY <1>1, <1>2 DEF Entries, States
<1>4. /\ \A k \in 1 .. Len(stack) : stack'[k] = stack[k]
      /\ stack'[Len(stack) + 2] = Entry.arg
  BY <1>1, <1>3, PushPair DEF Shift
<1>5. dots[Entry.arg] <= dots[current_state] + 1
  BY <1>1, DotsOfTable DEF Entry
<1>6. ASSUME NEW k \in 0 .. i' PROVE dots[stack'[2 * k + 1]] <= k
  <2>1. CASE k \in 0 .. i
    <3>1. 2 * k + 1 \in 1 .. Len(stack)
      BY <2>1, <1>1
    <3>2. QED
      BY <2>1, <3>1, <1>1, <1>4 DEF DotsInv
  <2>2. CASE k = i + 1
    <3>1. 2 * k + 1 = Len(stack) + 2 /\ i \in 0 .. i
      BY <2>2, <1>1
    <3>2. dots[current_state] <= i
      BY <3>1, <1>1 DEF DotsInv
    <3>3. dots[current_state] \in Nat /\ dots[Entry.arg] \in Nat
      BY <1>1, <1>3, DotsOfTable
    <3>4. QED
      BY <2>2, <3>1, <3>2, <3>3, <1>1, <1>4, <1>5
  <2>3. QED
    BY <2>1, <2>2, <1>1
<1>7. QED
  BY <1>6 DEF DotsInv

LEMMA ReduceDots ==
  ASSUME NEW dots, CountsDots(dots), NoEmptyRule, ShapeInv, SlotInv,
         DotsInv(dots), Reduce
  PROVE  DotsInv(dots)'
<1> DEFINE m == Len(Remaining)
<1>1. /\ Parsing("reduce") /\ StackHoldsArgs /\ TypeOK /\ status = "parsing"
      /\ i \in Nat /\ i \in Slots
  BY DEF Reduce, Parsing, ShapeInv, TypeOK, Slots
<1>2. /\ ArgCount \in 1 .. i /\ DestSlot = i - ArgCount
      /\ m = 2 * (i - ArgCount) + 1
  BY <1>1, DestSlotBelow
<1>3. /\ Remaining \in Seq(Nat) /\ Goto \in States /\ m \in 1 .. Len(stack)
      /\ \A k \in 1 .. m : Remaining[k] = stack[k]
      /\ Rule.token \in ActionTokenN .. TokenN - 1 /\ Rule.token \in Tokens
      /\ DestSlot \in Nat
  BY <1>1, ReduceFacts DEF Slots
<1>4. /\ \A k \in 1 .. m : stack'[k] = stack[k]
      /\ stack'[m + 2] = Goto
  BY <1>3, PushPair DEF Reduce, States
<1>5. i' = i - ArgCount + 1
  <2>1. i # DestSlot
    BY <1>1, <1>2
  <2>2. QED
    BY <2>1, <1>2 DEF Reduce
<1> DEFINE under == stack[m]
<1>6. under \in States /\ dots[under] <= i - ArgCount
  <2>1. m % 2 = 1
    BY <1>1, ReduceFacts
  <2>2. under \in States
    BY <2>1, <1>1, <1>3 DEF ShapeInv, StackShape
  <2>3. PICK k \in 0 .. i : k = i - ArgCount
    BY <1>1, <1>2
  <2>4. dots[stack[2 * k + 1]] <= k
    BY <1>1 DEF DotsInv
  <2>5. QED
    BY <2>2, <2>3, <2>4, <1>2
<1>7. dots[Goto] <= dots[under] + 1
  <2>1. Goto = Table[under][Rule.token].arg
    BY <1>3 DEF Goto
  <2>2. /\ Table[under][Rule.token] \in Entries
        /\ Table[under][Rule.token].op \in {"shift", "error"}
    BY <1>3, <1>6, TableAssumption
  <2>3. CASE Table[under][Rule.token].op = "shift"
    BY <2>1, <2>3, <1>3, <1>6, DotsOfTable
  <2>4. CASE Table[under][Rule.token].op = "error"
    <3>1. Goto = 0
      BY <2>1, <2>2, <2>4 DEF Entries
    <3>2. QED
      BY <3>1, <1>6, DotsOfTable
  <2>5. QED
    BY <2>2, <2>3, <2>4
<1>8. ASSUME NEW k \in 0 .. i' PROVE dots[stack'[2 * k + 1]] <= k
  <2>1. CASE k \in 0 .. i - ArgCount
    <3>1. 2 * k + 1 \in 1 .. m /\ k \in 0 .. i
      BY <2>1, <1>1, <1>2
    <3>2. QED
      BY <3>1, <1>1, <1>4 DEF DotsInv
  <2>2. CASE k = i - ArgCount + 1
    <3>1. 2 * k + 1 = m + 2
      BY <2>2, <1>1, <1>2
    <3>2. dots[under] \in Nat /\ dots[Goto] \in Nat
      BY <1>3, <1>6, DotsOfTable
    <3>3. dots[Goto] <= k
      BY <2>2, <3>2, <1>1, <1>2, <1>6, <1>7
    <3>4. QED
      BY <3>1, <3>3, <1>4
  <2>3. QED
    BY <2>1, <2>2, <1>1, <1>2, <1>5
<1>9. QED
  BY <1>8 DEF DotsInv

LEMMA StepDots ==
  ASSUME NEW dots, CountsDots(dots), NoEmptyRule
  PROVE  ShapeInv /\ SlotInv /\ DotsInv(dots) /\ [Next]_vars => DotsInv(dots)'
<1> SUFFICES ASSUME ShapeInv, SlotInv, DotsInv(dots), [Next]_vars
             PROVE  DotsInv(dots)'
  OBVIOUS
<1>1. CASE Start
  BY <1>1, StartDots
<1>2. CASE Shift
  BY <1>2, ShiftDots
<1>3. CASE Reduce
  BY <1>3, ReduceDots
<1>4. CASE Accept \/ LexError \/ SyntaxError \/ Unwind \/ Reject
  BY <1>4 DEF Accept, LexError, SyntaxError, Unwind, Reject, DotsInv
<1>5. CASE UNCHANGED vars
  BY <1>5 DEF vars, DotsInv
<1>6. QED
  BY <1>1, <1>2, <1>3, <1>4, <1>5 DEF Next, Step

LEMMA AssertsFromSlots ==
  ASSUME NEW dots, CountsDots(dots), NoEmptyRule, ShapeInv, SlotInv, DotsInv(dots)
  PROVE  AssertsHold
<1> SUFFICES ASSUME Parsing("reduce")
             PROVE  TokenIsAction /\ StackHoldsArgs /\ LookaheadIntact
  BY DEF AssertsHold
<1>1. /\ TypeOK /\ status = "parsing" /\ i \in Nat /\ i \in Slots
      /\ tok \in Actions /\ tok \in Tokens /\ current_state \in States
      /\ Len(stack) = 2 * i + 1 /\ stack[Len(stack)] = current_state
      /\ token_table[i] = tok /\ Entry.op = "reduce"
  BY SizeAssumption
  DEF Parsing, ShapeInv, TypeOK, SlotInv, Slots, Actions, Tokens
<1>2. TokenIsAction
  BY <1>1, SizeAssumption DEF TokenIsAction, Actions
<1>3. StackHoldsArgs
  <2>1. ArgCount <= dots[current_state]
    BY <1>1, DotsOfTable DEF ArgCount, Rule, Entry
  <2>2. dots[current_state] <= i
    <3>1. i \in 0 .. i
      BY <1>1
    <3>2. QED
      BY <3>1, <1>1 DEF DotsInv
  <2>3. ArgCount \in Nat /\ dots[current_state] \in Nat
    <3>1. Entry \in Entries
      BY <1>1, TableAssumption DEF Entry
    <3>2. Entry.arg \in DOMAIN Rules
      BY <3>1, <1>1 DEF Entries
    <3>3. Entry.arg \in 1 .. Len(Rules)
      BY <3>2, RuleAssumption
    <3>4. Rule \in [token : ActionTokenN .. TokenN - 1, tok_n : Nat]
      BY <3>3, RuleAssumption, ElementOfSeq DEF Rule
    <3>5. QED
      BY <3>4, <1>1, DotsOfTable DEF ArgCount
  <2>4. QED
    BY <2>1, <2>2, <2>3, <1>1 DEF StackHoldsArgs
<1>4. LookaheadIntact
  BY <1>1 DEF LookaheadIntact, TypeOK
<1>5. QED
  BY <1>2, <1>3, <1>4

(***************************************************************************)
(* No assert of g_lr_reduce or of its caller ever fails, for every table   *)
(* of an LR automaton whose rules are not empty.                           *)
(***************************************************************************)
THEOREM AssertsNeverFail ==
  ASSUME NoEmptyRule, NEW dots, CountsDots(dots)
  PROVE  Spec => []AssertsHold
<1>1. Init => ShapeInv /\ SlotInv /\ DotsInv(dots)
  BY InitShape, InitSlots, InitDots
<1>2. ShapeInv /\ SlotInv /\ DotsInv(dots) /\ [Next]_vars
        => (ShapeInv /\ SlotInv /\ DotsInv(dots))'
  BY StepShape, StepSlots, StepDots
<1>3. ShapeInv /\ SlotInv /\ DotsInv(dots) => AssertsHold
  BY AssertsFromSlots
<1>4. QED
  BY <1>1, <1>2, <1>3, PTL DEF Spec

-----------------------------------------------------------------------------
(***************************************************************************)
(* The refinement.  The bottom of the stack is state 0, and in a state that *)
(* can accept the last symbol is the result of the last reduction, which   *)
(* is what parser_parse_lr returns.                                        *)
(***************************************************************************)
RunInv ==
  status = "parsing" =>
    /\ stack[1] = 0
    /\ ByGoto(current_state) => i > 0 /\ dest_idx = i - 1

MachineInv == ShapeInv /\ SlotInv /\ RunInv

LEMMA ReduceMoves ==
  ASSUME ShapeInv, SlotInv, NoEmptyRule, Reduce
  PROVE  /\ Parsing("reduce") /\ StackHoldsArgs
         /\ ArgCount \in 1 .. i /\ DestSlot = i - ArgCount
         /\ i' = i - ArgCount + 1 /\ i \in Nat /\ i \in Slots
         /\ Len(Remaining) = 2 * (i - ArgCount) + 1
         /\ \A k \in 1 .. ArgCount : ArgSlot(k) = i - ArgCount + k - 1
         /\ \A k \in 1 .. Len(Remaining) : stack'[k] = stack[k]
         /\ stack'[Len(Remaining) + 2] = Goto
         /\ Remaining[Len(Remaining)] = stack[Len(Remaining)]
         /\ value_table' = [[value_table EXCEPT ![DestSlot] = Reduced]
                              EXCEPT ![DestSlot + 1] = value_table[i]]
         /\ token_table' = [[token_table EXCEPT ![DestSlot] = Rule.token]
                              EXCEPT ![DestSlot + 1] = token_table[i]]
         /\ DestSlot \in Slots /\ DestSlot + 1 \in Slots /\ i # DestSlot
<1>1. /\ Parsing("reduce") /\ StackHoldsArgs /\ TypeOK
      /\ i \in Nat /\ i \in Slots
  BY DEF Reduce, Parsing, ShapeInv, TypeOK, Slots
<1>2. /\ ArgCount \in 1 .. i /\ DestSlot = i - ArgCount
      /\ Len(Remaining) = 2 * (i - ArgCount) + 1
      /\ \A k \in 1 .. ArgCount : ArgSlot(k) = i - ArgCount + k - 1
  BY <1>1, DestSlotBelow
<1>3. /\ i # DestSlot /\ DestSlot \in Nat
      /\ DestSlot \in Slots /\ DestSlot + 1 \in Slots
  BY <1>1, <1>2, SizeAssumption DEF Slots
<1>4. /\ Remaining \in Seq(Nat) /\ Goto \in Nat
      /\ Len(Remaining) \in 1 .. Len(stack)
      /\ \A k \in 1 .. Len(Remaining) : Remaining[k] = stack[k]
  BY <1>1, ReduceFacts DEF States
<1>5. /\ \A k \in 1 .. Len(Remaining) : stack'[k] = stack[k]
      /\ stack'[Len(Remaining) + 2] = Goto
  BY <1>3, <1>4, PushPair DEF Reduce
<1> DEFINE values == [value_table EXCEPT ![DestSlot] = Reduced]
           tokens == [token_table EXCEPT ![DestSlot] = Rule.token]
<1>6. /\ value_table' = [values EXCEPT ![DestSlot + 1] = values[i]]
      /\ token_table' = [tokens EXCEPT ![DestSlot + 1] = tokens[i]]
      /\ i' = DestSlot + 1
  BY <1>3 DEF Reduce
<1>7. values[i] = value_table[i] /\ tokens[i] = token_table[i]
  BY <1>1, <1>3 DEF TypeOK
<1>8. i' = i - ArgCount + 1
  BY <1>2, <1>6
<1>9. Remaining[Len(Remaining)] = stack[Len(Remaining)]
  BY <1>4
<1>10. QED
  BY <1>1, <1>2, <1>3, <1>5, <1>6, <1>7, <1>8, <1>9

LEMMA InitRun == Init => RunInv
  BY DEF Init, RunInv

LEMMA StepRun ==
  ASSUME NoEmptyRule
  PROVE  ShapeInv /\ SlotInv /\ RunInv /\ [Next]_vars => RunInv'
<1> SUFFICES ASSUME ShapeInv, SlotInv, RunInv, [Next]_vars PROVE RunInv'
  OBVIOUS
<1>1. CASE Start
  <2>1. stack' = <<0>> /\ current_state' = 0
    BY <1>1 DEF Start
  <2>2. QED
    BY <2>1, GotoOfTable DEF RunInv
<1>2. CASE Shift
  <2>1. /\ TypeOK /\ status = "parsing" /\ tok \in Actions /\ tok \in Tokens
        /\ current_state \in States /\ Entry.op = "shift"
        /\ Len(stack) = 2 * i + 1 /\ i \in Nat /\ stack \in Seq(Nat)
        /\ current_state' = Entry.arg
    BY <1>2, SizeAssumption
    DEF ShapeInv, SlotInv, Shift, Parsing, TypeOK, Actions, Tokens, Slots
  <2>2. Entry.arg \in Nat
    <3>1. Entry \in Entries
      BY <2>1, TableAssumption DEF Entry
    <3>2. QED
      BY <3>1, <2>1 DEF Entries, States
  <2>3. stack'[1] = stack[1]
    <3>1. 1 \in 1 .. Len(stack)
      BY <2>1
    <3>2. QED
      BY <3>1, <2>1, <2>2, <1>2, PushPair DEF Shift
  <2>4. ~ ByGoto(current_state')
    BY <2>1, GotoOfTable DEF Entry
  <2>5. QED
    BY <2>1, <2>3, <2>4 DEF RunInv
<1>3. CASE Reduce
  <2>1. /\ ArgCount \in 1 .. i /\ DestSlot = i - ArgCount
        /\ i' = i - ArgCount + 1 /\ i \in Nat
        /\ Len(Remaining) = 2 * (i - ArgCount) + 1
        /\ \A k \in 1 .. Len(Remaining) : stack'[k] = stack[k]
    BY <1>3, ReduceMoves
  <2>2. stack'[1] = stack[1]
    <3>1. 1 \in 1 .. Len(Remaining)
      BY <2>1
    <3>2. QED
      BY <3>1, <2>1
  <2>3. status = "parsing" /\ dest_idx' = DestSlot
    BY <1>3 DEF Reduce, Parsing
  <2>4. i' > 0 /\ dest_idx' = i' - 1
    BY <2>1, <2>3
  <2>5. QED
    BY <2>2, <2>3, <2>4 DEF RunInv
<1>4. CASE Accept \/ LexError \/ SyntaxError \/ Unwind \/ Reject
  BY <1>4 DEF Accept, LexError, SyntaxError, Unwind, Reject, RunInv
<1>5. CASE UNCHANGED vars
  BY <1>5 DEF vars, RunInv
<1>6. QED
  BY <1>1, <1>2, <1>3, <1>4, <1>5 DEF Next, Step

(***************************************************************************)
(* The symbols of the machine, read off a stack whose k-th symbol is in    *)
(* slot k - 1.                                                             *)
(***************************************************************************)
Read(st, tt, vt, n) ==
  [k \in 1 .. n |-> [token |-> tt[k - 1], state |-> st[2 * k + 1],
                     val |-> vt[k - 1].val]]

LEMMA ReadSymbols ==
  ASSUME NEW st, NEW tt, NEW vt, NEW n \in Nat, Len(st) = 2 * n + 1,
         \A k \in 1 .. n : st[2 * k] = k - 1
  PROVE  [k \in 1 .. (Len(st) - 1) \div 2 |->
            [token |-> tt[st[2 * k]], state |-> st[2 * k + 1],
             val |-> vt[st[2 * k]].val]] = Read(st, tt, vt, n)
<1>1. (Len(st) - 1) \div 2 = n
  OBVIOUS
<1>2. QED
  BY <1>1 DEF Read

LEMMA SymbolsRead ==
  ASSUME ShapeInv, SlotInv, status = "parsing"
  PROVE  /\ Symbols = Read(stack, token_table, value_table, i)
         /\ i \in Nat
<1>1. /\ i \in Nat /\ Len(stack) = 2 * i + 1
      /\ \A k \in 1 .. i : stack[2 * k] = k - 1
  BY DEF ShapeInv, SlotInv, TypeOK, Slots
<1>2. QED
  BY <1>1, ReadSymbols DEF Symbols, Depth

LEMMA SymbolsReadNext ==
  ASSUME ShapeInv', SlotInv', status' = "parsing"
  PROVE  /\ Symbols' = Read(stack', token_table', value_table', i')
         /\ i' \in Nat
<1>1. /\ i' \in Nat /\ Len(stack') = 2 * i' + 1
      /\ \A k \in 1 .. i' : stack'[2 * k] = k - 1
  <2>1. i' \in Nat
    BY DEF ShapeInv, TypeOK, Slots
  <2>2. QED
    BY <2>1 DEF SlotInv
<1>2. QED
  BY <1>1, ReadSymbols DEF Symbols, Depth

LEMMA ReadFacts ==
  ASSUME NEW st, NEW tt, NEW vt, NEW n \in Nat
  PROVE  /\ Len(Read(st, tt, vt, n)) = n
         /\ \E S : Read(st, tt, vt, n) \in Seq(S)
         /\ \A k \in 1 .. n : Read(st, tt, vt, n)[k] =
              [token |-> tt[k - 1], state |-> st[2 * k + 1], val |-> vt[k - 1].val]
<1> DEFINE f(k) == [token |-> tt[k - 1], state |-> st[2 * k + 1],
                    val |-> vt[k - 1].val]
           S == {f(k) : k \in 1 .. n}
<1>1. Read(st, tt, vt, n) = [k \in 1 .. n |-> f(k)]
  BY DEF Read
<1> HIDE DEF f
<1>2. [k \in 1 .. n |-> f(k)] \in Seq(S)
  OBVIOUS
<1>3. Len([k \in 1 .. n |-> f(k)]) = n
  OBVIOUS
<1>4. QED
  BY <1>1, <1>2, <1>3 DEF f

\* The machine is in the state on top of the stack.
LEMMA ReadState ==
  ASSUME NEW st, NEW tt, NEW vt, NEW n \in Nat, st[1] = 0
  PROVE  Machine!StateOf(Read(st, tt, vt, n)) = st[2 * n + 1]
<1>1. CASE n = 0
  BY <1>1 DEF Read, Machine!StateOf
<1>2. CASE n > 0
  <2>1. /\ n \in 1 .. n
        /\ Len(Read(st, tt, vt, n)) = n
        /\ Read(st, tt, vt, n)[n].state = st[2 * n + 1]
    <3>1. n \in 1 .. n
      BY <1>2
    <3>2. Read(st, tt, vt, n)[n] = [token |-> tt[n - 1],
            state |-> st[2 * n + 1], val |-> vt[n - 1].val]
      BY <3>1, ReadFacts
    <3>3. QED
      BY <3>1, <3>2, ReadFacts
  <2>2. Read(st, tt, vt, n) # <<>>
    BY <1>2, <2>1
  <2>3. QED
    BY <2>1, <2>2 DEF Machine!StateOf
<1>3. QED
  BY <1>1, <1>2

LEMMA MachineState ==
  ASSUME MachineInv, status = "parsing"
  PROVE  Machine!StateOf(Symbols) = current_state
<1>1. /\ stack[1] = 0 /\ Len(stack) = 2 * i + 1
      /\ stack[Len(stack)] = current_state
  BY DEF MachineInv, ShapeInv, SlotInv, RunInv
<1>2. QED
  BY <1>1, SymbolsRead, ReadState DEF MachineInv

\* Two stacks whose lower n symbols read the same.
Agree(st, tt, vt, su, tu, vu, n) ==
  \A k \in 1 .. n : /\ tu[k - 1] = tt[k - 1]
                    /\ su[2 * k + 1] = st[2 * k + 1]
                    /\ vu[k - 1].val = vt[k - 1].val

\* Cutting and pushing, on what is read.
LEMMA ReadAppend ==
  ASSUME NEW st, NEW tt, NEW vt, NEW n \in Nat,
         NEW su, NEW tu, NEW vu, NEW e,
         Agree(st, tt, vt, su, tu, vu, n),
         e = [token |-> tu[n], state |-> su[2 * n + 3], val |-> vu[n].val]
  PROVE  Read(su, tu, vu, n + 1) = Append(Read(st, tt, vt, n), e)
<1> DEFINE s == Read(st, tt, vt, n)
           u == Read(su, tu, vu, n + 1)
<1>1. PICK S : s \in Seq(S)
  BY ReadFacts
<1>2. /\ Len(s) = n
      /\ \A k \in 1 .. n : s[k] = [token |-> tt[k - 1], state |-> st[2 * k + 1],
                                   val |-> vt[k - 1].val]
  BY ReadFacts
<1>3. /\ n + 1 \in Nat
      /\ \A k \in 1 .. n + 1 :
           u[k] = [token |-> tu[k - 1], state |-> su[2 * k + 1],
                   val |-> vu[k - 1].val]
  BY ReadFacts
<1> HIDE DEF s, u
<1>4. ASSUME NEW k \in 1 .. n PROVE u[k] = s[k]
  <2>1. tu[k - 1] = tt[k - 1] /\ su[2 * k + 1] = st[2 * k + 1]
        /\ vu[k - 1].val = vt[k - 1].val
    BY DEF Agree
  <2>2. k \in 1 .. n + 1
    OBVIOUS
  <2>3. QED
    BY <2>1, <2>2, <1>2, <1>3
<1>5. u[n + 1] = e
  <2>1. n + 1 \in 1 .. n + 1 /\ n + 1 - 1 = n /\ 2 * (n + 1) + 1 = 2 * n + 3
    OBVIOUS
  <2>2. u[n + 1] = [token |-> tu[n + 1 - 1], state |-> su[2 * (n + 1) + 1],
                    val |-> vu[n + 1 - 1].val]
    BY <2>1, <1>3
  <2>3. QED
    BY <2>1, <2>2
<1>6. u = [k \in 1 .. n + 1 |-> u[k]]
  BY DEF Read, u
<1> DEFINE T == S \cup {e}
<1>7. s \in Seq(T) /\ e \in T
  BY <1>1
<1>8. /\ Append(s, e) \in Seq(T)
      /\ Len(Append(s, e)) = n + 1
      /\ \A k \in 1 .. n : Append(s, e)[k] = s[k]
      /\ Append(s, e)[n + 1] = e
  BY <1>2, <1>7, AppendProperties
<1>9. Append(s, e) = [k \in 1 .. n + 1 |-> Append(s, e)[k]]
  BY <1>8
<1>10. \A k \in 1 .. n + 1 : u[k] = Append(s, e)[k]
  BY <1>4, <1>5, <1>8
<1>11. QED
  BY <1>6, <1>9, <1>10 DEF s, u

LEMMA ReadCut ==
  ASSUME NEW st, NEW tt, NEW vt, NEW n \in Nat, NEW j \in 0 .. n
  PROVE  SubSeq(Read(st, tt, vt, n), 1, j) = Read(st, tt, vt, j)
<1> DEFINE s == Read(st, tt, vt, n)
           u == Read(st, tt, vt, j)
<1>1. PICK S : s \in Seq(S)
  BY ReadFacts
<1>2. /\ Len(s) = n
      /\ \A k \in 1 .. n : s[k] = [token |-> tt[k - 1], state |-> st[2 * k + 1],
                                   val |-> vt[k - 1].val]
  BY ReadFacts
<1>3. \A k \in 1 .. j :
        u[k] = [token |-> tt[k - 1], state |-> st[2 * k + 1], val |-> vt[k - 1].val]
  BY ReadFacts
<1>4. u = [k \in 1 .. j |-> u[k]]
  BY DEF Read
<1>5. ASSUME NEW k \in 1 .. j PROVE u[k] = s[k]
  <2>1. k \in 1 .. n
    OBVIOUS
  <2>2. QED
    BY <2>1, <1>2, <1>3
<1> HIDE DEF s, u
<1>6. SubSeq(s, 1, j) = [k \in 1 .. j |-> s[k]]
  BY <1>1, <1>2
<1>7. QED
  BY <1>4, <1>5, <1>6 DEF s, u

-----------------------------------------------------------------------------
(***************************************************************************)
(* Every step of the runtime is a step of the machine or none.             *)
(***************************************************************************)
LEMMA InitMachine == Init => Machine!Init
  BY DEF Init, Machine!Init, Symbols, EOF, Machine!EOF

\* A call of the lexer that fills the slot of the next lookahead.
LEMMA LexMachine ==
  ASSUME TypeOK', status' = "parsing", NEW p, NEW n \in Nat,
         NEW t \in Actions \cup {LexFail}, CallLexer(p, n, i', t),
         Len(input') = n, DOMAIN value_table = Slots
  PROVE  Machine!Lex(p, n)
<1>1. /\ tok' = t /\ i' \in Slots
      /\ n < MaxLexed \/ t \in {EOF, LexFail}
      /\ t \notin {EOF, LexFail} => value_table'[i'].val = Leaf(p, n)
  BY DEF CallLexer, TypeOK
<1>2. t > EOF <=> t \notin {EOF, LexFail}
  BY SizeAssumption DEF Actions, EOF, LexFail
<1>3. QED
  BY <1>1, <1>2
  DEF Machine!Lex, Machine!Actions, Actions, Machine!EOF, Machine!LexFail,
      EOF, LexFail

LEMMA StartMachine == ASSUME MachineInv, MachineInv', Start PROVE Machine!Start
<1>1. PICK t \in Actions \cup {LexFail} :
        CallLexer(parses + 1, 1, 0, t) /\ input' = <<t>>
  BY DEF Start
<1>2. /\ status' = "parsing" /\ i' = 0 /\ stack' = <<0>>
      /\ TypeOK /\ TypeOK' /\ Len(input') = 1
  BY <1>1 DEF Start, MachineInv, ShapeInv
<1>3. Machine!Lex(parses + 1, 1)
  BY <1>1, <1>2, LexMachine DEF TypeOK
<1>4. Symbols' = <<>>
  <2>1. Symbols' = Read(stack', token_table', value_table', i')
    BY <1>2, SymbolsReadNext DEF MachineInv
  <2>2. QED
    BY <2>1, <1>2 DEF Read
<1>5. QED
  BY <1>2, <1>3, <1>4 DEF Start, Machine!Start

LEMMA ShiftMachine == ASSUME MachineInv, MachineInv', Shift PROVE Machine!Shift
<1> DEFINE n == Len(input) + 1
<1>1. PICK t \in Actions \cup {LexFail} :
        CallLexer(parses, n, i + 1, t) /\ input' = Append(input, t)
  BY DEF Shift
<1>2. /\ TypeOK /\ TypeOK' /\ status = "parsing" /\ status' = "parsing"
      /\ tok \in Actions /\ tok \in Tokens /\ tok # LexFail
      /\ current_state \in States /\ Entry.op = "shift"
      /\ Len(stack) = 2 * i + 1 /\ i \in Nat /\ stack \in Seq(Nat)
      /\ i' = i + 1 /\ i \in Slots /\ i + 1 \in Slots
      /\ token_table[i] = tok
      /\ stack' = stack \o <<i, Entry.arg>>
  <2>1. /\ TypeOK /\ TypeOK' /\ status = "parsing" /\ status' = "parsing"
        /\ i' = i + 1 /\ tok # LexFail /\ Entry.op = "shift"
        /\ stack' = stack \o <<i, Entry.arg>>
    BY DEF MachineInv, ShapeInv, Shift, Parsing
  <2>2. Len(stack) = 2 * i + 1 /\ token_table[i] = tok
    BY <2>1 DEF MachineInv, SlotInv
  <2>3. /\ tok \in Actions /\ tok \in Tokens /\ i \in Slots /\ i \in Nat
        /\ current_state \in States /\ stack \in Seq(Nat)
    BY <2>1, SizeAssumption DEF TypeOK, Actions, Tokens, Slots
  <2>4. i + 1 \in Slots
    BY <2>1 DEF TypeOK
  <2>5. QED
    BY <2>1, <2>2, <2>3, <2>4
<1>3. Entry \in Entries /\ tok # EOF
  BY <1>2, TableAssumption DEF Entry
<1>4. Entry.arg \in Nat /\ tok > EOF
  BY <1>2, <1>3, SizeAssumption DEF Entries, States, Actions, EOF
<1>5. /\ \A k \in 1 .. Len(stack) : stack'[k] = stack[k]
      /\ stack'[Len(stack) + 2] = Entry.arg
  BY <1>2, <1>4, PushPair
<1>6. /\ n \in Nat /\ Len(input') = n
  BY <1>1, <1>2 DEF TypeOK
<1>7. Machine!Lex(parses, Len(input) + 1)
  BY <1>1, <1>2, <1>6, LexMachine DEF TypeOK
<1>8. Machine!Entry = Entry
  BY <1>2, MachineState DEF Machine!Entry, Entry
<1> DEFINE e == [token |-> tok, state |-> Entry.arg, val |-> value_table[i].val]
<1>9. Symbols' = Append(Symbols, e)
  <2>1. /\ Symbols = Read(stack, token_table, value_table, i)
        /\ Symbols' = Read(stack', token_table', value_table', i')
    BY <1>2, SymbolsRead, SymbolsReadNext DEF MachineInv
  <2>2. /\ \A s \in Slots : s # i + 1 => /\ token_table'[s] = token_table[s]
                                         /\ value_table'[s] = value_table[s]
    BY <1>1, <1>2 DEF CallLexer, TypeOK
  <2>3. ASSUME NEW k \in 1 .. i
        PROVE  /\ token_table'[k - 1] = token_table[k - 1]
               /\ stack'[2 * k + 1] = stack[2 * k + 1]
               /\ value_table'[k - 1].val = value_table[k - 1].val
    <3>1. k - 1 \in Slots /\ k - 1 # i + 1 /\ 2 * k + 1 \in 1 .. Len(stack)
      BY <1>2, SizeAssumption DEF Slots
    <3>2. QED
      BY <3>1, <2>2, <1>5
  <2>4. e = [token |-> token_table'[i], state |-> stack'[2 * i + 3],
             val |-> value_table'[i].val]
    <3>1. 2 * i + 3 = Len(stack) + 2 /\ i # i + 1
      BY <1>2
    <3>2. QED
      BY <3>1, <2>2, <1>2, <1>5
  <2>5. i \in Nat /\ i' = i + 1
    BY <1>2
  <2> HIDE DEF e
  <2>6. Read(stack', token_table', value_table', i + 1)
          = Append(Read(stack, token_table, value_table, i), e)
    <3>1. Agree(stack, token_table, value_table,
                stack', token_table', value_table', i)
      BY <2>3 DEF Agree
    <3>2. QED
      BY <3>1, <2>4, <2>5, ReadAppend
  <2>7. QED
    BY <2>1, <2>5, <2>6
<1>10. QED
  BY <1>2, <1>4, <1>7, <1>8, <1>9
  DEF Shift, Machine!Shift, Machine!LexFail, LexFail

LEMMA AcceptMachine ==
  ASSUME AcceptsByGoto, MachineInv, MachineInv', Accept PROVE Machine!Accept
<1>1. /\ status = "parsing" /\ status' = "accepted" /\ ret' = dest_idx
      /\ tok \in Tokens /\ tok # LexFail /\ current_state \in States
      /\ Entry.op = "accept" /\ i \in Nat
  BY SizeAssumption
  DEF MachineInv, ShapeInv, Accept, Parsing, TypeOK, Actions, Tokens, Slots
<1>2. i > 0 /\ dest_idx = i - 1
  BY <1>1, AcceptOfTable DEF MachineInv, RunInv, Entry
<1>3. Machine!Entry = Entry
  BY <1>1, MachineState DEF Machine!Entry, Entry
<1>4. Symbols[Len(Symbols)].val = value_table[dest_idx].val
  <2>1. Symbols = Read(stack, token_table, value_table, i)
    BY <1>1, SymbolsRead DEF MachineInv
  <2>2. Len(Symbols) = i
    BY <2>1, <1>1, ReadFacts
  <2>3. i \in 1 .. i
    BY <1>1, <1>2
  <2>4. Symbols[i] = [token |-> token_table[i - 1], state |-> stack[2 * i + 1],
                      val |-> value_table[i - 1].val]
    BY <2>1, <2>3, <1>1, ReadFacts
  <2>5. QED
    BY <2>2, <2>4, <1>2
<1>5. Symbols' = <<>>
  BY <1>1 DEF Symbols
<1>6. QED
  BY <1>1, <1>3, <1>4, <1>5
  DEF Accept, Machine!Accept, Machine!LexFail, LexFail

LEMMA RejectMachine ==
  ASSUME MachineInv, LexError \/ SyntaxError PROVE Machine!Reject
<1>1. /\ status = "parsing" /\ status' = "unwinding"
      /\ UNCHANGED <<tok, input, parses>>
      /\ tok = LexFail \/ Entry.op = "error"
  BY DEF LexError, SyntaxError, Parsing
<1>2. Machine!Entry = Entry
  BY <1>1, MachineState DEF Machine!Entry, Entry
<1>3. Symbols' = <<>>
  BY <1>1 DEF Symbols
<1>4. QED
  BY <1>1, <1>2, <1>3 DEF Machine!Reject, Machine!LexFail, LexFail

\* Unwinding frees what the machine has already dropped.
LEMMA UnwindMachine ==
  ASSUME Unwind \/ Reject PROVE UNCHANGED Machine!vars
<1>1. /\ status = "unwinding" /\ status' \in {"unwinding", "rejected"}
      /\ UNCHANGED <<tok, input, parses>>
  BY DEF Unwind, Reject
<1>2. Symbols = <<>> /\ Symbols' = <<>>
  BY <1>1 DEF Symbols
<1>3. QED
  BY <1>1, <1>2 DEF Machine!vars

LEMMA StutterMachine == ASSUME UNCHANGED vars PROVE UNCHANGED Machine!vars
<1>1. UNCHANGED <<status, stack, token_table, value_table, i, tok, ret, input,
                  parses>>
  BY DEF vars
<1>2. Symbols' = Symbols
  BY <1>1 DEF Symbols, Depth
<1>3. QED
  BY <1>1, <1>2 DEF Machine!vars

(***************************************************************************)
(* A reduction: the values its action gets are those of the symbols it     *)
(* replaces, and the symbols below are not touched.                        *)
(***************************************************************************)
LEMMA ReduceArgs ==
  ASSUME MachineInv, NoEmptyRule, Reduce
  PROVE  /\ Symbols = Read(stack, token_table, value_table, i)
         /\ Len(Symbols) = i
         /\ SubSeq(Symbols, 1, i - ArgCount)
              = Read(stack, token_table, value_table, i - ArgCount)
         /\ \A k \in 1 .. ArgCount :
              Symbols[i - ArgCount + k].val = Args[k].val
<1>1. /\ status = "parsing" /\ i \in Nat /\ ArgCount \in 1 .. i
      /\ \A k \in 1 .. ArgCount : ArgSlot(k) = i - ArgCount + k - 1
  BY ReduceMoves DEF MachineInv, Reduce, Parsing
<1>2. Symbols = Read(stack, token_table, value_table, i)
  BY <1>1, SymbolsRead DEF MachineInv
<1>3. Len(Symbols) = i
  BY <1>1, <1>2, ReadFacts
<1>4. i - ArgCount \in 0 .. i
  BY <1>1
<1>5. SubSeq(Symbols, 1, i - ArgCount)
        = Read(stack, token_table, value_table, i - ArgCount)
  BY <1>1, <1>2, <1>4, ReadCut
<1>6. ASSUME NEW k \in 1 .. ArgCount
      PROVE  Symbols[i - ArgCount + k].val = Args[k].val
  <2>1. i - ArgCount + k \in 1 .. i
    BY <1>1
  <2>2. PICK j \in 1 .. i : j = i - ArgCount + k
    BY <2>1
  <2>3. Symbols[j] = [token |-> token_table[j - 1], state |-> stack[2 * j + 1],
                      val |-> value_table[j - 1].val]
    BY <1>1, <1>2, ReadFacts
  <2>4. Args[k] = value_table[j - 1]
    <3>1. ArgSlot(k) = j - 1
      BY <1>1, <2>2
    <3>2. QED
      BY <3>1 DEF Args
  <2>5. QED
    BY <2>2, <2>3, <2>4
<1>7. QED
  BY <1>2, <1>3, <1>5, <1>6

\* The value and the state of the result.
LEMMA ReduceResult ==
  ASSUME MachineInv, NoEmptyRule, Reduce
  PROVE  /\ Goto = Table[Machine!StateOf(Read(stack, token_table, value_table,
                                              i - ArgCount))][Rule.token].arg
         /\ Reduced.val =
              IF Entry.arg \in ActionRules
              THEN Node(Entry.arg,
                     [k \in 1 .. ArgCount |-> Symbols[i - ArgCount + k].val])
              ELSE Symbols[i - ArgCount + 1].val
<1>1. /\ i \in Nat /\ ArgCount \in 1 .. i /\ stack[1] = 0
      /\ Len(Remaining) = 2 * (i - ArgCount) + 1
      /\ Remaining[Len(Remaining)] = stack[Len(Remaining)]
  BY ReduceMoves DEF MachineInv, RunInv, Reduce, Parsing
<1>2. i - ArgCount \in Nat
  BY <1>1
<1>3. Machine!StateOf(Read(stack, token_table, value_table, i - ArgCount))
        = Remaining[Len(Remaining)]
  BY <1>1, <1>2, ReadState
<1>4. \A k \in 1 .. ArgCount : Symbols[i - ArgCount + k].val = Args[k].val
  BY ReduceArgs
<1>5. CASE Entry.arg \in ActionRules
  <2>1. [k \in 1 .. ArgCount |-> Args[k].val]
          = [k \in 1 .. ArgCount |-> Symbols[i - ArgCount + k].val]
    BY <1>4
  <2>2. Reduced.val = Node(Entry.arg, [k \in 1 .. ArgCount |-> Args[k].val])
    BY <1>5 DEF Reduced
  <2>3. QED
    BY <2>1, <2>2, <1>3, <1>5 DEF Goto
<1>6. CASE Entry.arg \notin ActionRules
  <2>1. 1 \in 1 .. ArgCount /\ ArgCount > 0
    BY <1>1
  <2>2. Reduced = Args[1]
    BY <2>1, <1>6 DEF Reduced
  <2>3. QED
    BY <2>1, <2>2, <1>3, <1>4, <1>6 DEF Goto
<1>7. QED
  BY <1>5, <1>6

LEMMA ReducePushes ==
  ASSUME MachineInv, MachineInv', NoEmptyRule, Reduce
  PROVE  Symbols' = Append(SubSeq(Symbols, 1, i - ArgCount),
                           [token |-> Rule.token, state |-> Goto,
                            val |-> Reduced.val])
<1> DEFINE m == i - ArgCount
           e == [token |-> Rule.token, state |-> Goto, val |-> Reduced.val]
<1>1. /\ TypeOK /\ status' = "parsing"
      /\ ArgCount \in 1 .. i /\ i \in Nat /\ i' = m + 1
      /\ DestSlot = m /\ DestSlot \in Slots /\ DestSlot + 1 \in Slots
      /\ Len(Remaining) = 2 * m + 1
      /\ \A k \in 1 .. Len(Remaining) : stack'[k] = stack[k]
      /\ stack'[Len(Remaining) + 2] = Goto
      /\ value_table' = [[value_table EXCEPT ![DestSlot] = Reduced]
                           EXCEPT ![DestSlot + 1] = value_table[i]]
      /\ token_table' = [[token_table EXCEPT ![DestSlot] = Rule.token]
                           EXCEPT ![DestSlot + 1] = token_table[i]]
  BY ReduceMoves DEF MachineInv, ShapeInv, Reduce, Parsing
<1>2. m \in Nat /\ m \in Slots
  BY <1>1
<1>3. /\ token_table'[m] = Rule.token /\ value_table'[m] = Reduced
      /\ \A s \in Slots : s < m => /\ token_table'[s] = token_table[s]
                                   /\ value_table'[s] = value_table[s]
  <2>1. m \in Slots /\ m + 1 \in Slots /\ m # m + 1
    BY <1>1
  <2>2. \A s \in Slots : s < m => s # m /\ s # m + 1
    BY <1>2 DEF Slots
  <2>3. DOMAIN value_table = Slots /\ DOMAIN token_table = Slots
    BY <1>1 DEF TypeOK
  <2>4. /\ value_table' = [[value_table EXCEPT ![m] = Reduced]
                             EXCEPT ![m + 1] = value_table[i]]
        /\ token_table' = [[token_table EXCEPT ![m] = Rule.token]
                             EXCEPT ![m + 1] = token_table[i]]
    BY <1>1
  <2> HIDE DEF m
  <2>5. QED
    BY <2>1, <2>2, <2>3, <2>4
<1>4. ASSUME NEW k \in 1 .. m
      PROVE  /\ token_table'[k - 1] = token_table[k - 1]
             /\ stack'[2 * k + 1] = stack[2 * k + 1]
             /\ value_table'[k - 1].val = value_table[k - 1].val
  <2>1. k - 1 \in Slots /\ k - 1 < m
    <3> HIDE DEF m
    <3>1. QED
      BY <1>2, SizeAssumption DEF Slots
  <2>2. 2 * k + 1 \in 1 .. Len(Remaining)
    BY <1>1, <1>2
  <2>3. QED
    BY <2>1, <2>2, <1>1, <1>3
<1>5. e = [token |-> token_table'[m], state |-> stack'[2 * m + 3],
           val |-> value_table'[m].val]
  <2>1. Len(Remaining) + 2 = 2 * m + 3
    BY <1>1, <1>2
  <2>2. QED
    BY <2>1, <1>1, <1>3
<1>6. /\ Symbols' = Read(stack', token_table', value_table', i')
      /\ SubSeq(Symbols, 1, m) = Read(stack, token_table, value_table, m)
  BY <1>1, SymbolsReadNext, ReduceArgs DEF MachineInv
<1>7. i' = m + 1
  BY <1>1
<1> HIDE DEF e, m
<1>8. Read(stack', token_table', value_table', m + 1)
        = Append(Read(stack, token_table, value_table, m), e)
  <2>1. Agree(stack, token_table, value_table,
              stack', token_table', value_table', m)
    BY <1>4 DEF Agree
  <2>2. QED
    BY <1>2, <1>5, <2>1, ReadAppend
<1>9. QED
  BY <1>6, <1>7, <1>8 DEF e, m

LEMMA ReduceMachine ==
  ASSUME NoEmptyRule, MachineInv, MachineInv', Reduce PROVE Machine!Reduce
<1>1. /\ TypeOK /\ status = "parsing" /\ status' = "parsing"
      /\ tok # LexFail /\ Entry.op = "reduce"
      /\ UNCHANGED <<tok, input, parses>>
  BY DEF MachineInv, ShapeInv, Reduce, Parsing
<1>2. /\ ArgCount \in 1 .. i /\ i \in Nat /\ i' = DestSlot + 1
      /\ DestSlot \in Slots /\ DestSlot + 1 \in Slots
      /\ value_table' = [[value_table EXCEPT ![DestSlot] = Reduced]
                           EXCEPT ![DestSlot + 1] = value_table[i]]
  BY ReduceMoves DEF MachineInv
<1>3. Machine!Entry = Entry
  BY <1>1, MachineState DEF Machine!Entry, Entry
<1>4. value_table'[i'] = value_table[i]
  BY <1>1, <1>2 DEF TypeOK
<1> DEFINE n    == Rules[Machine!Entry.arg].tok_n
           rest == SubSeq(Symbols, 1, Len(Symbols) - n)
           args == [k \in 1 .. n |-> Symbols[Len(rest) + k].val]
<1>5. Rule = Rules[Machine!Entry.arg] /\ n = ArgCount
  BY <1>3 DEF Rule, ArgCount
<1> HIDE DEF n
<1>6. /\ Len(Symbols) = i
      /\ rest = Read(stack, token_table, value_table, i - n)
      /\ Len(rest) = i - n
  <2>1. /\ Len(Symbols) = i
        /\ SubSeq(Symbols, 1, i - n)
             = Read(stack, token_table, value_table, i - n)
    BY <1>5, ReduceArgs
  <2>2. i - n \in Nat
    BY <1>2, <1>5
  <2>3. QED
    BY <2>1, <2>2, ReadFacts
<1>7. n <= Len(Symbols)
  BY <1>2, <1>6, <1>5
<1>8. args = [k \in 1 .. n |-> Symbols[i - n + k].val]
  BY <1>6
<1>9. Goto = Table[Machine!StateOf(rest)][Rule.token].arg
  BY <1>6, <1>5, ReduceResult
<1>10. Reduced.val = IF Entry.arg \in ActionRules THEN Node(Entry.arg, args)
                    ELSE args[1]
  <2>1. args[1] = Symbols[i - n + 1].val
    <3>1. 1 \in 1 .. n
      BY <1>2, <1>5
    <3>2. QED
      BY <3>1, <1>8
  <2>2. Reduced.val =
          IF Entry.arg \in ActionRules
          THEN Node(Entry.arg, [k \in 1 .. n |-> Symbols[i - n + k].val])
          ELSE Symbols[i - n + 1].val
    BY <1>5, ReduceResult
  <2>3. QED
    BY <2>1, <2>2, <1>8
<1>11. Symbols' = Append(rest, [token |-> Rule.token, state |-> Goto,
                                val |-> Reduced.val])
  BY <1>6, <1>5, ReducePushes
<1> HIDE DEF rest, args
<1>12. Symbols' = Append(rest,
         [token |-> Rules[Machine!Entry.arg].token,
          state |-> Table[Machine!StateOf(rest)][Rules[Machine!Entry.arg].token].arg,
          val   |-> IF Machine!Entry.arg \in ActionRules
                    THEN Node(Machine!Entry.arg, args) ELSE args[1]])
  BY <1>3, <1>9, <1>10, <1>11, <1>5
<1>13. UNCHANGED <<IF status = "unwinding" THEN "rejected" ELSE status, tok,
                   IF status = "parsing" /\ tok > EOF
                   THEN <<value_table[i].val>> ELSE <<>>,
                   IF status = "accepted" THEN <<value_table[ret].val>> ELSE <<>>,
                   Len(input), parses>>
  BY <1>1, <1>4
<1>14. LET rule == Rules[Machine!Entry.arg]
           k    == rule.tok_n
           rem  == SubSeq(Symbols, 1, Len(Symbols) - k)
           vals == [j \in 1 .. k |-> Symbols[Len(rem) + j].val]
       IN /\ k <= Len(Symbols)
          /\ Symbols' = Append(rem,
               [token |-> rule.token,
                state |-> Table[Machine!StateOf(rem)][rule.token].arg,
                val   |-> IF Machine!Entry.arg \in ActionRules
                          THEN Node(Machine!Entry.arg, vals)
                          ELSE vals[1]])
  BY <1>7, <1>12 DEF n, rest, args
<1>15. /\ (IF status = "unwinding" THEN "rejected" ELSE status) = "parsing"
       /\ tok # Machine!LexFail /\ Machine!Entry.op = "reduce"
  BY <1>1, <1>3 DEF LexFail, Machine!LexFail
<1>16. QED
  BY <1>13, <1>14, <1>15 DEF Machine!Reduce

LEMMA StepMachine ==
  ASSUME NoEmptyRule, AcceptsByGoto, MachineInv, MachineInv', [Next]_vars
  PROVE  [Machine!Next]_Machine!vars
<1>1. CASE Start
  BY <1>1, StartMachine DEF Machine!Next
<1>2. CASE Shift
  BY <1>2, ShiftMachine DEF Machine!Next
<1>3. CASE Reduce
  BY <1>3, ReduceMachine DEF Machine!Next
<1>4. CASE Accept
  BY <1>4, AcceptMachine DEF Machine!Next
<1>5. CASE LexError \/ SyntaxError
  BY <1>5, RejectMachine DEF Machine!Next
<1>6. CASE Unwind \/ Reject
  BY <1>6, UnwindMachine
<1>7. CASE UNCHANGED vars
  BY <1>7, StutterMachine
<1>8. QED
  BY <1>1, <1>2, <1>3, <1>4, <1>5, <1>6, <1>7 DEF Next, Step

(***************************************************************************)
(* The runtime implements the LR machine, for every table and every        *)
(* grammar without empty rules: although it keeps no stack of values and   *)
(* moves the lookahead about, every action gets the values of the symbols  *)
(* its rule replaces, and what is returned is the value of the symbol that *)
(* is left.                                                                *)
(***************************************************************************)
THEOREM RuntimeImplementsMachine ==
  ASSUME NoEmptyRule, AcceptsByGoto PROVE Spec => ImplementsMachine
<1>1. Init => MachineInv
  BY InitShape, InitSlots, InitRun DEF MachineInv
<1>2. MachineInv /\ [Next]_vars => MachineInv'
  BY StepShape, StepSlots, StepRun DEF MachineInv
<1>3. MachineInv /\ MachineInv' /\ [Next]_vars => [Machine!Next]_Machine!vars
  BY StepMachine
<1>4. QED
  BY <1>1, <1>2, <1>3, InitMachine, PTL DEF Spec, ImplementsMachine, Machine!Spec

-----------------------------------------------------------------------------
(***************************************************************************)
(* Where the values go, when a value is the sequence of the tokens it was  *)
(* built from.  While a parse runs, the slots of the stack hold, in order, *)
(* consecutive pieces of what was lexed before the lookahead.              *)
(***************************************************************************)
Pieces(vt, tt, p, cut, n) ==
  \A k \in 1 .. n :
    /\ vt[k - 1].val = Piece(p, cut[k - 1], cut[k])
    /\ tt[k - 1] \in Tokens \ {EOF}

StackHolds(vt, tt, p, n, upto) ==
  \E cut : /\ IsCut(cut, n, upto)
           /\ cut[0] = 0 /\ cut[n] = upto
           /\ Pieces(vt, tt, p, cut, n)

HeldInv ==
  status = "parsing" =>
    /\ parses \in 1 .. MaxParses
    /\ freed = <<>>
    /\ \A k \in 1 .. Len(input) - 1 : input[k] > EOF
    /\ input[Len(input)] = tok
    /\ tok > EOF => value_table[i].val = Piece(parses, Len(input) - 1, Len(input))
    /\ StackHolds(value_table, token_table, parses, i, Len(input) - 1)

(***************************************************************************)
(* Cutting a line anew behind its first m pieces, and a part of a line.    *)
(***************************************************************************)
CutBehind(cut, m, v) == [k \in 0 .. m + 1 |-> IF k <= m THEN cut[k] ELSE v]
CutFrom(cut, m, l) == [k \in 0 .. l |-> cut[m + k]]

LEMMA CutAnew ==
  ASSUME NEW n \in Nat, NEW m \in 0 .. n, NEW u \in Nat, NEW v \in Nat, u <= v,
         NEW cut, IsCut(cut, n, u), cut[m] < v
  PROVE  /\ IsCut(CutBehind(cut, m, v), m + 1, v)
         /\ \A k \in 0 .. m : CutBehind(cut, m, v)[k] = cut[k]
         /\ CutBehind(cut, m, v)[m + 1] = v
<1> DEFINE new == [k \in 0 .. m + 1 |-> IF k <= m THEN cut[k] ELSE v]
<1>1. \A k \in 0 .. m : k \in 0 .. n /\ k \in 0 .. m + 1 /\ k <= m
  OBVIOUS
<1>2. \A k \in 0 .. m : new[k] = cut[k] /\ cut[k] \in 0 .. u
  BY <1>1 DEF IsCut
<1>3. new[m + 1] = v
  <2>1. m + 1 \in 0 .. m + 1 /\ ~ (m + 1 <= m)
    OBVIOUS
  <2>2. QED
    BY <2>1
<1>4. \A k \in 0 .. m + 1 : k \in 0 .. m \/ k = m + 1
  OBVIOUS
<1>5. ASSUME NEW k \in 0 .. m + 1 PROVE new[k] \in 0 .. v
  <2>1. CASE k \in 0 .. m
    <3>1. new[k] = cut[k] /\ cut[k] \in 0 .. u
      BY <1>2, <2>1
    <3>2. QED
      BY <3>1
  <2>2. CASE k = m + 1
    BY <1>3, <2>2
  <2>3. QED
    BY <1>4, <2>1, <2>2
<1>6. \A k \in 0 .. m : cut[k] <= cut[m]
  <2> TAKE k \in 0 .. m
  <2>1. k \in 0 .. n /\ m \in 0 .. n /\ (k < m \/ k = m)
    OBVIOUS
  <2>2. cut[k] \in Nat /\ cut[m] \in Nat
    BY <2>1 DEF IsCut
  <2>3. k < m => cut[k] < cut[m]
    BY <2>1 DEF IsCut
  <2>4. QED
    BY <2>1, <2>2, <2>3
<1>7. ASSUME NEW j \in 0 .. m + 1, NEW k \in 0 .. m + 1, j < k
      PROVE  new[j] < new[k]
  <2>1. j \in 0 .. m
    BY <1>7
  <2>2. CASE k \in 0 .. m
    <3>1. cut[j] < cut[k]
      BY <1>1, <1>7, <2>1, <2>2 DEF IsCut
    <3>2. QED
      BY <3>1, <1>2, <2>1, <2>2
  <2>3. CASE k = m + 1
    <3>1. cut[j] \in Nat /\ cut[m] \in Nat /\ cut[j] <= cut[m]
      <4>1. m \in 0 .. m
        OBVIOUS
      <4>2. cut[j] \in 0 .. u /\ cut[m] \in 0 .. u
        BY <1>2, <2>1, <4>1
      <4>3. QED
        BY <4>2, <1>6, <2>1
    <3>2. new[j] = cut[j] /\ new[k] = v
      BY <1>2, <1>3, <2>1, <2>3
    <3>3. QED
      BY <3>1, <3>2
  <2>4. QED
    BY <1>4, <2>2, <2>3
<1>8. new \in [0 .. m + 1 -> 0 .. v]
  BY <1>5
<1>9. QED
  BY <1>2, <1>3, <1>7, <1>8 DEF IsCut, CutBehind

LEMMA CutPart ==
  ASSUME NEW n \in Nat, NEW m \in Nat, NEW l \in Nat, m + l <= n,
         NEW u \in Nat, NEW v \in Nat, u <= v, NEW cut, IsCut(cut, n, u)
  PROVE  /\ IsCut(CutFrom(cut, m, l), l, v)
         /\ CutFrom(cut, m, l) \in [0 .. l -> 0 .. v]
         /\ \A k \in 0 .. l : CutFrom(cut, m, l)[k] = cut[m + k]
<1> DEFINE part == [k \in 0 .. l |-> cut[m + k]]
<1>1. \A k \in 0 .. l : m + k \in 0 .. n
  OBVIOUS
<1>2. \A k \in 0 .. l : part[k] = cut[m + k]
  OBVIOUS
<1>3. \A k \in 0 .. l : cut[m + k] \in 0 .. v
  BY <1>1 DEF IsCut
<1>4. part \in [0 .. l -> 0 .. v]
  BY <1>3
<1>5. ASSUME NEW j \in 0 .. l, NEW k \in 0 .. l, j < k
      PROVE  part[j] < part[k]
  <2>1. m + j < m + k
    BY <1>5
  <2>2. cut[m + j] < cut[m + k]
    BY <2>1, <1>1 DEF IsCut
  <2>3. QED
    BY <2>2, <1>2
<1>6. QED
  BY <1>2, <1>4, <1>5 DEF IsCut, CutFrom

\* What a call of the lexer writes, and what it leaves alone.
LEMMA LexedValue ==
  ASSUME TypeOK, ValuesAreTokens, NEW p \in 1 .. MaxParses,
         NEW n \in 1 .. MaxLexed, NEW slot \in Slots,
         NEW t \in Actions \cup {LexFail}, CallLexer(p, n, slot, t)
  PROVE  /\ tok' = t /\ token_table'[slot] = t
         /\ t > EOF => value_table'[slot].val = Piece(p, n - 1, n)
         /\ \A s \in Slots \ {slot} : /\ value_table'[s] = value_table[s]
                                      /\ token_table'[s] = token_table[s]
<1>1. /\ tok' = t /\ token_table' = [token_table EXCEPT ![slot] = t]
      /\ DOMAIN token_table = Slots /\ DOMAIN value_table = Slots
  BY DEF CallLexer, TypeOK
<1>2. \A s \in Slots \ {slot} : value_table'[s] = value_table[s]
  BY <1>1 DEF CallLexer
<1>3. ASSUME t > EOF PROVE value_table'[slot].val = Piece(p, n - 1, n)
  <2>1. t \notin {EOF, LexFail}
    BY <1>3 DEF EOF, LexFail
  <2>2. value_table' = [value_table EXCEPT ![slot] = [val |-> Leaf(p, n), pos |-> n]]
    BY <2>1 DEF CallLexer
  <2>3. value_table'[slot].val = Leaf(p, n)
    BY <2>2, <1>1
  <2>4. QED
    BY <2>3 DEF ValuesAreTokens
<1>4. QED
  BY <1>1, <1>2, <1>3

LEMMA StartHeld ==
  ASSUME ShapeInv, ValuesAreTokens, Start PROVE HeldInv'
<1>1. PICK t \in Actions \cup {LexFail} :
        CallLexer(parses + 1, 1, 0, t) /\ input' = <<t>>
  BY DEF Start
<1>2. /\ TypeOK /\ parses' = parses + 1 /\ parses + 1 \in 1 .. MaxParses
      /\ i' = 0 /\ freed' = <<>> /\ 0 \in Slots /\ 1 \in 1 .. MaxLexed
  BY SizeAssumption DEF Start, ShapeInv, TypeOK, Slots
<1>3. tok' = t /\ (t > EOF => value_table'[0].val = Piece(parses + 1, 1 - 1, 1))
  BY <1>1, <1>2, LexedValue
<1>4. Len(input') = 1 /\ input'[1] = t
  BY <1>1
<1>5. StackHolds(value_table', token_table', parses', 0, 0)
  <2> DEFINE cut == [k \in 0 .. 0 |-> 0]
  <2>1. cut[0] = 0 /\ IsCut(cut, 0, 0)
    BY DEF IsCut
  <2>2. Pieces(value_table', token_table', parses', cut, 0)
    BY DEF Pieces
  <2>3. QED
    BY <2>1, <2>2 DEF StackHolds
<1>6. \A k \in 1 .. Len(input') - 1 : input'[k] > EOF
  BY <1>4
<1>7. QED
  BY <1>2, <1>3, <1>4, <1>5, <1>6 DEF HeldInv

\* A token is shifted: its slot becomes the top of the stack.
LEMMA ShiftHeld ==
  ASSUME ShapeInv, SlotInv, HeldInv, ValuesAreTokens, Shift PROVE HeldInv'
<1> DEFINE n == Len(input)
<1>1. PICK t \in Actions \cup {LexFail} :
        CallLexer(parses, n + 1, i + 1, t) /\ input' = Append(input, t)
  BY DEF Shift
<1>2. /\ TypeOK /\ status = "parsing" /\ status' = "parsing" /\ i' = i + 1
      /\ parses' = parses /\ freed' = freed
      /\ tok \in Actions /\ tok \in Tokens /\ current_state \in States
      /\ Entry.op = "shift"
  BY SizeAssumption DEF Shift, Parsing, ShapeInv, TypeOK, Actions, Tokens
<1>3. tok > EOF /\ tok \in Tokens \ {EOF}
  <2>1. tok # EOF
    BY <1>2, TableAssumption DEF Entry
  <2>2. QED
    BY <2>1, <1>2 DEF Actions, EOF
<1>4. /\ parses \in 1 .. MaxParses /\ freed = <<>>
      /\ \A k \in 1 .. n - 1 : input[k] > EOF
      /\ input[n] = tok
      /\ value_table[i].val = Piece(parses, n - 1, n)
      /\ StackHolds(value_table, token_table, parses, i, n - 1)
      /\ token_table[i] = tok
  BY <1>2, <1>3 DEF HeldInv, SlotInv
<1>5. /\ i \in Nat /\ n \in Nat /\ i < n /\ n < MaxLexed
      /\ i \in Slots /\ i + 1 \in Slots /\ n + 1 \in 1 .. MaxLexed
  BY <1>2, <1>3, SizeAssumption
  DEF ShapeInv, TypeOK, Slots, EOF, LexFail
<1>6. /\ tok' = t
      /\ t > EOF => value_table'[i + 1].val = Piece(parses, n + 1 - 1, n + 1)
      /\ \A s \in Slots \ {i + 1} : /\ value_table'[s] = value_table[s]
                                    /\ token_table'[s] = token_table[s]
  BY <1>1, <1>2, <1>4, <1>5, LexedValue
<1>7. /\ Len(input') = n + 1 /\ input'[n + 1] = t
      /\ \A k \in 1 .. n : input'[k] = input[k]
  BY <1>1, <1>2 DEF TypeOK
<1>8. \A k \in 1 .. Len(input') - 1 : input'[k] > EOF
  <2>1. \A k \in 1 .. n : input[k] > EOF
    BY <1>3, <1>4, <1>5
  <2>2. QED
    BY <2>1, <1>5, <1>7
<1>9. PICK cut : /\ IsCut(cut, i, n - 1) /\ cut[0] = 0 /\ cut[i] = n - 1
                 /\ Pieces(value_table, token_table, parses, cut, i)
  BY <1>4 DEF StackHolds
<1> DEFINE new == CutBehind(cut, i, n)
<1>10. /\ IsCut(new, i + 1, n) /\ new[i + 1] = n
       /\ \A k \in 0 .. i : new[k] = cut[k]
  <2>1. i \in 0 .. i /\ n - 1 \in Nat /\ n - 1 <= n /\ cut[i] < n
    BY <1>5, <1>9
  <2>2. QED
    BY <2>1, <1>5, <1>9, CutAnew
<1> HIDE DEF new
<1>11. ASSUME NEW k \in 1 .. i + 1
       PROVE  /\ value_table'[k - 1].val = Piece(parses, new[k - 1], new[k])
              /\ token_table'[k - 1] \in Tokens \ {EOF}
  <2>1. /\ k - 1 \in Slots \ {i + 1} /\ k - 1 \in 0 .. i
    <3>1. k - 1 \in Nat /\ k - 1 <= i
      BY <1>5
    <3>2. QED
      BY <3>1, <1>5, SizeAssumption DEF Slots
  <2>2. /\ value_table'[k - 1] = value_table[k - 1]
        /\ token_table'[k - 1] = token_table[k - 1]
    BY <2>1, <1>6
  <2>3. CASE k \in 1 .. i
    <3>1. new[k - 1] = cut[k - 1] /\ new[k] = cut[k]
      BY <2>1, <2>3, <1>10
    <3>2. QED
      BY <3>1, <2>2, <2>3, <1>9 DEF Pieces
  <2>4. CASE k = i + 1
    <3>1. k - 1 = i /\ i \in 0 .. i
      BY <2>4, <1>5
    <3>2. new[k - 1] = n - 1 /\ new[k] = n
      BY <3>1, <2>4, <1>9, <1>10
    <3>3. QED
      BY <3>1, <3>2, <2>2, <1>3, <1>4
  <2>5. QED
    BY <2>3, <2>4, <1>5
<1>12. StackHolds(value_table', token_table', parses, i + 1, n)
  <2>1. Pieces(value_table', token_table', parses, new, i + 1)
    BY <1>11 DEF Pieces
  <2>2. new[0] = 0
    BY <1>5, <1>9, <1>10
  <2>3. QED
    BY <2>1, <2>2, <1>10 DEF StackHolds
<1>13. Len(input') - 1 = n /\ n + 1 - 1 = n /\ Len(input') = n + 1
  BY <1>5, <1>7
<1>14. QED
  BY <1>2, <1>4, <1>6, <1>7, <1>8, <1>12, <1>13 DEF HeldInv

\* The result of a reduction is made of the tokens of its arguments.
LEMMA ReducedValue ==
  ASSUME ShapeInv, SlotInv, NoEmptyRule, ValuesAreTokens, Reduce,
         parses \in 1 .. MaxParses, NEW u \in 0 .. MaxLexed, NEW cut,
         IsCut(cut, i, u), Pieces(value_table, token_table, parses, cut, i)
  PROVE  Reduced.val = Piece(parses, cut[i - ArgCount], cut[i])
<1> DEFINE n == ArgCount
<1>1. /\ n \in 1 .. i /\ i \in Nat
      /\ \A k \in 1 .. n : ArgSlot(k) = i - n + k - 1
      /\ Parsing("reduce") /\ StackHoldsArgs
  BY ReduceMoves
<1>2. Entry.arg \in DOMAIN Rules /\ n = Rules[Entry.arg].tok_n
  BY <1>1, ReduceFacts DEF ArgCount, Rule
<1> DEFINE m == i - n
<1>3. m \in 0 .. i /\ m \in Nat /\ i - m = n /\ m + n = i /\ n > 0
  BY <1>1
<1>4. ASSUME NEW k \in 1 .. n
      PROVE  Args[k].val = Piece(parses, cut[m + (k - 1)], cut[m + k])
  <2>1. m + k \in 1 .. i
    BY <1>1, <1>3
  <2>2. PICK j \in 1 .. i : j = m + k
    BY <2>1
  <2>3. value_table[j - 1].val = Piece(parses, cut[j - 1], cut[j])
    BY DEF Pieces
  <2>4. j - 1 = m + (k - 1) /\ ArgSlot(k) = j - 1
    BY <1>1, <1>3, <2>2
  <2>5. Args[k] = value_table[j - 1]
    BY <2>4 DEF Args
  <2>6. QED
    BY <2>2, <2>3, <2>4, <2>5
<1>5. CASE Entry.arg \in ActionRules
  <2> DEFINE part == CutFrom(cut, m, n)
  <2>1. /\ IsCut(part, n, MaxLexed) /\ part \in [0 .. n -> 0 .. MaxLexed]
        /\ \A k \in 0 .. n : part[k] = cut[m + k]
    <3>1. u \in Nat /\ MaxLexed \in Nat /\ u <= MaxLexed
      BY SizeAssumption
    <3>2. m \in Nat /\ n \in Nat /\ i \in Nat /\ m + n <= i
      BY <1>1, <1>3
    <3> HIDE DEF m, n
    <3>3. QED
      BY <3>1, <3>2, CutPart
  <2> HIDE DEF part
  <2>2. Node(Entry.arg, [k \in 1 .. n |-> Piece(parses, part[k - 1], part[k])])
          = Piece(parses, part[0], part[n])
    BY <1>2, <1>5, <2>1 DEF ValuesAreTokens
  <2>3. part[0] = cut[m] /\ part[n] = cut[i]
    <3>1. 0 \in 0 .. n /\ n \in 0 .. n /\ m + 0 = m
      BY <1>3, <1>1
    <3>2. part[0] = cut[m + 0] /\ part[n] = cut[m + n]
      BY <2>1, <3>1
    <3>3. QED
      BY <3>1, <3>2, <1>3
  <2>4. [k \in 1 .. n |-> Args[k].val]
          = [k \in 1 .. n |-> Piece(parses, part[k - 1], part[k])]
    <3>1. ASSUME NEW k \in 1 .. n
          PROVE  Args[k].val = Piece(parses, part[k - 1], part[k])
      <4>1. k - 1 \in 0 .. n /\ k \in 0 .. n
        BY <1>1
      <4>2. part[k - 1] = cut[m + (k - 1)] /\ part[k] = cut[m + k]
        BY <2>1, <4>1
      <4>3. QED
        BY <1>4, <4>2
    <3>2. QED
      BY <3>1
  <2>5. Reduced.val = Node(Entry.arg, [k \in 1 .. n |-> Args[k].val])
    BY <1>5 DEF Reduced
  <2>6. QED
    BY <2>2, <2>3, <2>4, <2>5
<1>6. CASE Entry.arg \notin ActionRules
  <2>1. n = 1
    BY <1>2, <1>6 DEF ValuesAreTokens
  <2>2. Reduced = Args[1]
    BY <1>3, <1>6 DEF Reduced
  <2>3. 1 \in 1 .. n /\ m + (1 - 1) = m /\ m + 1 = i
    BY <2>1, <1>3
  <2>4. Args[1].val = Piece(parses, cut[m + (1 - 1)], cut[m + 1])
    BY <1>4, <2>3
  <2>5. QED
    BY <2>2, <2>3, <2>4
<1>7. QED
  BY <1>5, <1>6

\* A reduction joins the pieces it pops; the lookahead moves along.
LEMMA ReduceHeld ==
  ASSUME ShapeInv, SlotInv, HeldInv, NoEmptyRule, ValuesAreTokens, Reduce
  PROVE  HeldInv'
<1> DEFINE m == i - ArgCount
           w == Len(input) - 1
           d == DestSlot
<1>1. /\ ArgCount \in 1 .. i /\ d = m /\ i' = m + 1
      /\ i \in Nat /\ i \in Slots
      /\ value_table' = [[value_table EXCEPT ![d] = Reduced]
                           EXCEPT ![d + 1] = value_table[i]]
      /\ token_table' = [[token_table EXCEPT ![d] = Rule.token]
                           EXCEPT ![d + 1] = token_table[i]]
      /\ d \in Slots /\ d + 1 \in Slots
      /\ Parsing("reduce") /\ StackHoldsArgs
  BY ReduceMoves
<1>2. /\ TypeOK /\ status = "parsing" /\ i < Len(input)
      /\ UNCHANGED <<status, tok, input, freed, parses>>
  BY <1>1 DEF Reduce, Parsing, ShapeInv
<1>3. /\ parses \in 1 .. MaxParses /\ freed = <<>>
      /\ \A k \in 1 .. w : input[k] > EOF
      /\ input[Len(input)] = tok
      /\ tok > EOF => value_table[i].val = Piece(parses, w, Len(input))
      /\ StackHolds(value_table, token_table, parses, i, w)
  BY <1>2 DEF HeldInv
<1>4. PICK cut : /\ IsCut(cut, i, w) /\ cut[0] = 0 /\ cut[i] = w
                 /\ Pieces(value_table, token_table, parses, cut, i)
  BY <1>3 DEF StackHolds
<1>5. m \in 0 .. i /\ m < i /\ m \in Nat
  BY <1>1
<1>6. w \in 0 .. MaxLexed /\ w \in Nat /\ w <= w
  <2>1. Len(input) \in Nat /\ Len(input) <= MaxLexed /\ i < Len(input)
    BY <1>2 DEF TypeOK
  <2>2. \A n, l, x \in Nat : x < n /\ n <= l => n - 1 \in 0 .. l /\ n - 1 \in Nat
    OBVIOUS
  <2>3. w \in 0 .. MaxLexed /\ w \in Nat
    BY <2>1, <2>2, <1>1, SizeAssumption
  <2>4. QED
    BY <2>3
<1>7. cut[m] < cut[i]
  BY <1>1, <1>4, <1>5 DEF IsCut
<1>8. Reduced.val = Piece(parses, cut[m], w)
  BY <1>3, <1>4, <1>6, ReducedValue
<1>9. /\ DOMAIN value_table = Slots /\ DOMAIN token_table = Slots
      /\ Rule.token \in Tokens \ {EOF}
  <2>1. Rule.token \in Tokens /\ Rule.token \in ActionTokenN .. TokenN - 1
    BY <1>1, ReduceFacts
  <2>2. Rule.token # EOF
    BY <2>1, SizeAssumption DEF EOF
  <2>3. QED
    BY <2>1, <2>2, <1>2 DEF TypeOK
<1>10. d # d + 1 /\ d \in Nat
  BY <1>1, <1>5
<1>11. /\ value_table'[d].val = Piece(parses, cut[m], w)
       /\ value_table'[d + 1] = value_table[i]
       /\ token_table'[d] = Rule.token
       /\ \A s \in Slots \ {d, d + 1} : /\ value_table'[s] = value_table[s]
                                        /\ token_table'[s] = token_table[s]
  BY <1>1, <1>8, <1>9, <1>10
<1> DEFINE new == CutBehind(cut, m, w)
<1>12. /\ IsCut(new, m + 1, w) /\ new[m + 1] = w
       /\ \A k \in 0 .. m : new[k] = cut[k]
  <2>1. cut[m] < w
    BY <1>4, <1>7
  <2> HIDE DEF m, w
  <2>2. QED
    BY <2>1, <1>1, <1>4, <1>5, <1>6, CutAnew
<1> HIDE DEF new
<1>13. ASSUME NEW k \in 1 .. m + 1
       PROVE  /\ value_table'[k - 1].val = Piece(parses, new[k - 1], new[k])
              /\ token_table'[k - 1] \in Tokens \ {EOF}
  <2>1. k - 1 \in 0 .. m
    BY <1>5
  <2>2. CASE k \in 1 .. m
    <3>1. k \in 0 .. m /\ k \in 1 .. i
      BY <2>2, <1>5, <1>1
    <3>2. k - 1 \in Slots \ {d, d + 1}
      <4>1. /\ k - 1 \in Nat /\ k - 1 < m /\ m < MaxLexed
        BY <2>2, <1>1, <1>5, SizeAssumption DEF Slots
      <4>2. QED
        BY <4>1, <1>1, <1>5, SizeAssumption DEF Slots
    <3>3. QED
      BY <2>1, <3>1, <3>2, <1>4, <1>11, <1>12 DEF Pieces
  <2>3. CASE k = m + 1
    <3>1. k - 1 = d /\ m \in 0 .. m /\ new[k] = w /\ k - 1 = m
      BY <2>3, <1>1, <1>5, <1>12
    <3>2. new[k - 1] = cut[m]
      BY <3>1, <1>12
    <3>3. QED
      BY <3>1, <3>2, <1>9, <1>11
  <2>4. QED
    BY <2>2, <2>3, <1>5
<1>14. StackHolds(value_table', token_table', parses, m + 1, w)
  <2>1. Pieces(value_table', token_table', parses, new, m + 1)
    BY <1>13 DEF Pieces
  <2>2. new[0] = 0
    BY <1>4, <1>5, <1>12
  <2>3. QED
    BY <2>1, <2>2, <1>12 DEF StackHolds
<1>15. value_table'[i'] = value_table[i]
  BY <1>1, <1>11
<1>16. QED
  BY <1>1, <1>2, <1>3, <1>14, <1>15 DEF HeldInv

LEMMA StepHeld ==
  ASSUME NoEmptyRule, ValuesAreTokens
  PROVE  ShapeInv /\ SlotInv /\ HeldInv /\ [Next]_vars => HeldInv'
<1> SUFFICES ASSUME ShapeInv, SlotInv, HeldInv, [Next]_vars PROVE HeldInv'
  OBVIOUS
<1>1. CASE Start
  BY <1>1, StartHeld
<1>2. CASE Shift
  BY <1>2, ShiftHeld
<1>3. CASE Reduce
  BY <1>3, ReduceHeld
<1>4. CASE Accept \/ LexError \/ SyntaxError \/ Unwind \/ Reject
  BY <1>4 DEF Accept, LexError, SyntaxError, Unwind, Reject, HeldInv
<1>5. CASE UNCHANGED vars
  BY <1>5 DEF vars, HeldInv
<1>6. QED
  BY <1>1, <1>2, <1>3, <1>4, <1>5 DEF Next, Step

\* Every token that was lexed has a value, but for an end or an error.
LEMMA CountValues ==
  ASSUME ShapeInv, HeldInv, status = "parsing"
  PROVE  /\ Len(input) \in Nat /\ Len(input) > 0
         /\ ValueCount = IF tok > EOF THEN Len(input) ELSE Len(input) - 1
<1> DEFINE n == Len(input)
           m == IF tok > EOF THEN n ELSE n - 1
<1>1. /\ TypeOK /\ i \in Nat /\ i < n /\ n \in Nat /\ input[n] = tok
      /\ DOMAIN input = 1 .. n
      /\ \A k \in 1 .. n - 1 : input[k] > EOF
  BY DEF ShapeInv, TypeOK, HeldInv, Slots
<1>2. n > 0 /\ m \in Int /\ m >= 0
  BY <1>1
<1>3. ASSUME NEW k \in 1 .. n PROVE input[k] > EOF <=> k <= m
  <2>1. CASE k \in 1 .. n - 1
    BY <2>1, <1>1
  <2>2. CASE k = n
    BY <2>2, <1>1, <1>2
  <2>3. k \in 1 .. n - 1 \/ k = n
    <3>1. \A a \in Nat : \A b \in 1 .. a : b \in 1 .. a - 1 \/ b = a
      OBVIOUS
    <3>2. n \in Nat
      BY <1>1
    <3> HIDE DEF n, m
    <3>3. QED
      BY <3>1, <3>2
  <2>4. QED
    BY <2>1, <2>2, <2>3
<1>4. \A k : k \in 1 .. m <=> k \in 1 .. n /\ k <= m
  BY <1>1, <1>2
<1>5. {k \in DOMAIN input : input[k] > EOF} = 1 .. m
  BY <1>1, <1>3, <1>4
<1>6. Cardinality(1 .. m) = m
  <2> HIDE DEF m
  <2>1. Cardinality(1 .. m) = IF 1 > m THEN 0 ELSE m - 1 + 1
    BY <1>2, FS_Interval
  <2>2. QED
    BY <2>1, <1>2
<1>7. QED
  BY <1>1, <1>2, <1>5, <1>6 DEF ValueCount

(***************************************************************************)
(* What has been freed: the tokens from the last one down, piece by piece. *)
(***************************************************************************)
FreedDown(f, p, lo, hi) ==
  /\ f \in Seq(Seq(Nat \X Nat))
  /\ \E left \in [0 .. Len(f) -> Nat] :
       /\ left[0] = hi /\ left[Len(f)] = lo
       /\ \A k \in 1 .. Len(f) : /\ left[k] < left[k - 1]
                                 /\ f[k] = Piece(p, left[k], left[k - 1])

LEMMA FreedNothing ==
  ASSUME NEW p \in Nat, NEW hi \in Nat PROVE FreedDown(<<>>, p, hi, hi)
<1> DEFINE left == [k \in 0 .. 0 |-> hi]
<1>1. <<>> \in Seq(Seq(Nat \X Nat)) /\ Len(<<>>) = 0
  OBVIOUS
<1>2. left \in [0 .. 0 -> Nat] /\ left[0] = hi
  OBVIOUS
<1>3. \A k \in 1 .. 0 : FALSE
  OBVIOUS
<1> HIDE DEF left
<1>4. \E c \in [0 .. Len(<<>>) -> Nat] :
        /\ c[0] = hi /\ c[Len(<<>>)] = hi
        /\ \A k \in 1 .. Len(<<>>) : /\ c[k] < c[k - 1]
                                    /\ <<>>[k] = Piece(p, c[k], c[k - 1])
  BY <1>1, <1>2, <1>3
<1>5. QED
  BY <1>1, <1>4 DEF FreedDown

LEMMA PieceFacts ==
  ASSUME NEW p \in Nat, NEW m \in Nat, NEW n \in Nat, m < n
  PROVE  /\ Piece(p, m, n) \in Seq(Nat \X Nat)
         /\ Len(Piece(p, m, n)) = n - m
         /\ Piece(p, m, n)[1] = <<p, m + 1>>
<1>1. n - m \in Nat /\ 1 \in 1 .. n - m
  OBVIOUS
<1>2. \A k \in 1 .. n - m : <<p, m + k>> \in Nat \X Nat
  OBVIOUS
<1>3. QED
  BY <1>1, <1>2 DEF Piece

LEMMA FreedMore ==
  ASSUME NEW p \in Nat, NEW m \in Nat, NEW lo \in Nat, NEW hi, m < lo,
         NEW f, FreedDown(f, p, lo, hi)
  PROVE  FreedDown(Append(f, Piece(p, m, lo)), p, m, hi)
<1>1. /\ f \in Seq(Seq(Nat \X Nat)) /\ Len(f) \in Nat
      /\ Piece(p, m, lo) \in Seq(Nat \X Nat)
  <2>1. Piece(p, m, lo) \in Seq(Nat \X Nat)
    BY PieceFacts
  <2>2. f \in Seq(Seq(Nat \X Nat))
    BY DEF FreedDown
  <2>3. QED
    BY <2>1, <2>2
<1> DEFINE n == Len(f)
           g == Append(f, Piece(p, m, lo))
<1>2. PICK left \in [0 .. n -> Nat] :
        /\ left[0] = hi /\ left[n] = lo
        /\ \A k \in 1 .. n : /\ left[k] < left[k - 1]
                             /\ f[k] = Piece(p, left[k], left[k - 1])
  BY DEF FreedDown
<1>3. /\ g \in Seq(Seq(Nat \X Nat)) /\ Len(g) = n + 1
      /\ g[n + 1] = Piece(p, m, lo)
      /\ \A k \in 1 .. n : g[k] = f[k]
  BY <1>1
<1> HIDE DEF g
<1> DEFINE new == [k \in 0 .. n + 1 |-> IF k <= n THEN left[k] ELSE m]
<1>4. /\ \A k \in 0 .. n : new[k] = left[k]
      /\ new[n + 1] = m
      /\ new \in [0 .. n + 1 -> Nat]
  <2>1. \A k \in 0 .. n : k \in 0 .. n + 1 /\ k <= n
    BY <1>1
  <2>2. n + 1 \in 0 .. n + 1 /\ ~ (n + 1 <= n)
    BY <1>1
  <2>3. \A k \in 0 .. n + 1 : k <= n => k \in 0 .. n
    BY <1>1
  <2>4. QED
    BY <2>1, <2>2, <2>3
<1> HIDE DEF new
<1>5. ASSUME NEW k \in 1 .. n + 1
      PROVE  new[k] < new[k - 1] /\ g[k] = Piece(p, new[k], new[k - 1])
  <2>1. k - 1 \in 0 .. n
    BY <1>1
  <2>2. CASE k \in 1 .. n
    <3>1. k \in 0 .. n
      BY <2>2
    <3>2. QED
      BY <2>1, <2>2, <3>1, <1>2, <1>3, <1>4
  <2>3. CASE k = n + 1
    <3>1. k - 1 = n /\ n \in 0 .. n
      BY <2>3, <1>1
    <3>2. new[k - 1] = lo /\ new[k] = m
      BY <3>1, <2>3, <1>2, <1>4
    <3>3. QED
      BY <3>2, <2>3, <1>3
  <2>4. QED
    BY <2>2, <2>3, <1>1
<1>6. new[0] = hi
  BY <1>1, <1>2, <1>4
<1>7. FreedDown(g, p, m, hi)
  BY <1>3, <1>4, <1>5, <1>6 DEF FreedDown
<1>8. QED
  BY <1>7 DEF g

LEMMA FreedAll ==
  ASSUME parses \in Nat, FreedDown(freed, parses, 0, ValueCount)
  PROVE  FailureFreesEachValueOnce
<1> DEFINE n == Len(freed)
<1>1. freed \in Seq(Seq(Nat \X Nat)) /\ n \in Nat /\ DOMAIN freed = 1 .. n
  BY DEF FreedDown
<1>2. PICK left \in [0 .. n -> Nat] :
        /\ left[0] = ValueCount /\ left[n] = 0
        /\ \A k \in 1 .. n : /\ left[k] < left[k - 1]
                             /\ freed[k] = Piece(parses, left[k], left[k - 1])
  BY DEF FreedDown
<1>3. ASSUME NEW k \in 1 .. n
      PROVE  freed[k] # <<>> /\ freed[k][1][2] - 1 = left[k]
  <2>1. k \in 0 .. n /\ k - 1 \in 0 .. n
    BY <1>1
  <2>2. left[k] \in Nat /\ left[k - 1] \in Nat /\ left[k] < left[k - 1]
    BY <2>1, <1>2
  <2>3. /\ Len(freed[k]) = left[k - 1] - left[k]
        /\ freed[k][1] = <<parses, left[k] + 1>>
    <3>1. \A a, b \in Nat : a < b => /\ Len(Piece(parses, a, b)) = b - a
                                     /\ Piece(parses, a, b)[1] = <<parses, a + 1>>
      BY PieceFacts
    <3>2. freed[k] = Piece(parses, left[k], left[k - 1])
      BY <1>2
    <3>3. QED
      BY <2>2, <3>1, <3>2
  <2>4. freed[k] # <<>>
    <3>1. Len(<<>>) = 0 /\ Len(freed[k]) # 0
      BY <2>2, <2>3
    <3>2. QED
      BY <3>1
  <2>5. freed[k][1][2] = left[k] + 1
    BY <2>3
  <2>6. QED
    BY <2>2, <2>4, <2>5
<1> DEFINE l(k) == IF k = 0 THEN ValueCount ELSE freed[k][1][2] - 1
<1>4. ASSUME NEW k \in 0 .. n PROVE l(k) = left[k]
  <2>1. k = 0 \/ (k \in 1 .. n /\ k # 0)
    BY <1>1
  <2>2. QED
    BY <2>1, <1>2, <1>3
<1>5. \A k \in 1 .. n : k \in 0 .. n /\ k - 1 \in 0 .. n
  BY <1>1
<1>6. n \in 0 .. n
  BY <1>1
<1> HIDE DEF l
<1>7. \A k \in 1 .. n : freed[k] = Piece(parses, l(k), l(k - 1))
  BY <1>2, <1>4, <1>5
<1>8. l(n) = 0
  BY <1>2, <1>4, <1>6
<1>9. QED
  BY <1>1, <1>3, <1>7, <1>8 DEF FailureFreesEachValueOnce, l

(***************************************************************************)
(* After an error: the stack still holds the first tokens, and those above *)
(* them have been freed.                                                   *)
(***************************************************************************)
Unwound(vt, tt, st, f, p, d, count) ==
  /\ Len(st) = 2 * d + 1
  /\ \A k \in 1 .. d : st[2 * k] = k - 1
  /\ \E cut : /\ IsCut(cut, d, count) /\ cut[0] = 0
              /\ Pieces(vt, tt, p, cut, d)
              /\ FreedDown(f, p, cut[d], count)

FreedInv ==
  /\ status \in {"unwinding", "rejected"} => ValueCount \in Nat
  /\ status = "unwinding" =>
       \E d \in 0 .. i :
         Unwound(value_table, token_table, stack, freed, parses, d, ValueCount)
  /\ status = "rejected" => FreedDown(freed, parses, 0, ValueCount)

\* The lexer failed, and what it did not return has no value.
LEMMA LexErrorFreed ==
  ASSUME ShapeInv, SlotInv, HeldInv, LexError PROVE FreedInv'
<1>1. /\ status = "parsing" /\ status' = "unwinding" /\ tok = LexFail /\ TypeOK
      /\ UNCHANGED <<stack, token_table, value_table, i, input, freed, parses>>
  BY DEF LexError, ShapeInv
<1>2. /\ i \in Nat /\ parses \in Nat /\ i \in 0 .. i
      /\ Len(stack) = 2 * i + 1 /\ \A k \in 1 .. i : stack[2 * k] = k - 1
  BY <1>1 DEF TypeOK, Slots, SlotInv
<1>3. ValueCount = Len(input) - 1 /\ ValueCount \in Nat
  <2>1. ~ (tok > EOF)
    BY <1>1 DEF LexFail, EOF
  <2>2. QED
    BY <2>1, <1>1, CountValues
<1>4. freed = <<>> /\ StackHolds(value_table, token_table, parses, i, ValueCount)
  BY <1>1, <1>3 DEF HeldInv
<1>5. PICK cut : /\ IsCut(cut, i, ValueCount) /\ cut[0] = 0
                 /\ cut[i] = ValueCount
                 /\ Pieces(value_table, token_table, parses, cut, i)
  BY <1>4 DEF StackHolds
<1>6. FreedDown(freed, parses, cut[i], ValueCount)
  BY <1>2, <1>3, <1>4, <1>5, FreedNothing
<1>7. Unwound(value_table, token_table, stack, freed, parses, i, ValueCount)
  BY <1>2, <1>5, <1>6 DEF Unwound
<1>8. ValueCount' = ValueCount
  BY <1>1 DEF ValueCount
<1>9. QED
  BY <1>1, <1>2, <1>3, <1>7, <1>8 DEF FreedInv

\* The lookahead is freed first, if it has a value.
LEMMA SyntaxErrorFreed ==
  ASSUME ShapeInv, SlotInv, HeldInv, EveryTokenDestroyed, SyntaxError
  PROVE  FreedInv'
<1> DEFINE w == Len(input) - 1
<1>1. /\ status = "parsing" /\ status' = "unwinding" /\ tok # LexFail /\ TypeOK
      /\ UNCHANGED <<stack, token_table, i, input, parses>>
      /\ RunDestructor(i)
  BY DEF SyntaxError, Parsing, ShapeInv
<1>2. /\ i \in Nat /\ i \in Slots /\ parses \in Nat /\ i \in 0 .. i
      /\ Len(stack) = 2 * i + 1 /\ \A k \in 1 .. i : stack[2 * k] = k - 1
      /\ token_table[i] = tok /\ DOMAIN value_table = Slots
      /\ tok \in Actions
  BY <1>1 DEF TypeOK, Slots, SlotInv
<1>3. /\ Len(input) \in Nat /\ w \in Nat
      /\ ValueCount = IF tok > EOF THEN Len(input) ELSE w
  BY <1>1, CountValues
<1>4. /\ freed = <<>> /\ StackHolds(value_table, token_table, parses, i, w)
      /\ tok > EOF => value_table[i].val = Piece(parses, w, Len(input))
  BY <1>1 DEF HeldInv
<1>5. PICK cut : /\ IsCut(cut, i, w) /\ cut[0] = 0 /\ cut[i] = w
                 /\ Pieces(value_table, token_table, parses, cut, i)
  BY <1>4 DEF StackHolds
<1>6. ValueCount' = ValueCount
  BY <1>1 DEF ValueCount
<1>7. ASSUME tok > EOF
      PROVE  Unwound(value_table', token_table, stack, freed', parses, i, ValueCount)
  <2>1. tok \in Destructors
    <3>1. tok \in Tokens \ {EOF}
      BY <1>2, <1>7, SizeAssumption DEF Actions, Tokens, EOF
    <3>2. 0 \in States
      BY SizeAssumption DEF States
    <3>3. QED
      BY <3>1, <3>2, TableDomain DEF EveryTokenDestroyed
  <2>2. /\ freed' = Append(<<>>, Piece(parses, w, Len(input)))
        /\ \A s \in Slots \ {i} : value_table'[s] = value_table[s]
    BY <2>1, <1>1, <1>2, <1>4, <1>7 DEF RunDestructor
  <2>3. FreedDown(freed', parses, w, Len(input))
    <3>1. FreedDown(<<>>, parses, Len(input), Len(input))
      BY <1>2, <1>3, FreedNothing
    <3>2. w < Len(input)
      BY <1>3
    <3>3. QED
      BY <3>1, <3>2, <2>2, <1>2, <1>3, FreedMore
  <2>4. IsCut(cut, i, Len(input))
    <3>1. 0 .. w \subseteq 0 .. Len(input)
      BY <1>3
    <3>2. QED
      BY <3>1, <1>5 DEF IsCut
  <2>5. Pieces(value_table', token_table, parses, cut, i)
    <3>1. \A k \in 1 .. i : k - 1 \in Slots \ {i}
      BY <1>2, SizeAssumption DEF Slots
    <3>2. QED
      BY <3>1, <2>2, <1>5 DEF Pieces
  <2>6. QED
    BY <2>3, <2>4, <2>5, <1>2, <1>3, <1>5, <1>7 DEF Unwound
<1>8. ASSUME ~ (tok > EOF)
      PROVE  Unwound(value_table', token_table, stack, freed', parses, i, ValueCount)
  <2>1. tok = EOF
    BY <1>1, <1>2, <1>8 DEF Actions, EOF
  <2>2. UNCHANGED <<freed, value_table>>
    BY <2>1, <1>1, <1>2, RuleAssumption DEF RunDestructor
  <2>3. FreedDown(freed', parses, cut[i], w)
    BY <2>2, <1>2, <1>3, <1>4, <1>5, FreedNothing
  <2>4. QED
    BY <2>2, <2>3, <1>2, <1>3, <1>5, <1>8 DEF Unwound
<1>9. ValueCount \in Nat
  BY <1>3
<1>10. QED
  BY <1>1, <1>2, <1>6, <1>7, <1>8, <1>9 DEF FreedInv

\* One turn of parser_run_destructors frees the piece on top of the stack.
LEMMA UnwindFreed ==
  ASSUME ShapeInv, FreedInv, EveryTokenDestroyed, Unwind PROVE FreedInv'
<1>1. /\ status = "unwinding" /\ status' = "unwinding" /\ TypeOK
      /\ Len(stack) > 1 /\ stack' = SubSeq(stack, 1, Len(stack) - 2)
      /\ UNCHANGED <<token_table, i, input, parses>>
      /\ RunDestructor(stack[Len(stack) - 1])
  BY DEF Unwind, ShapeInv
<1>2. /\ i \in Slots /\ i \in Nat /\ i < MaxLexed /\ MaxLexed \in Nat
      /\ stack \in Seq(Nat) /\ Len(stack) \in Nat /\ parses \in Nat
      /\ DOMAIN value_table = Slots /\ ValueCount \in Nat
  BY <1>1, SizeAssumption DEF TypeOK, Slots, FreedInv
<1>3. PICK d \in 0 .. i :
        Unwound(value_table, token_table, stack, freed, parses, d, ValueCount)
  BY <1>1 DEF FreedInv
<1>4. PICK cut : /\ IsCut(cut, d, ValueCount) /\ cut[0] = 0
                 /\ Pieces(value_table, token_table, parses, cut, d)
                 /\ FreedDown(freed, parses, cut[d], ValueCount)
  BY <1>3 DEF Unwound
<1>5. /\ Len(stack) = 2 * d + 1 /\ \A k \in 1 .. d : stack[2 * k] = k - 1
  BY <1>3 DEF Unwound
<1>6. PICK e \in Nat : d = e + 1
  <2>1. d \in Nat /\ d > 0
    BY <1>1, <1>5
  <2>2. d - 1 \in Nat /\ d = d - 1 + 1
    BY <2>1
  <2>3. QED
    BY <2>2
<1>7. /\ d \in 1 .. d /\ e = d - 1 /\ e \in 0 .. i /\ e \in Slots
      /\ Len(stack) = 2 * e + 3 /\ Len(stack) - 1 = 2 * d
  BY <1>2, <1>5, <1>6 DEF Slots
<1>8. stack[Len(stack) - 1] = e
  BY <1>5, <1>7
<1>9. /\ value_table[e].val = Piece(parses, cut[e], cut[d])
      /\ token_table[e] \in Tokens \ {EOF}
  BY <1>4, <1>7 DEF Pieces
<1>10. token_table[e] \in Destructors
  <2>1. 0 \in States
    BY SizeAssumption DEF States
  <2>2. QED
    BY <2>1, <1>9, TableDomain DEF EveryTokenDestroyed
<1>11. /\ freed' = Append(freed, Piece(parses, cut[e], cut[d]))
       /\ \A s \in Slots \ {e} : value_table'[s] = value_table[s]
  BY <1>1, <1>2, <1>8, <1>9, <1>10 DEF RunDestructor
<1>12. /\ Len(stack') = 2 * e + 1
       /\ \A k \in 1 .. e : stack'[2 * k] = k - 1
  <2>1. Len(stack) - 2 \in 0 .. Len(stack) /\ Len(stack) - 2 = 2 * e + 1
    BY <1>2, <1>7
  <2>2. /\ Len(stack') = 2 * e + 1
        /\ \A k \in 1 .. 2 * e + 1 : stack'[k] = stack[k]
    BY <2>1, <1>1, <1>2, CutStack
  <2>3. \A k \in 1 .. e : 2 * k \in 1 .. 2 * e + 1 /\ k \in 1 .. d
    BY <1>6
  <2>4. QED
    BY <2>2, <2>3, <1>5
<1>13. /\ e \in 0 .. d /\ d \in 0 .. d /\ e < d
       /\ cut[e] \in Nat /\ cut[d] \in Nat /\ cut[e] < cut[d]
  <2>1. e \in 0 .. d /\ d \in 0 .. d /\ e < d
    BY <1>6
  <2>2. QED
    BY <2>1, <1>4 DEF IsCut
<1>14. FreedDown(freed', parses, cut[e], ValueCount)
  BY <1>2, <1>4, <1>11, <1>13, FreedMore
<1> DEFINE part == CutFrom(cut, 0, e)
<1>15. /\ IsCut(part, e, ValueCount)
       /\ \A k \in 0 .. e : part[k] = cut[k]
  <2>1. d \in Nat /\ 0 + e <= d /\ ValueCount <= ValueCount
    BY <1>2, <1>6
  <2>2. /\ IsCut(part, e, ValueCount)
        /\ \A k \in 0 .. e : part[k] = cut[0 + k]
    <3>1. \A m \in Nat : m + e <= d =>
            /\ IsCut(CutFrom(cut, m, e), e, ValueCount)
            /\ \A k \in 0 .. e : CutFrom(cut, m, e)[k] = cut[m + k]
      <4>1. IsCut(cut, d, ValueCount) /\ ValueCount \in Nat
        BY <1>2, <1>4
      <4>2. QED
        BY <2>1, <4>1, CutPart
    <3>2. 0 \in Nat
      OBVIOUS
    <3>3. QED
      BY <2>1, <3>1, <3>2
  <2>3. \A k \in 0 .. e : 0 + k = k
    OBVIOUS
  <2>4. QED
    BY <2>2, <2>3
<1> HIDE DEF part
<1>16. Pieces(value_table', token_table, parses, part, e)
  <2>1. \A k \in 1 .. e : /\ k - 1 \in Slots \ {e} /\ k \in 1 .. d
                          /\ k - 1 \in 0 .. e /\ k \in 0 .. e
    BY <1>2, <1>6, <1>7 DEF Slots
  <2>2. QED
    BY <2>1, <1>4, <1>11, <1>15 DEF Pieces
<1>17. /\ part[0] = 0 /\ part[e] = cut[e]
  BY <1>4, <1>6, <1>15
<1>18. Unwound(value_table', token_table, stack', freed', parses, e, ValueCount)
  BY <1>12, <1>14, <1>15, <1>16, <1>17 DEF Unwound
<1>19. ValueCount' = ValueCount
  BY <1>1 DEF ValueCount
<1>20. QED
  BY <1>1, <1>2, <1>7, <1>18, <1>19 DEF FreedInv

\* The loop ends when one word is left: nothing is on the stack any more.
LEMMA RejectFreed ==
  ASSUME ShapeInv, FreedInv, Reject PROVE FreedInv'
<1>1. /\ status = "unwinding" /\ status' = "rejected" /\ Len(stack) <= 1
      /\ UNCHANGED <<freed, input, parses>>
  BY DEF Reject
<1>2. PICK d \in 0 .. i :
        Unwound(value_table, token_table, stack, freed, parses, d, ValueCount)
  BY <1>1 DEF FreedInv
<1>3. Len(stack) = 2 * d + 1
  BY <1>2 DEF Unwound
<1>4. d = 0
  BY <1>1, <1>3
<1>5. FreedDown(freed, parses, 0, ValueCount) /\ ValueCount \in Nat
  BY <1>1, <1>2, <1>4 DEF Unwound, FreedInv
<1>6. ValueCount' = ValueCount
  BY <1>1 DEF ValueCount
<1>7. QED
  BY <1>1, <1>5, <1>6 DEF FreedInv

LEMMA StepFreed ==
  ASSUME EveryTokenDestroyed
  PROVE  ShapeInv /\ SlotInv /\ HeldInv /\ FreedInv /\ [Next]_vars => FreedInv'
<1> SUFFICES ASSUME ShapeInv, SlotInv, HeldInv, FreedInv, [Next]_vars
             PROVE  FreedInv'
  OBVIOUS
<1>1. CASE LexError
  BY <1>1, LexErrorFreed
<1>2. CASE SyntaxError
  BY <1>2, SyntaxErrorFreed
<1>3. CASE Unwind
  BY <1>3, UnwindFreed
<1>4. CASE Reject
  BY <1>4, RejectFreed
<1>5. CASE Start \/ Shift \/ Reduce \/ Accept
  <2>1. status' \in {"parsing", "accepted"}
    BY <1>5 DEF Start, Shift, Reduce, Accept, Parsing
  <2>2. QED
    BY <2>1 DEF FreedInv
<1>6. CASE UNCHANGED vars
  BY <1>6 DEF vars, FreedInv, ValueCount
<1>7. QED
  BY <1>1, <1>2, <1>3, <1>4, <1>5, <1>6 DEF Next, Step

(***************************************************************************)
(* %destructor: after a failed parse every value that was made has reached *)
(* a destructor, once and from the last to the first, for every table      *)
(* whose rules are not empty.  No value is freed twice although reductions *)
(* leave copies of the values they move, and none is forgotten.            *)
(***************************************************************************)
THEOREM FailureFreesAll ==
  ASSUME NoEmptyRule, ValuesAreTokens, EveryTokenDestroyed
  PROVE  Spec => []FailureFreesEachValueOnce
<1>1. Init => ShapeInv /\ SlotInv /\ HeldInv /\ FreedInv
  BY InitShape, InitSlots DEF Init, HeldInv, FreedInv
<1>2. ShapeInv /\ SlotInv /\ HeldInv /\ FreedInv /\ [Next]_vars
        => (ShapeInv /\ SlotInv /\ HeldInv /\ FreedInv)'
  BY StepShape, StepSlots, StepHeld, StepFreed
<1>3. ShapeInv /\ FreedInv => FailureFreesEachValueOnce
  <2> SUFFICES ASSUME ShapeInv, FreedInv, status = "rejected"
               PROVE  FailureFreesEachValueOnce
    BY DEF FailureFreesEachValueOnce
  <2>1. parses \in Nat
    BY DEF ShapeInv, TypeOK
  <2>2. QED
    BY <2>1, FreedAll DEF FreedInv
<1>4. QED
  BY <1>1, <1>2, <1>3, PTL DEF Spec

-----------------------------------------------------------------------------
(***************************************************************************)
(* Acceptance.  Each state on the stack is led to by the one below it; an  *)
(* item with the dot behind n symbols was begun n symbols further down, by *)
(* a state with a goto on its token.  So every reduction finds its goto,   *)
(* and the state that accepts stands on the first state.                   *)
(***************************************************************************)
Leads(q, s) ==
  \E t \in Tokens : Table[q][t].op = "shift" /\ Table[q][t].arg = s

Path(items, st, n) ==
  /\ st[1] = 0
  /\ \A k \in 1 .. n : Leads(st[2 * k - 1], st[2 * k + 1])
  /\ \A k \in 0 .. n : \A w \in items[st[2 * k + 1]] :
       /\ w[2] \in 0 .. k
       /\ Table[st[2 * (k - w[2]) + 1]][w[1]].op = "shift"

PathInv(items) == status = "parsing" => Path(items, stack, i)

\* HasItems and AcceptsAtEnd over the states and tokens.
LEMMA ItemsOfTable ==
  ASSUME NEW items, HasItems(items)
  PROVE  /\ items[0] = {}
         /\ \A s \in States : \A w \in items[s] : w[2] \in Nat /\ w[2] > 0
         /\ \A s \in States, t \in Tokens :
              /\ Table[s][t].op = "shift" =>
                   \A w \in items[Table[s][t].arg] :
                     IF w[2] = 1 THEN Table[s][w[1]].op = "shift"
                                 ELSE <<w[1], w[2] - 1>> \in items[s]
              /\ Table[s][t].op = "reduce" =>
                   <<Rules[Table[s][t].arg].token, Rules[Table[s][t].arg].tok_n>>
                     \in items[s]
<1>1. \A s \in States : \A w \in items[s] : w[2] \in Nat /\ w[2] > 0
  <2> TAKE s \in States
  <2>1. items[s] \in SUBSET ((DOMAIN Table[0]) \X (Nat \ {0}))
    BY TableDomain DEF HasItems
  <2>2. QED
    BY <2>1
<1>2. QED
  BY <1>1, TableDomain DEF HasItems

LEMMA AcceptsOfTable ==
  ASSUME AcceptsAtEnd
  PROVE  \A s \in States, t \in Tokens :
           /\ Table[s][t].op = "shift" => Table[s][t].arg # 0
           /\ Table[s][t].op = "accept" =>
                t = EOF /\ \A q \in States : Leads(q, s) => q = 0
BY TableDomain DEF AcceptsAtEnd, Leads

LEMMA PathPush ==
  ASSUME NEW items, HasItems(items), NEW st, NEW new, NEW m \in Nat,
         Path(items, st, m), \A k \in 1 .. 2 * m + 1 : new[k] = st[k],
         st[2 * m + 1] \in States, NEW t \in Tokens,
         Table[st[2 * m + 1]][t].op = "shift",
         new[2 * m + 3] = Table[st[2 * m + 1]][t].arg,
         new[2 * m + 3] \in States
  PROVE  Path(items, new, m + 1)
<1> DEFINE q == st[2 * m + 1]
           s == new[2 * m + 3]
<1>1. \A k \in 0 .. m : /\ 2 * k + 1 \in 1 .. 2 * m + 1
                        /\ new[2 * k + 1] = st[2 * k + 1]
  OBVIOUS
<1>2. new[1] = 0
  BY DEF Path
<1>3. ASSUME NEW k \in 1 .. m + 1 PROVE Leads(new[2 * k - 1], new[2 * k + 1])
  <2>1. CASE k \in 1 .. m
    <3>1. 2 * k - 1 \in 1 .. 2 * m + 1 /\ 2 * k + 1 \in 1 .. 2 * m + 1
      BY <2>1
    <3>2. QED
      BY <2>1, <3>1 DEF Path
  <2>2. CASE k = m + 1
    <3>1. /\ 2 * k - 1 = 2 * m + 1 /\ 2 * k + 1 = 2 * m + 3
          /\ 2 * m + 1 \in 1 .. 2 * m + 1
      BY <2>2
    <3>2. Leads(q, s)
      BY DEF Leads
    <3>3. QED
      BY <3>1, <3>2
  <2>3. QED
    BY <2>1, <2>2
<1>4. ASSUME NEW k \in 0 .. m + 1, NEW w \in items[new[2 * k + 1]]
      PROVE  /\ w[2] \in 0 .. k
             /\ Table[new[2 * (k - w[2]) + 1]][w[1]].op = "shift"
  <2>1. CASE k \in 0 .. m
    <3>1. w \in items[st[2 * k + 1]]
      BY <1>1, <2>1
    <3>2. w[2] \in 0 .. k /\ Table[st[2 * (k - w[2]) + 1]][w[1]].op = "shift"
      BY <2>1, <3>1 DEF Path
    <3>3. k - w[2] \in 0 .. m
      BY <2>1, <3>2
    <3>4. new[2 * (k - w[2]) + 1] = st[2 * (k - w[2]) + 1]
      BY <1>1, <3>3
    <3>5. QED
      BY <3>2, <3>4
  <2>2. CASE k = m + 1
    <3>1. 2 * k + 1 = 2 * m + 3 /\ w \in items[s]
      BY <2>2
    <3>2. w[2] \in Nat /\ w[2] > 0
      BY <3>1, ItemsOfTable
    <3>3. IF w[2] = 1 THEN Table[q][w[1]].op = "shift"
                      ELSE <<w[1], w[2] - 1>> \in items[q]
      BY <3>1, ItemsOfTable
    <3>4. CASE w[2] = 1
      <4>1. k - w[2] = m /\ new[2 * m + 1] = q /\ w[2] \in 0 .. k
        BY <1>1, <2>2, <3>4
      <4>2. QED
        BY <3>3, <3>4, <4>1
    <3>5. CASE w[2] # 1
      <4>1. <<w[1], w[2] - 1>> \in items[q]
        BY <3>3, <3>5
      <4>2. PICK n \in Nat : w[2] = n + 1 /\ n > 0
        <5>1. w[2] - 1 \in Nat /\ w[2] = w[2] - 1 + 1 /\ w[2] - 1 > 0
          BY <3>2, <3>5
        <5>2. QED
          BY <5>1
      <4>3. <<w[1], n>> \in items[st[2 * m + 1]] /\ m \in 0 .. m
        BY <4>1, <4>2
      <4>4. n \in 0 .. m /\ Table[st[2 * (m - n) + 1]][w[1]].op = "shift"
        BY <4>3 DEF Path
      <4>5. m - n \in 0 .. m /\ k - w[2] = m - n /\ w[2] \in 0 .. k
        BY <2>2, <4>2, <4>4
      <4>6. new[2 * (m - n) + 1] = st[2 * (m - n) + 1]
        BY <1>1, <4>5
      <4>7. QED
        BY <4>4, <4>5, <4>6
    <3>6. QED
      BY <3>4, <3>5
  <2>3. QED
    BY <2>1, <2>2
<1>5. QED
  BY <1>2, <1>3, <1>4 DEF Path

LEMMA StartPath ==
  ASSUME NEW items, HasItems(items), Start PROVE PathInv(items)'
<1>1. stack' = <<0>> /\ i' = 0
  BY DEF Start
<1>2. stack'[1] = 0 /\ items[0] = {}
  BY <1>1, ItemsOfTable
<1>3. Path(items, stack', 0)
  <2>1. \A k \in 0 .. 0 : stack'[2 * k + 1] = 0
    BY <1>2
  <2>2. QED
    BY <1>2, <2>1 DEF Path
<1>4. QED
  BY <1>1, <1>3 DEF PathInv

LEMMA ShiftPath ==
  ASSUME NEW items, HasItems(items), ShapeInv, SlotInv, PathInv(items), Shift
  PROVE  PathInv(items)'
<1>1. /\ TypeOK /\ status = "parsing" /\ tok \in Tokens /\ current_state \in States
      /\ Entry.op = "shift" /\ stack[Len(stack)] = current_state
      /\ Len(stack) = 2 * i + 1 /\ i \in Nat /\ stack \in Seq(Nat)
      /\ i' = i + 1 /\ Path(items, stack, i)
  BY SizeAssumption
  DEF ShapeInv, SlotInv, PathInv, Shift, Parsing, TypeOK, Actions, Tokens, Slots
<1>2. Entry \in Entries
  BY <1>1, TableAssumption DEF Entry
<1>3. Entry.arg \in States /\ Entry.arg \in Nat
  BY <1>1, <1>2 DEF Entries, States
<1>4. /\ \A k \in 1 .. Len(stack) : stack'[k] = stack[k]
      /\ stack'[Len(stack) + 2] = Entry.arg
  BY <1>1, <1>3, PushPair DEF Shift
<1>5. /\ \A k \in 1 .. 2 * i + 1 : stack'[k] = stack[k]
      /\ stack'[2 * i + 3] = Entry.arg /\ stack[2 * i + 1] = current_state
  BY <1>1, <1>4
<1>6. Path(items, stack', i + 1)
  BY <1>1, <1>3, <1>5, PathPush DEF Entry
<1>7. QED
  BY <1>1, <1>6 DEF PathInv

\* The goto of a reduction is in the table.
LEMMA ReducePath ==
  ASSUME NEW items, HasItems(items), NoEmptyRule,
         ShapeInv, SlotInv, PathInv(items), Reduce
  PROVE  PathInv(items)'
<1> DEFINE n == ArgCount
           m == i - n
<1>1. /\ n \in 1 .. i /\ i' = m + 1 /\ i \in Nat
      /\ Len(Remaining) = 2 * m + 1
      /\ \A k \in 1 .. Len(Remaining) : stack'[k] = stack[k]
      /\ stack'[Len(Remaining) + 2] = Goto
      /\ Remaining[Len(Remaining)] = stack[Len(Remaining)]
      /\ Parsing("reduce") /\ StackHoldsArgs
  BY ReduceMoves
<1>2. /\ Rule.token \in Tokens /\ Goto \in States /\ Remaining \in Seq(Nat)
      /\ Entry.arg \in DOMAIN Rules
  BY <1>1, ReduceFacts
<1>3. /\ TypeOK /\ status = "parsing" /\ Entry.op = "reduce"
      /\ tok \in Tokens /\ current_state \in States
      /\ stack[2 * i + 1] = current_state /\ Path(items, stack, i)
  BY <1>1, SizeAssumption
  DEF Parsing, ShapeInv, SlotInv, PathInv, TypeOK, Actions, Tokens
<1>4. m \in Nat /\ m \in 0 .. i /\ i \in 0 .. i
  <2>1. \A a \in Nat : \A b \in 1 .. a :
          a - b \in Nat /\ a - b \in 0 .. a /\ a \in 0 .. a
    OBVIOUS
  <2>2. n \in 1 .. i /\ i \in Nat
    BY <1>1
  <2> HIDE DEF n
  <2>3. QED
    BY <2>1, <2>2
<1>5. <<Rule.token, n>> \in items[stack[2 * i + 1]]
  BY <1>3, ItemsOfTable DEF Entry, Rule, ArgCount
<1>6. Table[stack[2 * m + 1]][Rule.token].op = "shift"
  <2>1. \A w \in items[stack[2 * i + 1]] :
          Table[stack[2 * (i - w[2]) + 1]][w[1]].op = "shift"
    BY <1>3, <1>4 DEF Path
  <2>2. Table[stack[2 * (i - n) + 1]][Rule.token].op = "shift"
    BY <2>1, <1>5
  <2>3. QED
    BY <2>2
<1>7. /\ Goto = Table[stack[2 * m + 1]][Rule.token].arg
      /\ stack'[2 * m + 3] = Goto
      /\ \A k \in 1 .. 2 * m + 1 : stack'[k] = stack[k]
  BY <1>1, <1>4 DEF Goto
<1>8. stack[2 * m + 1] \in States
  <2>1. 2 * m + 1 \in 1 .. Len(stack) /\ (2 * m + 1) % 2 = 1
    BY <1>1, <1>3, <1>4 DEF SlotInv
  <2>2. QED
    BY <2>1, <1>3 DEF ShapeInv, StackShape
<1>9. Path(items, stack, m)
  BY <1>3, <1>4 DEF Path
<1> HIDE DEF m
<1>10. Path(items, stack', m + 1)
  BY <1>2, <1>4, <1>6, <1>7, <1>8, <1>9, PathPush
<1>11. status' = "parsing"
  BY <1>3 DEF Reduce
<1>12. QED
  BY <1>1, <1>10 DEF PathInv

LEMMA StepPath ==
  ASSUME NEW items, HasItems(items), NoEmptyRule
  PROVE  ShapeInv /\ SlotInv /\ PathInv(items) /\ [Next]_vars => PathInv(items)'
<1> SUFFICES ASSUME ShapeInv, SlotInv, PathInv(items), [Next]_vars
             PROVE  PathInv(items)'
  OBVIOUS
<1>1. CASE Start
  BY <1>1, StartPath
<1>2. CASE Shift
  BY <1>2, ShiftPath
<1>3. CASE Reduce
  BY <1>3, ReducePath
<1>4. CASE Accept \/ LexError \/ SyntaxError \/ Unwind \/ Reject
  BY <1>4 DEF Accept, LexError, SyntaxError, Unwind, Reject, PathInv
<1>5. CASE UNCHANGED vars
  BY <1>5 DEF vars, PathInv
<1>6. QED
  BY <1>1, <1>2, <1>3, <1>4, <1>5 DEF Next, Step

\* In a state that accepts one symbol is left, and it covers the input.
LEMMA AcceptWhole ==
  ASSUME NEW items, AcceptsByGoto, AcceptsAtEnd,
         ShapeInv, SlotInv, RunInv, HeldInv, PathInv(items), Accept
  PROVE  AcceptedValueIsWholeInput'
<1>1. /\ TypeOK /\ status = "parsing" /\ Entry.op = "accept"
      /\ tok \in Tokens /\ current_state \in States /\ i \in Nat
      /\ Len(stack) = 2 * i + 1 /\ stack[2 * i + 1] = current_state
      /\ Path(items, stack, i) /\ StackShape
      /\ UNCHANGED <<value_table, input, parses>> /\ ret' = dest_idx
  BY SizeAssumption
  DEF Accept, Parsing, ShapeInv, SlotInv, PathInv, TypeOK, Actions, Tokens, Slots
<1>2. /\ tok = EOF
      /\ \A q \in States : Leads(q, current_state) => q = 0
  BY <1>1, AcceptsOfTable DEF Entry
<1>3. i > 0 /\ dest_idx = i - 1
  <2>1. ByGoto(current_state)
    BY <1>1, AcceptOfTable DEF Entry
  <2>2. QED
    BY <2>1, <1>1 DEF RunInv
<1>4. \A k \in 0 .. i : stack[2 * k + 1] \in States
  <2> TAKE k \in 0 .. i
  <2>1. 2 * k + 1 \in 1 .. Len(stack) /\ (2 * k + 1) % 2 = 1
    BY <1>1
  <2>2. QED
    BY <2>1, <1>1 DEF StackShape
<1>5. PICK e \in Nat : i = e + 1
  <2>1. i - 1 \in Nat /\ i = i - 1 + 1
    BY <1>1, <1>3
  <2>2. QED
    BY <2>1
<1>6. stack[2 * e + 1] = 0
  <2>1. i \in 1 .. i /\ 2 * i - 1 = 2 * e + 1 /\ e \in 0 .. i
    BY <1>5
  <2>2. Leads(stack[2 * e + 1], current_state)
    BY <2>1, <1>1 DEF Path
  <2>3. QED
    BY <2>1, <2>2, <1>2, <1>4
<1>7. e = 0
  <2> SUFFICES ASSUME e # 0 PROVE FALSE
    OBVIOUS
  <2>1. e \in 1 .. i /\ e - 1 \in 0 .. i /\ 2 * (e - 1) + 1 = 2 * e - 1
    BY <1>5
  <2>2. Leads(stack[2 * e - 1], 0) /\ stack[2 * e - 1] \in States
    BY <2>1, <1>1, <1>4, <1>6 DEF Path
  <2>3. QED
    BY <2>2, AcceptsOfTable DEF Leads
<1>8. StackHolds(value_table, token_table, parses, 1, Len(input) - 1)
  BY <1>1, <1>5, <1>7 DEF HeldInv
<1>9. value_table[0].val = Piece(parses, 0, Len(input) - 1)
  <2>1. PICK cut : /\ cut[0] = 0 /\ cut[1] = Len(input) - 1
                   /\ Pieces(value_table, token_table, parses, cut, 1)
    BY <1>8 DEF StackHolds
  <2>2. 1 \in 1 .. 1 /\ 1 - 1 = 0
    OBVIOUS
  <2>3. value_table[1 - 1].val = Piece(parses, cut[1 - 1], cut[1])
    BY <2>1, <2>2 DEF Pieces
  <2>4. QED
    BY <2>1, <2>2, <2>3
<1>10. ValueCount = Len(input) - 1
  <2>1. ~ (tok > EOF)
    BY <1>2 DEF EOF
  <2>2. QED
    BY <2>1, <1>1, CountValues
<1>11. ret' = 0 /\ ValueCount' = ValueCount
  BY <1>1, <1>3, <1>5, <1>7 DEF ValueCount
<1>12. QED
  BY <1>1, <1>9, <1>10, <1>11 DEF AcceptedValueIsWholeInput

LEMMA StepWhole ==
  ASSUME NEW items, AcceptsByGoto, AcceptsAtEnd
  PROVE  /\ ShapeInv /\ SlotInv /\ RunInv /\ HeldInv /\ PathInv(items)
         /\ AcceptedValueIsWholeInput /\ [Next]_vars
         => AcceptedValueIsWholeInput'
<1> SUFFICES ASSUME ShapeInv, SlotInv, RunInv, HeldInv, PathInv(items),
                    AcceptedValueIsWholeInput, [Next]_vars
             PROVE  AcceptedValueIsWholeInput'
  OBVIOUS
<1>1. CASE Accept
  BY <1>1, AcceptWhole
<1>2. CASE Start \/ Shift \/ Reduce \/ LexError \/ SyntaxError \/ Unwind \/ Reject
  <2>1. status' # "accepted"
    BY <1>2
    DEF Start, Shift, Reduce, LexError, SyntaxError, Unwind, Reject, Parsing
  <2>2. QED
    BY <2>1 DEF AcceptedValueIsWholeInput
<1>3. CASE UNCHANGED vars
  BY <1>3 DEF vars, AcceptedValueIsWholeInput, ValueCount
<1>4. QED
  BY <1>1, <1>2, <1>3 DEF Next, Step

(***************************************************************************)
(* What parser_parse_lr returns was built from the whole input, for every  *)
(* table of an LR automaton that has no empty rules: no value is lost,     *)
(* used twice or out of order on its way through the slots.                *)
(***************************************************************************)
THEOREM AcceptedIsWhole ==
  ASSUME NoEmptyRule, ValuesAreTokens, AcceptsByGoto, AcceptsAtEnd,
         NEW items, HasItems(items)
  PROVE  Spec => []AcceptedValueIsWholeInput
<1> DEFINE WholeInv == /\ ShapeInv /\ SlotInv /\ RunInv /\ HeldInv
                       /\ PathInv(items) /\ AcceptedValueIsWholeInput
<1>1. Init => WholeInv
  <2>1. Init => ShapeInv /\ SlotInv /\ RunInv
    BY InitShape, InitSlots, InitRun
  <2>2. Init => HeldInv /\ PathInv(items) /\ AcceptedValueIsWholeInput
    BY DEF Init, HeldInv, PathInv, AcceptedValueIsWholeInput
  <2>3. QED
    BY <2>1, <2>2
<1>2. WholeInv /\ [Next]_vars => WholeInv'
  BY StepShape, StepSlots, StepRun, StepHeld, StepPath, StepWhole
<1>3. WholeInv => AcceptedValueIsWholeInput
  OBVIOUS
<1>4. QED
  BY <1>1, <1>2, <1>3, PTL DEF Spec

-----------------------------------------------------------------------------
(***************************************************************************)
(* The language of the grammar.  The least number of a set of numbers      *)
(* stands for induction.                                                   *)
(***************************************************************************)
LEMMA LeastNat ==
  ASSUME NEW T, T \subseteq Nat, T # {}
  PROVE  \E x \in T : \A y \in T : x <= y
<1> DEFINE R == {z \in Nat \X Nat : z[1] < z[2]}
<1>1. IsWellFoundedOn(R, Nat)
  BY NatLessThanWellFounded DEF OpToRel
<1>2. PICK x \in T : \A y \in T : ~ (<<y, x>> \in R)
  <2> HIDE DEF R
  <2>1. QED
    BY <1>1, WFMin
<1>3. \A a, b \in Nat : ~ (<<b, a>> \in R) => a <= b
  <2> TAKE a, b \in Nat
  <2>1. b < a => <<b, a>> \in R
    OBVIOUS
  <2>2. ~ (b < a) => a <= b
    OBVIOUS
  <2>3. QED
    BY <2>1, <2>2
<1> HIDE DEF R
<1>4. QED
  BY <1>2, <1>3

LEMMA Lower ==
  \A n1, n2 \in Nat : n2 <= n1 => n1 - n2 \in Nat /\ n1 - n2 <= n1
  OBVIOUS

\* Four and five texts joined in two ways.
Four(x, y, v, u) == (x \o (y \o v)) \o u = (x \o y) \o (v \o u)
Five(x, y, a, v, u) == (x \o ((y \o a) \o v)) \o u = ((x \o y) \o a) \o (v \o u)

LEMMA JoinFour ==
  ASSUME NEW x \in Text, NEW y \in Text, NEW v \in Text, NEW u \in Text
  PROVE  Four(x, y, v, u)
  BY DEF Four, Text

LEMMA JoinFive ==
  ASSUME NEW x \in Text, NEW y \in Text, NEW a \in Text, NEW v \in Text,
         NEW u \in Text
  PROVE  Five(x, y, a, v, u)
  BY DEF Five

LEMMA BetweenIsText ==
  ASSUME NEW S, NEW w \in Seq(S), NEW a \in Nat, NEW b \in Nat,
         a <= b, b <= Len(w), \A k \in 1 .. b : w[k] \in Terminals
  PROVE  /\ Between(w, a, b) \in Text
         /\ Len(Between(w, a, b)) = b - a
         /\ \A k \in 1 .. b - a : Between(w, a, b)[k] = w[a + k]
<1>1. b - a \in Nat
  OBVIOUS
<1>2. ASSUME NEW k \in 1 .. b - a PROVE w[a + k] \in Terminals
  <2>1. a + k \in 1 .. b
    OBVIOUS
  <2>2. QED
    BY <2>1
<1>3. Between(w, a, b) = [k \in 1 .. b - a |-> w[a + k]]
  BY DEF Between
<1>4. QED
  BY <1>1, <1>2, <1>3 DEF Text

LEMMA BetweenJoin ==
  ASSUME NEW S, NEW w \in Seq(S), NEW a \in Nat, NEW b \in Nat, NEW c \in Nat,
         a <= b, b <= c, c <= Len(w), \A k \in 1 .. c : w[k] \in Terminals
  PROVE  Between(w, a, b) \o Between(w, b, c) = Between(w, a, c)
<1> DEFINE x == Between(w, a, b)
           y == Between(w, b, c)
           z == Between(w, a, c)
<1>0. b <= Len(w) /\ \A k \in 1 .. b : w[k] \in Terminals
  <2>1. \A k \in 1 .. b : k \in 1 .. c
    OBVIOUS
  <2>2. Len(w) \in Nat
    BY LenProperties
  <2>3. QED
    BY <2>1, <2>2
<1>1. /\ x \in Text /\ Len(x) = b - a
      /\ \A k \in 1 .. b - a : x[k] = w[a + k]
  BY <1>0, BetweenIsText
<1>2. /\ y \in Text /\ Len(y) = c - b
      /\ \A k \in 1 .. c - b : y[k] = w[b + k]
  BY BetweenIsText
<1>3. /\ z \in Text /\ Len(z) = c - a
      /\ \A k \in 1 .. c - a : z[k] = w[a + k]
  BY BetweenIsText
<1> HIDE DEF x, y, z
<1>4. /\ x \o y \in Text /\ Len(x \o y) = Len(x) + Len(y)
      /\ \A k \in 1 .. Len(x) + Len(y) :
           (x \o y)[k] = IF k <= Len(x) THEN x[k] ELSE y[k - Len(x)]
  BY <1>1, <1>2, ConcatProperties DEF Text
<1>5. Len(x \o y) = Len(z)
  BY <1>1, <1>2, <1>3, <1>4
<1>6. ASSUME NEW k \in 1 .. Len(z) PROVE (x \o y)[k] = z[k]
  <2>1. k \in 1 .. c - a /\ k \in 1 .. Len(x) + Len(y)
    BY <1>3, <1>4, <1>5
  <2>2. CASE k <= b - a
    <3>1. k \in 1 .. b - a
      BY <2>1, <2>2
    <3>2. QED
      BY <1>1, <1>3, <1>4, <2>1, <2>2, <3>1
  <2>3. CASE ~ (k <= b - a)
    <3>1. k - (b - a) \in 1 .. c - b /\ b + (k - (b - a)) = a + k
      BY <2>1, <2>3
    <3>2. (x \o y)[k] = y[k - (b - a)]
      BY <1>1, <1>4, <2>1, <2>3
    <3>3. QED
      BY <1>2, <1>3, <2>1, <3>1, <3>2
  <2>4. QED
    BY <2>2, <2>3
<1>7. x \o y = z
  BY <1>3, <1>4, <1>5, <1>6, SeqEqual DEF Text
<1>8. QED
  BY <1>7 DEF x, y, z

LEMMA BetweenAppend ==
  ASSUME NEW S, NEW w \in Seq(S), NEW t \in S, NEW a \in Nat, NEW b \in Nat,
         a <= b, b <= Len(w)
  PROVE  Between(Append(w, t), a, b) = Between(w, a, b)
<1>1. ASSUME NEW k \in 1 .. b - a PROVE Append(w, t)[a + k] = w[a + k]
  <2>1. a + k \in 1 .. Len(w)
    OBVIOUS
  <2>2. QED
    BY <2>1, AppendProperties
<1>2. QED
  BY <1>1 DEF Between

-----------------------------------------------------------------------------
LEMMA BodiesFacts ==
  ASSUME NEW bodies, IsBodies(bodies)
  PROVE  /\ DOMAIN bodies = 0 .. Len(Rules)
         /\ DOMAIN Rules = 1 .. Len(Rules) /\ Len(Rules) \in Nat
         /\ \A r \in DOMAIN bodies :
              /\ bodies[r] \in Seq(Tokens \ {EOF}) /\ Len(bodies[r]) \in Nat
              /\ DOMAIN bodies[r] = 1 .. Len(bodies[r])
              /\ \A d \in 1 .. Len(bodies[r]) : bodies[r][d] \in Tokens \ {EOF}
         /\ \A r \in 1 .. Len(Rules) :
              /\ Len(bodies[r]) = Rules[r].tok_n
              /\ Rules[r].token \in ActionTokenN .. TokenN - 1
              /\ Rules[r].token \in Tokens
         /\ Len(bodies[0]) = 1 /\ 0 \in DOMAIN bodies
<1>1. /\ bodies \in [0 .. Len(Rules) -> Seq(Tokens \ {EOF})]
      /\ Len(bodies[0]) = 1
      /\ \A r \in DOMAIN Rules : Len(bodies[r]) = Rules[r].tok_n
  BY TableDomain, SizeAssumption DEF IsBodies, States
<1>2. /\ DOMAIN Rules = 1 .. Len(Rules) /\ Len(Rules) \in Nat
      /\ \A r \in 1 .. Len(Rules) :
           Rules[r] \in [token : ActionTokenN .. TokenN - 1, tok_n : Nat]
  BY RuleAssumption, LenProperties, ElementOfSeq
<1>3. \A r \in 1 .. Len(Rules) : Rules[r].token \in Tokens
  BY <1>2, SizeAssumption DEF Tokens
<1>4. ASSUME NEW r \in DOMAIN bodies
      PROVE  /\ bodies[r] \in Seq(Tokens \ {EOF}) /\ Len(bodies[r]) \in Nat
             /\ DOMAIN bodies[r] = 1 .. Len(bodies[r])
             /\ \A d \in 1 .. Len(bodies[r]) : bodies[r][d] \in Tokens \ {EOF}
  <2>1. bodies[r] \in Seq(Tokens \ {EOF})
    BY <1>1
  <2>2. QED
    BY <2>1, LenProperties, ElementOfSeq
<1>5. DOMAIN bodies = 0 .. Len(Rules) /\ 0 \in DOMAIN bodies
  BY <1>1, <1>2
<1>6. ASSUME NEW r \in 1 .. Len(Rules)
      PROVE  /\ Len(bodies[r]) = Rules[r].tok_n
             /\ Rules[r].token \in ActionTokenN .. TokenN - 1
             /\ Rules[r].token \in Tokens
  BY <1>1, <1>2, <1>3
<1>7. QED
  BY <1>1, <1>2, <1>4, <1>5, <1>6

\* The productions, as rules of derivation.
LEMMA DeriveToken ==
  ASSUME NEW bodies, NEW t \in Terminals
  PROVE  DerivesToken(bodies, t, <<t>>)
  BY DEF DerivesToken, IsLanguage

LEMMA DeriveNone ==
  ASSUME NEW bodies, NEW r \in DOMAIN bodies
  PROVE  Derives(bodies, <<r, 0>>, <<>>)
  BY DEF Derives, IsLanguage

LEMMA DeriveMore ==
  ASSUME NEW bodies, NEW r \in DOMAIN bodies, NEW d \in DOMAIN bodies[r],
         NEW x, NEW y, Derives(bodies, <<r, d - 1>>, x),
         DerivesToken(bodies, bodies[r][d], y)
  PROVE  Derives(bodies, <<r, d>>, x \o y)
  BY DEF Derives, DerivesToken, IsLanguage

LEMMA DeriveRule ==
  ASSUME NEW bodies, NEW r \in DOMAIN Rules, NEW x,
         Derives(bodies, <<r, Rules[r].tok_n>>, x)
  PROVE  DerivesToken(bodies, Rules[r].token, x)
  BY DEF Derives, DerivesToken, IsLanguage

HasWord(bodies, t) == \E y \in Text : DerivesToken(bodies, t, y)

LEMMA DeriveRest ==
  ASSUME NEW bodies, IsBodies(bodies), NEW r \in DOMAIN bodies, NEW d \in Nat,
         d <= Len(bodies[r]), NEW x \in Text, Derives(bodies, <<r, d>>, x),
         \A e \in 1 .. Len(bodies[r]) : HasWord(bodies, bodies[r][e])
  PROVE  \E v \in Text : Derives(bodies, <<r, Len(bodies[r])>>, x \o v)
<1> DEFINE l == Len(bodies[r])
           Fails(e) == ~ \E v \in Text : Derives(bodies, <<r, e>>, x \o v)
           T == {e \in Nat : d <= e /\ e <= l /\ Fails(e)}
<1>1. l \in Nat /\ DOMAIN bodies[r] = 1 .. l
  BY BodiesFacts
<1>2. <<>> \in Text /\ x \o <<>> = x
  BY EmptySeq, ConcatEmptySeq DEF Text
<1>3. ~ Fails(d)
  BY <1>2
<1>4. SUFFICES ASSUME Fails(l) PROVE FALSE
  OBVIOUS
<1>5. T \subseteq Nat /\ l \in T
  BY <1>1, <1>4
<1>6. PICK e \in T : \A f \in T : e <= f
  <2> HIDE DEF T
  <2>1. QED
    BY <1>5, LeastNat
<1>7. e \in Nat /\ d <= e /\ e <= l /\ Fails(e)
  OBVIOUS
<1>8. e # d
  BY <1>3, <1>7
<1>9. e - 1 \in Nat /\ d <= e - 1 /\ e - 1 <= l /\ e \in 1 .. l /\ ~ (e <= e - 1)
  BY <1>1, <1>7, <1>8
<1>10. ~ Fails(e - 1)
  <2>1. Fails(e - 1) => e - 1 \in T
    BY <1>9
  <2>2. QED
    BY <2>1, <1>6, <1>9
<1>11. PICK v \in Text : Derives(bodies, <<r, e - 1>>, x \o v)
  BY <1>10
<1>12. PICK y \in Text : DerivesToken(bodies, bodies[r][e], y)
  BY <1>9 DEF HasWord
<1>13. Derives(bodies, <<r, e>>, (x \o v) \o y)
  BY <1>1, <1>9, <1>11, <1>12, DeriveMore
<1>14. (x \o v) \o y = x \o (v \o y) /\ v \o y \in Text
  BY ConcatAssociative, ConcatProperties DEF Text
<1>15. QED
  BY <1>7, <1>13, <1>14

LEMMA EveryTokenHasWord ==
  ASSUME NEW bodies, IsBodies(bodies), Productive(bodies)
  PROVE  \A t \in Tokens \ {EOF} : HasWord(bodies, t)
<1> DEFINE P == {t \in Tokens : HasWord(bodies, t)}
<1>1. DOMAIN Table[0] = Tokens
  BY TableDomain, SizeAssumption DEF States
<1>2. 1 .. ActionTokenN - 1 \subseteq P
  <2> SUFFICES ASSUME NEW t \in 1 .. ActionTokenN - 1 PROVE t \in P
    OBVIOUS
  <2>1. t \in Terminals /\ t \in Tokens
    BY SizeAssumption DEF Terminals, Actions, Tokens, EOF
  <2>2. <<t>> \in Text
    BY <2>1 DEF Text
  <2>3. QED
    BY <2>1, <2>2, DeriveToken DEF HasWord
<1>3. ASSUME NEW r \in DOMAIN Rules, \A d \in DOMAIN bodies[r] : bodies[r][d] \in P
      PROVE  Rules[r].token \in P
  <2>1. /\ r \in DOMAIN bodies /\ Rules[r].token \in Tokens
        /\ Len(bodies[r]) = Rules[r].tok_n /\ Len(bodies[r]) \in Nat
        /\ DOMAIN bodies[r] = 1 .. Len(bodies[r])
    BY BodiesFacts
  <2>2. Derives(bodies, <<r, 0>>, <<>>) /\ <<>> \in Text
    BY <2>1, DeriveNone, EmptySeq DEF Text
  <2>3. \A e \in 1 .. Len(bodies[r]) : HasWord(bodies, bodies[r][e])
    BY <1>3, <2>1
  <2> HIDE DEF P
  <2>4. 0 \in Nat /\ 0 <= Len(bodies[r])
    BY <2>1
  <2>5. PICK v \in Text : Derives(bodies, <<r, Len(bodies[r])>>, <<>> \o v)
    BY <2>1, <2>2, <2>3, <2>4, DeriveRest
  <2>6. <<>> \o v \in Text
    BY <2>2, ConcatProperties DEF Text
  <2>7. HasWord(bodies, Rules[r].token)
    BY <2>1, <2>5, <2>6, DeriveRule DEF HasWord
  <2>8. QED
    BY <2>1, <2>7 DEF P
<1>4. (DOMAIN Table[0]) \ {EOF} \subseteq P
  <2>1. P \in SUBSET (DOMAIN Table[0])
    BY <1>1
  <2> HIDE DEF P
  <2>2. QED
    BY <1>2, <1>3, <2>1 DEF Productive
<1>5. QED
  BY <1>1, <1>4

-----------------------------------------------------------------------------
(***************************************************************************)
(* What the parser has read, by the height of the stack: q[k] is the state *)
(* at height k and cut[k] the tokens read before it was entered.  An item  *)
(* with the dot behind d symbols was begun d symbols further down, and     *)
(* what was read since then is derived by these d symbols; whatever        *)
(* completes a production begun at a height can be completed to a sentence.*)
(***************************************************************************)
CanFollow(bodies, r, w) ==
  \A a \in Text : Derives(bodies, <<r, Len(bodies[r])>>, a) =>
    \E v \in Text : Sentence(bodies, (w \o a) \o v)

ItemRead(items, bodies, q, w, cut, k, m) ==
  /\ m[2] <= k
  /\ <<m[1], 0>> \in items[q[k - m[2]]]
  /\ Derives(bodies, m, Between(w, cut[k - m[2]], cut[k]))

Reading(items, bodies, q, w, cut, n) ==
  /\ q \in [Nat -> States] /\ cut \in [Nat -> Nat]
  /\ q[0] = 0 /\ cut[0] = 0
  /\ \A k \in 1 .. n : q[k] # 0
  /\ \A j, k \in 0 .. n : j <= k => cut[j] <= cut[k]
  /\ \A k \in 0 .. n : \A m \in items[q[k]] :
       /\ ItemRead(items, bodies, q, w, cut, k, m)
       /\ m[2] = 0 => CanFollow(bodies, m[1], Between(w, 0, cut[k]))

LEMMA ItemReadFrom ==
  ASSUME NEW items, NEW bodies, NEW q, NEW w, NEW cut, NEW k, NEW m, NEW h,
         h = k - m[2], m[2] <= k, <<m[1], 0>> \in items[q[h]],
         Derives(bodies, m, Between(w, cut[h], cut[k]))
  PROVE  ItemRead(items, bodies, q, w, cut, k, m)
  BY DEF ItemRead

LEMMA ItemFacts ==
  ASSUME NEW items, NEW bodies, IsBodies(bodies), HasProductions(items, bodies),
         NEW s \in States, NEW m \in items[s]
  PROVE  /\ m[1] \in 0 .. Len(Rules) /\ m[1] \in DOMAIN bodies
         /\ m[2] \in Nat /\ m[2] <= Len(bodies[m[1]])
         /\ m = <<m[1], m[2]>>
<1>1. items[s] \in SUBSET Items(bodies)
  BY TableDomain DEF HasProductions
<1>2. m \in (0 .. Len(Rules)) \X Nat /\ m[2] <= Len(bodies[m[1]])
  BY <1>1 DEF Items
<1>3. DOMAIN bodies = 0 .. Len(Rules)
  BY BodiesFacts
<1>4. QED
  BY <1>2, <1>3

LEMMA ProductionsOfTable ==
  ASSUME NEW items, NEW bodies, HasProductions(items, bodies), NEW s \in States
  PROVE  /\ items[s] # {}
         /\ <<0, 0>> \in items[s] => s = 0
         /\ s = 0 => \A m \in items[s] : m[2] = 0
         /\ \A m \in items[s] : m[1] > 0 /\ m[2] = 0 =>
              Table[s][Rules[m[1]].token].op = "shift"
         /\ \A t \in Tokens :
              /\ Table[s][t].op = "shift" =>
                   /\ Table[s][t].arg # 0
                   /\ \A m \in items[Table[s][t].arg] : m[2] > 0 =>
                        /\ bodies[m[1]][m[2]] = t
                        /\ <<m[1], m[2] - 1>> \in items[s]
              /\ Table[s][t].op = "reduce" =>
                   <<Table[s][t].arg, Rules[Table[s][t].arg].tok_n>> \in items[s]
              /\ Table[s][t].op = "accept" => <<0, 1>> \in items[s]
  BY TableDomain DEF HasProductions

LEMMA ShiftItems ==
  ASSUME NEW items, NEW bodies, HasProductions(items, bodies), NEW s \in States,
         NEW t \in Tokens, Table[s][t].op = "shift"
  PROVE  /\ Table[s][t].arg # 0 /\ Table[s][t].arg \in States
         /\ \A m \in items[Table[s][t].arg] : m[2] > 0 =>
              bodies[m[1]][m[2]] = t /\ <<m[1], m[2] - 1>> \in items[s]
<1>1. Table[s][t] \in Entries
  BY TableAssumption
<1>2. Table[s][t].arg \in States
  BY <1>1 DEF Entries
<1>3. QED
  <2>1. s \in DOMAIN Table /\ t \in DOMAIN Table[s]
    BY TableDomain
  <2>2. /\ Table[s][t].arg # 0
        /\ \A m \in items[Table[s][t].arg] : m[2] > 0 =>
             bodies[m[1]][m[2]] = t /\ <<m[1], m[2] - 1>> \in items[s]
    BY <2>1, Zenon DEF HasProductions
  <2>3. QED
    BY <1>2, <2>2

\* What is called for can follow what was read of the production that calls.
LEMMA CalledFollows ==
  ASSUME NEW bodies, IsBodies(bodies), \A t \in Tokens \ {EOF} : HasWord(bodies, t),
         NEW r \in DOMAIN bodies, NEW d \in Nat, d < Len(bodies[r]),
         NEW c \in DOMAIN Rules, bodies[r][d + 1] = Rules[c].token,
         NEW x \in Text, NEW y \in Text,
         Derives(bodies, <<r, d>>, y), CanFollow(bodies, r, x)
  PROVE  CanFollow(bodies, c, x \o y)
<1> SUFFICES ASSUME NEW a \in Text, Derives(bodies, <<c, Len(bodies[c])>>, a)
             PROVE  \E v \in Text : Sentence(bodies, ((x \o y) \o a) \o v)
  BY DEF CanFollow
<1>1. /\ Len(bodies[c]) = Rules[c].tok_n /\ Len(bodies[r]) \in Nat
      /\ DOMAIN bodies[r] = 1 .. Len(bodies[r])
      /\ \A e \in 1 .. Len(bodies[r]) : HasWord(bodies, bodies[r][e])
  BY BodiesFacts
<1>2. DerivesToken(bodies, Rules[c].token, a)
  BY <1>1, DeriveRule
<1>3. d + 1 \in DOMAIN bodies[r] /\ (d + 1) - 1 = d /\ d + 1 \in Nat
      /\ d + 1 <= Len(bodies[r])
  BY <1>1
<1>4. Derives(bodies, <<r, d + 1>>, y \o a)
  BY <1>2, <1>3, DeriveMore
<1>5. y \o a \in Text
  BY ConcatProperties DEF Text
<1>6. PICK v \in Text : Derives(bodies, <<r, Len(bodies[r])>>, (y \o a) \o v)
  BY <1>1, <1>3, <1>4, <1>5, DeriveRest
<1>7. (y \o a) \o v \in Text
  BY <1>5, ConcatProperties DEF Text
<1>8. PICK u \in Text : Sentence(bodies, (x \o ((y \o a) \o v)) \o u)
  BY <1>6, <1>7 DEF CanFollow
<1>9. v \o u \in Text
  BY ConcatProperties DEF Text
<1>10. (x \o ((y \o a) \o v)) \o u = ((x \o y) \o a) \o (v \o u)
  <2>1. Five(x, y, a, v, u)
    BY JoinFive
  <2>2. QED
    BY <2>1, Zenon DEF Five
<1>11. QED
  BY <1>8, <1>9, <1>10

LEMMA Followed ==
  ASSUME NEW items, NEW bodies, IsBodies(bodies), HasProductions(items, bodies),
         Grounded(items, bodies), \A t \in Tokens \ {EOF} : HasWord(bodies, t),
         NEW S, NEW w \in Seq(S), NEW q, NEW cut \in [Nat -> Nat], NEW k \in Nat,
         NEW s \in States, cut[k] <= Len(w),
         \A j \in 0 .. k : cut[j] <= cut[k],
         \A j \in 1 .. cut[k] : w[j] \in Terminals,
         \A m \in items[s] : ItemRead(items, bodies, q, w, cut, k, m),
         \A m \in items[s] : m[2] > 0 \/ m[1] = 0 =>
           CanFollow(bodies, m[1], Between(w, 0, cut[k - m[2]]))
  PROVE  \A m \in items[s] :
           CanFollow(bodies, m[1], Between(w, 0, cut[k - m[2]]))
<1> DEFINE G == {m \in items[s] :
                   CanFollow(bodies, m[1], Between(w, 0, cut[k - m[2]]))}
<1>1. \A m \in items[s] : m[2] > 0 \/ m[1] = 0 => m \in G
  OBVIOUS
<1>2. ASSUME NEW m \in G, NEW c \in items[s], CallsFor(bodies, m, c)
      PROVE  c \in G
  <2>1. /\ c[1] > 0 /\ c[2] = 0 /\ m[2] < Len(bodies[m[1]])
        /\ bodies[m[1]][m[2] + 1] = Rules[c[1]].token
    BY <1>2 DEF CallsFor
  <2>2. m \in items[s] /\ CanFollow(bodies, m[1], Between(w, 0, cut[k - m[2]]))
    OBVIOUS
  <2>3. /\ m[1] \in DOMAIN bodies /\ m[2] \in Nat /\ m = <<m[1], m[2]>>
        /\ c[1] \in DOMAIN Rules
    <3>1. c[1] \in 0 .. Len(Rules)
      BY <1>2, ItemFacts
    <3>2. DOMAIN Rules = 1 .. Len(Rules) /\ Len(Rules) \in Nat
      BY BodiesFacts
    <3>3. c[1] \in DOMAIN Rules
      <4>1. \A l \in Nat : \A e \in 0 .. l : e > 0 => e \in 1 .. l
        OBVIOUS
      <4>2. QED
        BY <4>1, <2>1, <3>1, <3>2
    <3>4. QED
      BY <2>2, <3>3, ItemFacts
  <2>4. /\ m[2] <= k
        /\ Derives(bodies, m, Between(w, cut[k - m[2]], cut[k]))
    BY <2>2 DEF ItemRead
  <2>5. PICK h \in Nat : h = k - m[2] /\ h \in 0 .. k
    <3>1. PICK h \in Nat : h = k - m[2] /\ h <= k
      BY Lower, <2>3, <2>4
    <3>2. h \in 0 .. k
      BY ONLY <3>1, h \in Nat, k \in Nat
    <3>3. QED
      BY <3>1, <3>2
  <2>6. cut[h] \in Nat /\ cut[k] \in Nat /\ cut[h] <= cut[k] /\ cut[h] <= Len(w)
        /\ 0 <= cut[h] /\ 0 \in Nat
    <3>1. cut[h] \in Nat /\ cut[k] \in Nat /\ cut[h] <= cut[k] /\ Len(w) \in Nat
      BY <2>5, LenProperties
    <3>2. QED
      BY <3>1
  <2>7. \A j \in 1 .. cut[h] : w[j] \in Terminals
    <3>1. \A n1, n2 \in Nat : n1 <= n2 => 1 .. n1 \subseteq 1 .. n2
      BY ONLY TRUE
    <3>2. QED
      BY <2>6, <3>1
  <2>8. /\ Between(w, 0, cut[h]) \in Text /\ Between(w, cut[h], cut[k]) \in Text
        /\ Between(w, 0, cut[h]) \o Between(w, cut[h], cut[k]) = Between(w, 0, cut[k])
    BY <2>6, <2>7, BetweenIsText, BetweenJoin
  <2>9. /\ Derives(bodies, <<m[1], m[2]>>, Between(w, cut[h], cut[k]))
        /\ CanFollow(bodies, m[1], Between(w, 0, cut[h]))
    BY <2>2, <2>3, <2>4, <2>5
  <2> HIDE DEF G
  <2>10. CanFollow(bodies, c[1],
                   Between(w, 0, cut[h]) \o Between(w, cut[h], cut[k]))
    BY <2>1, <2>3, <2>8, <2>9, CalledFollows
  <2>11. k - c[2] = k
    BY <2>1
  <2>12. QED
    BY <1>2, <2>8, <2>10, <2>11 DEF G
<1>3. G = items[s]
  <2>1. G \in SUBSET items[s] /\ s \in DOMAIN Table
    BY TableDomain
  <2> HIDE DEF G
  <2>2. QED
    BY <1>1, <1>2, <2>1 DEF Grounded
<1>4. QED
  BY <1>3

\* A height more, over a symbol that derives what was read for it.
LEMMA ReadingPush ==
  ASSUME NEW items, NEW bodies, IsBodies(bodies), HasProductions(items, bodies),
         Grounded(items, bodies), \A t \in Tokens \ {EOF} : HasWord(bodies, t),
         NEW S, NEW w \in Seq(S), NEW q, NEW cut, NEW n \in Nat,
         Reading(items, bodies, q, w, cut, n),
         NEW t \in Tokens, Table[q[n]][t].op = "shift",
         NEW b \in Nat, cut[n] <= b, b <= Len(w),
         \A j \in 1 .. b : w[j] \in Terminals,
         DerivesToken(bodies, t, Between(w, cut[n], b))
  PROVE  Reading(items, bodies, [q EXCEPT ![n + 1] = Table[q[n]][t].arg], w,
                 [cut EXCEPT ![n + 1] = b], n + 1)
<1>0. PICK l \in Nat : l = n + 1
  OBVIOUS
<1> DEFINE p == Table[q[n]][t].arg
           q2 == [q EXCEPT ![l] = p]
           cut2 == [cut EXCEPT ![l] = b]
<1>1. /\ q \in [Nat -> States] /\ cut \in [Nat -> Nat]
      /\ q[0] = 0 /\ cut[0] = 0
      /\ \A k \in 1 .. n : q[k] # 0
      /\ \A j, k \in 0 .. n : j <= k => cut[j] <= cut[k]
      /\ \A k \in 0 .. n : \A m \in items[q[k]] :
           /\ ItemRead(items, bodies, q, w, cut, k, m)
           /\ m[2] = 0 => CanFollow(bodies, m[1], Between(w, 0, cut[k]))
  BY DEF Reading
<1>2. q[n] \in States /\ Len(w) \in Nat
  BY <1>1, LenProperties
<1>3. /\ p \in States /\ p # 0
      /\ \A m \in items[p] : m[2] > 0 =>
           bodies[m[1]][m[2]] = t /\ <<m[1], m[2] - 1>> \in items[q[n]]
  BY <1>2, ShiftItems
<1>4. /\ q2 \in [Nat -> States] /\ cut2 \in [Nat -> Nat]
      /\ q2[l] = p /\ cut2[l] = b
      /\ \A k \in 0 .. n : q2[k] = q[k] /\ cut2[k] = cut[k]
      /\ q2[0] = 0 /\ cut2[0] = 0
  <2> HIDE DEF p
  <2>1. l # 0 /\ 0 \in Nat /\ \A k \in 0 .. n : k # l /\ k \in Nat
    BY <1>0
  <2>2. /\ q2 \in [Nat -> States] /\ q2[l] = p
        /\ \A k \in Nat : k # l => q2[k] = q[k]
    BY <1>1, <1>2, <1>3
  <2>3. /\ cut2 \in [Nat -> Nat] /\ cut2[l] = b
        /\ \A k \in Nat : k # l => cut2[k] = cut[k]
    BY <1>1, <1>2
  <2> HIDE DEF q2, cut2
  <2>4. QED
    BY <1>1, <2>1, <2>2, <2>3
<1> HIDE DEF p, q2, cut2
<1>5. /\ \A k \in 0 .. l : k \in 0 .. n \/ k = l
      /\ \A k \in 1 .. l : (k \in 1 .. n /\ k \in 0 .. n) \/ k = l
      /\ n \in 0 .. n
      /\ \A k \in 0 .. n : k <= n /\ k \in Nat /\ ~ (l <= k)
      /\ l # 0 /\ 0 \in Nat /\ l \in 0 .. l /\ \A k \in 0 .. l : k <= l
  BY <1>0
<1>6. \A k \in 1 .. l : q2[k] # 0
  BY <1>1, <1>3, <1>4, <1>5
<1>7. \A k \in 0 .. n : cut[k] \in Nat /\ cut[k] <= cut[n] /\ cut[k] <= b
  <2>1. \A n1, n2 \in Nat : n1 <= n2 /\ n2 <= b => n1 <= b
    OBVIOUS
  <2>2. QED
    BY <2>1, <1>1, <1>5
<1>8. \A j, k \in 0 .. l : j <= k => cut2[j] <= cut2[k]
  <2> TAKE j, k \in 0 .. l
  <2>1. CASE j \in 0 .. n /\ k \in 0 .. n
    BY <2>1, <1>1, <1>4
  <2>2. CASE j \in 0 .. n /\ k = l
    BY <2>2, <1>4, <1>7
  <2>3. CASE j = l /\ k \in 0 .. n
    BY <2>3, <1>5
  <2>4. CASE j = l /\ k = l
    BY <2>4, <1>4
  <2>5. QED
    BY <1>5, <2>1, <2>2, <2>3, <2>4
<1>9. ASSUME NEW k \in 0 .. n, NEW m \in items[q2[k]]
      PROVE  /\ ItemRead(items, bodies, q2, w, cut2, k, m)
             /\ m[2] = 0 => CanFollow(bodies, m[1], Between(w, 0, cut2[k]))
  <2>1. /\ m \in items[q[k]] /\ cut2[k] = cut[k] /\ q[k] \in States
    BY <1>1, <1>4, <1>5
  <2>2. /\ ItemRead(items, bodies, q, w, cut, k, m)
        /\ m[2] = 0 => CanFollow(bodies, m[1], Between(w, 0, cut[k]))
    BY <1>1, <2>1
  <2>3. m[2] \in Nat /\ m[2] <= k
    BY <2>1, <2>2, ItemFacts DEF ItemRead
  <2>4. k - m[2] \in 0 .. n
    <3>1. \A n1, n2 \in Nat : n2 <= n1 /\ n1 <= n => n1 - n2 \in 0 .. n
      OBVIOUS
    <3>2. QED
      BY <3>1, <2>3, <1>5
  <2>5. q2[k - m[2]] = q[k - m[2]] /\ cut2[k - m[2]] = cut[k - m[2]]
    BY <2>4, <1>4
  <2>6. ItemRead(items, bodies, q2, w, cut2, k, m)
    BY <2>1, <2>2, <2>5 DEF ItemRead
  <2>7. QED
    BY <2>1, <2>2, <2>6
<1>10. ASSUME NEW m \in items[p]
       PROVE  /\ ItemRead(items, bodies, q2, w, cut2, l, m)
              /\ m[2] > 0 \/ m[1] = 0 =>
                   CanFollow(bodies, m[1], Between(w, 0, cut2[l - m[2]]))
  <2>1. /\ m[1] \in DOMAIN bodies /\ m[2] \in Nat /\ m = <<m[1], m[2]>>
        /\ m[2] <= Len(bodies[m[1]])
    BY <1>3, ItemFacts
  <2>2. CASE m[2] = 0
    <3>1. m[1] # 0
      BY <2>1, <2>2, <1>3, ProductionsOfTable
    <3>2. l - m[2] = l /\ m[2] <= l
      BY <2>2
    <3>3. Between(w, b, b) = <<>>
      <4>1. b - b = 0 /\ 1 .. 0 = {}
        OBVIOUS
      <4>2. QED
        BY <4>1 DEF Between
    <3>4. Derives(bodies, m, <<>>)
      BY <2>1, <2>2, DeriveNone
    <3>5. ItemRead(items, bodies, q2, w, cut2, l, m)
      <4>1. <<m[1], 0>> \in items[p]
        BY <2>1, <2>2
      <4>2. <<m[1], 0>> \in items[q2[l]] /\ cut2[l] = b
        BY <1>4, <4>1
      <4>3. Derives(bodies, m, Between(w, cut2[l], cut2[l]))
        BY <3>3, <3>4, <4>2
      <4>4. QED
        BY <3>2, <4>2, <4>3, ItemReadFrom
    <3>6. QED
      BY <2>2, <3>1, <3>5
  <2>3. CASE m[2] # 0
    <3>1. PICK e \in Nat : m[2] = e + 1 /\ m[2] - 1 = e
      <4>1. \A n1 \in Nat : n1 # 0 => n1 - 1 \in Nat /\ n1 = n1 - 1 + 1
        OBVIOUS
      <4>2. QED
        BY <4>1, <2>1, <2>3
    <3>2. bodies[m[1]][m[2]] = t /\ <<m[1], e>> \in items[q[n]]
      <4>1. m[2] > 0
        BY <2>1, <2>3
      <4>2. QED
        BY <4>1, <3>1, <1>3
    <3>3. /\ e <= n /\ <<m[1], 0>> \in items[q[n - e]]
          /\ Derives(bodies, <<m[1], e>>, Between(w, cut[n - e], cut[n]))
      BY <1>1, <1>5, <3>2 DEF ItemRead
    <3>4. PICK h \in Nat : h = n - e /\ h = l - m[2] /\ h \in 0 .. n
      <4>1. \A n1 \in Nat : n1 <= n => /\ n - n1 \in Nat
                                       /\ n - n1 = l - (n1 + 1)
                                       /\ n - n1 \in 0 .. n
        BY <1>0
      <4>2. QED
        BY <4>1, <3>1, <3>3
    <3>5. m[2] \in DOMAIN bodies[m[1]]
      <4>1. DOMAIN bodies[m[1]] = 1 .. Len(bodies[m[1]])
        BY <2>1, BodiesFacts
      <4>2. QED
        BY <4>1, <2>1, <2>3
    <3>6. Derives(bodies, <<m[1], m[2]>>,
                  Between(w, cut[h], cut[n]) \o Between(w, cut[n], b))
      BY <2>1, <3>1, <3>2, <3>3, <3>4, <3>5, DeriveMore
    <3>7. cut[h] \in Nat /\ cut[n] \in Nat /\ cut[h] <= cut[n]
      BY <1>1, <1>7, <3>4
    <3>8. Between(w, cut[h], cut[n]) \o Between(w, cut[n], b) = Between(w, cut[h], b)
      BY <3>7, BetweenJoin
    <3>9. q2[h] = q[h] /\ cut2[h] = cut[h]
      BY <1>4, <3>4
    <3>10. m[2] <= l
      BY <1>0, <3>1, <3>3
    <3>11. ItemRead(items, bodies, q2, w, cut2, l, m)
      <4>1. Derives(bodies, m, Between(w, cut2[h], cut2[l]))
        BY <2>1, <3>6, <3>8, <3>9, <1>4
      <4>2. <<m[1], 0>> \in items[q2[h]]
        BY <3>3, <3>4, <3>9
      <4>3. QED
        BY <3>4, <3>10, <4>1, <4>2, ItemReadFrom
    <3>12. CanFollow(bodies, m[1], Between(w, 0, cut[h]))
      <4>1. <<m[1], 0>> \in items[q[h]] /\ <<m[1], 0>>[1] = m[1] /\ <<m[1], 0>>[2] = 0
        BY <3>3, <3>4
      <4>2. QED
        BY <4>1, <1>1, <3>4
    <3>13. QED
      BY <3>4, <3>9, <3>11, <3>12
  <2>4. QED
    BY <2>2, <2>3
<1>11. \A m \in items[p] :
         CanFollow(bodies, m[1], Between(w, 0, cut2[l - m[2]]))
  <2>1. \A j \in 0 .. l : cut2[j] <= cut2[l]
    BY <1>5, <1>8
  <2>2. \A m \in items[p] : ItemRead(items, bodies, q2, w, cut2, l, m)
    BY <1>10
  <2>3. \A m \in items[p] : m[2] > 0 \/ m[1] = 0 =>
          CanFollow(bodies, m[1], Between(w, 0, cut2[l - m[2]]))
    BY <1>10
  <2>4. /\ cut2 \in [Nat -> Nat] /\ p \in States /\ cut2[l] <= Len(w)
        /\ \A j \in 1 .. cut2[l] : w[j] \in Terminals
    BY <1>3, <1>4
  <2>5. QED
    BY <2>1, <2>2, <2>3, <2>4, Followed
<1>12. ASSUME NEW k \in 0 .. l, NEW m \in items[q2[k]]
       PROVE  /\ ItemRead(items, bodies, q2, w, cut2, k, m)
              /\ m[2] = 0 => CanFollow(bodies, m[1], Between(w, 0, cut2[k]))
  <2>1. CASE k \in 0 .. n
    BY <2>1, <1>9
  <2>2. CASE k = l
    <3>1. m \in items[p]
      BY <2>2, <1>4
    <3>2. m[2] = 0 => l - m[2] = l
      OBVIOUS
    <3>3. QED
      BY <2>2, <3>1, <3>2, <1>10, <1>11
  <2>3. QED
    BY <1>5, <2>1, <2>2
<1>13. Reading(items, bodies, q2, w, cut2, l)
  BY <1>4, <1>6, <1>8, <1>12 DEF Reading
<1>14. QED
  BY <1>0, <1>13 DEF q2, cut2, p

LEMMA ReadingLess ==
  ASSUME NEW items, NEW bodies, NEW q, NEW w, NEW cut, NEW n \in Nat,
         NEW m \in 0 .. n, Reading(items, bodies, q, w, cut, n)
  PROVE  Reading(items, bodies, q, w, cut, m)
<1>1. 1 .. m \subseteq 1 .. n /\ 0 .. m \subseteq 0 .. n
  OBVIOUS
<1>2. QED
  BY <1>1 DEF Reading

\* One token more in the input changes nothing of what was read.
LEMMA ReadingAppend ==
  ASSUME NEW items, NEW bodies, IsBodies(bodies), HasProductions(items, bodies),
         NEW S, NEW w \in Seq(S), NEW t \in S, NEW q, NEW cut, NEW n \in Nat,
         Reading(items, bodies, q, w, cut, n), cut[n] <= Len(w)
  PROVE  Reading(items, bodies, q, Append(w, t), cut, n)
<1>1. /\ q \in [Nat -> States] /\ cut \in [Nat -> Nat]
      /\ \A j, k \in 0 .. n : j <= k => cut[j] <= cut[k]
  BY DEF Reading
<1>2. ASSUME NEW k \in 0 .. n
      PROVE  cut[k] \in Nat /\ cut[k] <= Len(w) /\ q[k] \in States
  <2>1. n \in 0 .. n /\ k <= n /\ k \in Nat /\ n \in Nat
    OBVIOUS
  <2>2. cut[k] \in Nat /\ cut[n] \in Nat /\ cut[k] <= cut[n] /\ q[k] \in States
    BY <1>1, <2>1
  <2>3. QED
    BY <2>2, LenProperties
<1>3. ASSUME NEW k \in 0 .. n, NEW m \in items[q[k]]
      PROVE  /\ ItemRead(items, bodies, q, Append(w, t), cut, k, m)
             /\ m[2] = 0 => CanFollow(bodies, m[1], Between(Append(w, t), 0, cut[k]))
  <2>1. /\ ItemRead(items, bodies, q, w, cut, k, m)
        /\ m[2] = 0 => CanFollow(bodies, m[1], Between(w, 0, cut[k]))
    BY DEF Reading
  <2>2. m[2] \in Nat /\ m[2] <= k
    BY <1>2, <2>1, ItemFacts DEF ItemRead
  <2>3. k - m[2] \in 0 .. n /\ k - m[2] <= k
    <3>1. \A n1, n2 \in Nat : n2 <= n1 /\ n1 <= n =>
            n1 - n2 \in 0 .. n /\ n1 - n2 <= n1
      OBVIOUS
    <3>2. k \in Nat /\ k <= n
      OBVIOUS
    <3>3. QED
      BY <3>1, <3>2, <2>2
  <2>4. cut[k - m[2]] <= cut[k] /\ cut[k - m[2]] \in Nat
    BY <1>1, <1>2, <2>3
  <2>5. Between(Append(w, t), cut[k - m[2]], cut[k]) = Between(w, cut[k - m[2]], cut[k])
    BY <1>2, <2>4, BetweenAppend
  <2>6. Between(Append(w, t), 0, cut[k]) = Between(w, 0, cut[k])
    <3>1. 0 \in Nat /\ 0 <= cut[k]
      BY <1>2
    <3>2. QED
      BY <1>2, <3>1, BetweenAppend
  <2>7. QED
    BY <2>1, <2>5, <2>6 DEF ItemRead
<1>4. QED
  BY <1>3 DEF Reading

LEMMA ReadingStart ==
  ASSUME NEW items, NEW bodies, IsBodies(bodies), HasProductions(items, bodies),
         Grounded(items, bodies), \A t \in Tokens \ {EOF} : HasWord(bodies, t),
         NEW S, NEW w \in Seq(S)
  PROVE  Reading(items, bodies, [k \in Nat |-> 0], w, [k \in Nat |-> 0], 0)
<1> DEFINE z == [k \in Nat |-> 0]
<1>1. 0 \in States /\ 0 \in Nat /\ Len(w) \in Nat
  BY SizeAssumption, LenProperties DEF States
<1>2. z \in [Nat -> States] /\ z \in [Nat -> Nat] /\ \A k \in Nat : z[k] = 0
  BY <1>1
<1> HIDE DEF z
<1>3. Between(w, 0, 0) = <<>>
  <2>1. 0 - 0 = 0 /\ 1 .. 0 = {}
    OBVIOUS
  <2>2. QED
    BY <2>1 DEF Between
<1>4. ASSUME NEW m \in items[0]
      PROVE  /\ ItemRead(items, bodies, z, w, z, 0, m)
             /\ m[2] > 0 \/ m[1] = 0 => CanFollow(bodies, m[1], Between(w, 0, z[0 - m[2]]))
             /\ m[2] = 0
  <2>1. m[1] \in DOMAIN bodies /\ m = <<m[1], m[2]>> /\ m[2] = 0
    BY <1>1, ItemFacts, ProductionsOfTable
  <2>2. Derives(bodies, m, <<>>)
    BY <2>1, DeriveNone
  <2>3. 0 = 0 - m[2] /\ m[2] <= 0
    BY <2>1
  <2>4. <<m[1], 0>> \in items[z[0]] /\ Derives(bodies, m, Between(w, z[0], z[0]))
    BY <1>1, <1>2, <1>3, <2>1, <2>2
  <2>5. ItemRead(items, bodies, z, w, z, 0, m)
    BY <2>3, <2>4, ItemReadFrom
  <2>6. ASSUME m[1] = 0 PROVE CanFollow(bodies, m[1], <<>>)
    <3> SUFFICES ASSUME NEW a \in Text, Derives(bodies, <<0, Len(bodies[0])>>, a)
                 PROVE  \E v \in Text : Sentence(bodies, (<<>> \o a) \o v)
      BY <2>6 DEF CanFollow
    <3>1. Sentence(bodies, a)
      BY BodiesFacts DEF Sentence
    <3>2. <<>> \o a = a /\ a \o <<>> = a /\ <<>> \in Text
      BY ConcatEmptySeq, EmptySeq DEF Text
    <3>3. QED
      BY <3>1, <3>2
  <2>7. z[0 - m[2]] = 0
    BY <1>1, <1>2, <2>3
  <2>8. QED
    BY <1>3, <2>1, <2>5, <2>6, <2>7
<1>5. \A m \in items[0] : CanFollow(bodies, m[1], Between(w, 0, z[0 - m[2]]))
  <2>1. z[0] <= Len(w) /\ \A j \in 0 .. 0 : z[j] <= z[0]
    BY <1>1, <1>2
  <2>2. \A j \in 1 .. z[0] : w[j] \in Terminals
    <3>1. z[0] = 0 /\ 1 .. 0 = {}
      BY <1>1, <1>2
    <3>2. QED
      BY <3>1
  <2>3. \A m \in items[0] : ItemRead(items, bodies, z, w, z, 0, m)
    BY <1>4
  <2>4. \A m \in items[0] : m[2] > 0 \/ m[1] = 0 =>
          CanFollow(bodies, m[1], Between(w, 0, z[0 - m[2]]))
    BY <1>4
  <2>5. QED
    BY <1>1, <1>2, <2>1, <2>2, <2>3, <2>4, Followed
<1>6. ASSUME NEW k \in 0 .. 0, NEW m \in items[z[k]]
      PROVE  /\ ItemRead(items, bodies, z, w, z, k, m)
             /\ m[2] = 0 => CanFollow(bodies, m[1], Between(w, 0, z[k]))
  <2>1. k = 0 /\ z[k] = 0 /\ z[0] = 0
    BY <1>1, <1>2
  <2>2. m \in items[0]
    BY <2>1
  <2>3. m[2] = 0 => 0 - m[2] = 0
    OBVIOUS
  <2>4. CanFollow(bodies, m[1], Between(w, 0, z[0 - m[2]]))
    BY <1>5, <2>2
  <2>5. m[2] = 0 => CanFollow(bodies, m[1], Between(w, 0, z[k]))
    BY <2>1, <2>3, <2>4
  <2>6. QED
    BY <1>4, <2>1, <2>2, <2>5
<1>7. /\ \A k \in 1 .. 0 : z[k] # 0
      /\ \A j, k \in 0 .. 0 : j <= k => z[j] <= z[k]
  <2>1. 1 .. 0 = {} /\ \A j \in 0 .. 0 : j = 0
    OBVIOUS
  <2>2. z[0] <= z[0]
    BY <1>1, <1>2
  <2>3. QED
    BY <2>1, <2>2
<1>8. Reading(items, bodies, z, w, z, 0)
  BY <1>1, <1>2, <1>6, <1>7 DEF Reading
<1>9. QED
  BY <1>8 DEF z

ReadAfterGoto(items, bodies, q, w, cut, n, h, t) ==
  Reading(items, bodies, [q EXCEPT ![h + 1] = Table[q[h]][t].arg], w,
          [cut EXCEPT ![h + 1] = cut[n]], h + 1)

\* A reduction finds its arguments and its goto.
LEMMA ReadingReduce ==
  ASSUME NEW items, NEW bodies, IsBodies(bodies), HasProductions(items, bodies),
         Grounded(items, bodies), \A t \in Tokens \ {EOF} : HasWord(bodies, t),
         NEW S, NEW w \in Seq(S), NEW q, NEW cut, NEW n \in Nat,
         Reading(items, bodies, q, w, cut, n),
         cut[n] <= Len(w), \A j \in 1 .. cut[n] : w[j] \in Terminals,
         NEW r \in DOMAIN Rules, NEW c \in Nat, c = Rules[r].tok_n,
         <<r, c>> \in items[q[n]]
  PROVE  /\ c <= n
         /\ \E h \in Nat :
              /\ h = n - c
              /\ ReadAfterGoto(items, bodies, q, w, cut, n, h, Rules[r].token)
<1>0. n \in 0 .. n
  OBVIOUS
<1>1. /\ q \in [Nat -> States] /\ cut \in [Nat -> Nat]
      /\ \A j, k \in 0 .. n : j <= k => cut[j] <= cut[k]
  BY Zenon DEF Reading
<1>2. /\ c <= n /\ <<r, 0>> \in items[q[n - c]]
      /\ Derives(bodies, <<r, c>>, Between(w, cut[n - c], cut[n]))
  BY <1>0 DEF Reading, ItemRead
<1>3. PICK h \in Nat : h = n - c /\ h \in 0 .. n /\ h <= n
  <2>1. n - c \in Nat /\ n - c \in 0 .. n /\ n - c <= n
    BY <1>2
  <2>2. QED
    BY <2>1
<1>4. Reading(items, bodies, q, w, cut, h)
  BY <1>3, ReadingLess
<1>5. DerivesToken(bodies, Rules[r].token, Between(w, cut[h], cut[n]))
  BY <1>2, <1>3, DeriveRule
<1>6. Rules[r].token \in Tokens /\ r > 0
  BY BodiesFacts
<1>7. Table[q[h]][Rules[r].token].op = "shift"
  <2>1. <<r, 0>> \in items[q[h]] /\ q[h] \in States
    BY <1>1, <1>2, <1>3
  <2>2. <<r, 0>>[1] = r /\ <<r, 0>>[2] = 0
    OBVIOUS
  <2>3. QED
    BY <1>6, <2>1, <2>2, ProductionsOfTable
<1>8. cut[n] \in Nat /\ cut[h] <= cut[n]
  BY <1>0, <1>1, <1>3
<1>9. ReadAfterGoto(items, bodies, q, w, cut, n, h, Rules[r].token)
  BY <1>4, <1>5, <1>6, <1>7, <1>8, ReadingPush DEF ReadAfterGoto
<1>10. QED
  BY <1>2, <1>3, <1>9

\* What was read can be completed.
LEMMA ReadingBegins ==
  ASSUME NEW items, NEW bodies, IsBodies(bodies), HasProductions(items, bodies),
         \A t \in Tokens \ {EOF} : HasWord(bodies, t),
         NEW S, NEW w \in Seq(S), NEW q, NEW cut, NEW n \in Nat,
         Reading(items, bodies, q, w, cut, n),
         cut[n] <= Len(w), \A j \in 1 .. cut[n] : w[j] \in Terminals
  PROVE  \E v \in Text : Sentence(bodies, Between(w, 0, cut[n]) \o v)
<1>0. n \in 0 .. n
  OBVIOUS
<1>1. /\ q \in [Nat -> States] /\ cut \in [Nat -> Nat]
      /\ \A j, k \in 0 .. n : j <= k => cut[j] <= cut[k]
  BY Zenon DEF Reading
<1>2. PICK m \in items[q[n]] : TRUE
  <2>1. q[n] \in States
    BY <1>1
  <2>2. q[n] \in DOMAIN Table
    BY <2>1, TableDomain
  <2>3. items[q[n]] # {}
    BY <2>2, Zenon DEF HasProductions
  <2>4. QED
    BY <2>3
<1>3. /\ m[2] <= n /\ <<m[1], 0>> \in items[q[n - m[2]]]
      /\ Derives(bodies, m, Between(w, cut[n - m[2]], cut[n]))
  BY <1>0 DEF Reading, ItemRead
<1>4. /\ m[1] \in DOMAIN bodies /\ m[2] \in Nat /\ m = <<m[1], m[2]>>
      /\ m[2] <= Len(bodies[m[1]])
  BY <1>1, ItemFacts
<1>5. PICK h \in Nat : h = n - m[2] /\ h <= n
  BY <1>3, <1>4, Lower
<1>6. h \in 0 .. n /\ cut[h] \in Nat /\ cut[n] \in Nat /\ cut[h] <= cut[n]
  <2>1. h \in 0 .. n
    BY ONLY <1>5, n \in Nat, h \in Nat
  <2>2. QED
    BY <1>0, <1>1, <1>5, <2>1
<1> DEFINE x == Between(w, 0, cut[h])
           y == Between(w, cut[h], cut[n])
<1>7. x \in Text /\ y \in Text /\ x \o y = Between(w, 0, cut[n])
  <2>1. 0 \in Nat /\ 0 <= cut[h] /\ cut[h] <= Len(w)
    BY <1>6, LenProperties
  <2>2. \A j \in 1 .. cut[h] : w[j] \in Terminals
    <3>1. \A n1, n2 \in Nat : n1 <= n2 => 1 .. n1 \subseteq 1 .. n2
      BY ONLY TRUE
    <3>2. QED
      BY <1>6, <3>1
  <2>3. QED
    BY <1>6, <2>1, <2>2, BetweenIsText, BetweenJoin
<1>8. CanFollow(bodies, m[1], x)
  <2>1. <<m[1], 0>> \in items[q[h]] /\ <<m[1], 0>>[1] = m[1] /\ <<m[1], 0>>[2] = 0
    BY <1>3, <1>5
  <2>2. QED
    BY <1>6, <2>1 DEF Reading
<1>9. Derives(bodies, <<m[1], m[2]>>, y)
  BY <1>3, <1>4, <1>5
<1> HIDE DEF x, y
<1>10. \A e \in 1 .. Len(bodies[m[1]]) : HasWord(bodies, bodies[m[1]][e])
  BY <1>4, BodiesFacts
<1>11. PICK v \in Text : Derives(bodies, <<m[1], Len(bodies[m[1]])>>, y \o v)
  BY <1>4, <1>7, <1>9, <1>10, DeriveRest
<1>12. y \o v \in Text
  BY <1>7, ConcatProperties DEF Text
<1>13. PICK u \in Text : Sentence(bodies, (x \o (y \o v)) \o u)
  BY <1>8, <1>11, <1>12 DEF CanFollow
<1>14. (x \o (y \o v)) \o u = (x \o y) \o (v \o u)
  <2>1. x \in Text
    BY <1>7
  <2>2. y \in Text
    BY <1>7
  <2>3. QED
    <3>1. Four(x, y, v, u)
      BY <2>1, <2>2, JoinFour
    <3>2. QED
      BY <3>1, Zenon DEF Four
<1>15. v \o u \in Text
  BY ConcatProperties DEF Text
<1>16. QED
  BY <1>7, <1>13, <1>14, <1>15

\* Behind the start symbol, what was read is a sentence.
LEMMA ReadingAccepts ==
  ASSUME NEW items, NEW bodies, HasProductions(items, bodies),
         NEW q, NEW w, NEW cut, NEW n \in Nat,
         Reading(items, bodies, q, w, cut, n), <<0, 1>> \in items[q[n]]
  PROVE  Sentence(bodies, Between(w, 0, cut[n]))
<1>1. q \in [Nat -> States] /\ n \in 0 .. n /\ cut[0] = 0 /\ \A k \in 1 .. n : q[k] # 0
  BY DEF Reading
<1>2. /\ 1 <= n /\ <<0, 0>> \in items[q[n - 1]]
      /\ Derives(bodies, <<0, 1>>, Between(w, cut[n - 1], cut[n]))
  BY <1>1 DEF Reading, ItemRead
<1>3. n - 1 \in Nat /\ (n - 1 # 0 => n - 1 \in 1 .. n)
  BY <1>2
<1>4. q[n - 1] = 0
  BY <1>1, <1>2, <1>3, ProductionsOfTable
<1>5. n - 1 = 0
  BY <1>1, <1>3, <1>4
<1>6. QED
  BY <1>1, <1>2, <1>5 DEF Sentence

-----------------------------------------------------------------------------
StackReads(items, bodies, st, in) ==
  \E n \in Nat : \E q, cut :
    /\ Reading(items, bodies, q, in, cut, n)
    /\ cut[n] = Len(in) - 1
    /\ Len(st) = 2 * n + 1
    /\ \A k \in 0 .. n : st[2 * k + 1] = q[k]

ReadInv(items, bodies) ==
  /\ \A k \in 1 .. Len(input) - 1 : input[k] \in Terminals
  /\ status # "idle" => Len(input) > 0
  /\ status = "parsing" =>
       tok = input[Len(input)] /\ StackReads(items, bodies, stack, input)
  /\ ReadsSentences(bodies)

LEMMA StackBegins ==
  ASSUME NEW items, NEW bodies, Describes(items, bodies),
         NEW S, NEW in \in Seq(S), Len(in) > 0,
         \A k \in 1 .. Len(in) - 1 : in[k] \in Terminals,
         NEW st, StackReads(items, bodies, st, in)
  PROVE  \E v \in Text : Sentence(bodies, Between(in, 0, Len(in) - 1) \o v)
<1>1. PICK n \in Nat : \E q, cut :
        /\ Reading(items, bodies, q, in, cut, n)
        /\ cut[n] = Len(in) - 1
  BY DEF StackReads
<1>2. PICK q, cut : /\ Reading(items, bodies, q, in, cut, n)
                    /\ cut[n] = Len(in) - 1
  BY <1>1
<1>3. cut[n] <= Len(in)
  BY <1>2, LenProperties
<1>4. \A j \in 1 .. cut[n] : in[j] \in Terminals
  BY <1>2
<1>5. \A t \in Tokens \ {EOF} : HasWord(bodies, t)
  BY EveryTokenHasWord DEF Describes
<1>6. \E v \in Text : Sentence(bodies, Between(in, 0, cut[n]) \o v)
  BY <1>2, <1>3, <1>4, <1>5, ReadingBegins DEF Describes
<1>7. QED
  BY <1>2, <1>6

LEMMA StartReads ==
  ASSUME NEW items, NEW bodies, Describes(items, bodies), Start
  PROVE  ReadInv(items, bodies)'
<1>1. PICK t \in Actions \cup {LexFail} : input' = <<t>> /\ tok' = t
  BY DEF Start, CallLexer
<1>2. status' = "parsing" /\ stack' = <<0>>
  BY DEF Start
<1>3. input' \in Seq(Actions \cup {LexFail}) /\ Len(input') = 1 /\ input'[1] = t
  BY <1>1
<1>4. \A t2 \in Tokens \ {EOF} : HasWord(bodies, t2)
  BY EveryTokenHasWord DEF Describes
<1> DEFINE z == [k \in Nat |-> 0]
<1>5. Reading(items, bodies, z, input', z, 0)
  BY <1>3, <1>4, ReadingStart DEF Describes
<1>6. z[0] = Len(input') - 1 /\ Len(stack') = 2 * 0 + 1 /\ 0 \in Nat
  BY <1>2, <1>3
<1>7. \A k \in 0 .. 0 : stack'[2 * k + 1] = z[k]
  BY <1>2
<1>8. StackReads(items, bodies, stack', input')
  <2> HIDE DEF z
  <2>1. QED
    BY <1>5, <1>6, <1>7 DEF StackReads
<1>9. \A k \in 1 .. Len(input') - 1 : input'[k] \in Terminals
  BY <1>3
<1>10. \E v \in Text : Sentence(bodies, Between(input', 0, Len(input') - 1) \o v)
  <2>1. Len(input') > 0
    BY <1>3
  <2>2. QED
    BY <1>3, <1>8, <1>9, <2>1, StackBegins
<1>11. ReadsSentences(bodies)'
  BY <1>2, <1>10 DEF ReadsSentences
<1>12. QED
  BY <1>1, <1>2, <1>3, <1>8, <1>9, <1>11 DEF ReadInv

LEMMA ShiftReads ==
  ASSUME NEW items, NEW bodies, Describes(items, bodies),
         ShapeInv, ReadInv(items, bodies), Shift
  PROVE  ReadInv(items, bodies)'
<1>1. /\ TypeOK /\ status = "parsing" /\ tok # LexFail /\ Entry.op = "shift"
      /\ status' = "parsing" /\ stack' = stack \o <<i, Entry.arg>>
      /\ stack[Len(stack)] = current_state
      /\ stack \in Seq(Nat) /\ i \in Nat /\ current_state \in States
      /\ tok \in Actions \cup {LexFail} /\ input \in Seq(Actions \cup {LexFail})
      /\ Len(input) > 0 /\ tok = input[Len(input)]
      /\ StackReads(items, bodies, stack, input)
      /\ \A k \in 1 .. Len(input) - 1 : input[k] \in Terminals
  BY DEF Shift, Parsing, ShapeInv, TypeOK, ReadInv, Slots
<1>2. PICK t \in Actions \cup {LexFail} : input' = Append(input, t) /\ tok' = t
  BY DEF Shift, CallLexer
<1>3. tok \in Tokens /\ tok \in Terminals
  <2>1. tok \in Actions /\ tok \in Tokens
    BY <1>1, SizeAssumption DEF Actions, Tokens
  <2>2. tok # EOF
    BY <1>1, TableAssumption DEF Entry
  <2>3. QED
    BY <2>1, <2>2 DEF Terminals
<1>4. Entry.arg \in Nat
  <2>1. Entry \in Entries
    BY <1>1, <1>3, TableAssumption DEF Entry
  <2>2. QED
    BY <2>1, <1>1 DEF Entries, States
<1>5. PICK n \in Nat : \E q, cut :
        /\ Reading(items, bodies, q, input, cut, n) /\ cut[n] = Len(input) - 1
        /\ Len(stack) = 2 * n + 1 /\ \A k \in 0 .. n : stack[2 * k + 1] = q[k]
  BY <1>1 DEF StackReads
<1>6. PICK q, cut :
        /\ Reading(items, bodies, q, input, cut, n) /\ cut[n] = Len(input) - 1
        /\ Len(stack) = 2 * n + 1 /\ \A k \in 0 .. n : stack[2 * k + 1] = q[k]
  BY <1>5
<1>7. q[n] = current_state
  <2>1. n \in 0 .. n
    OBVIOUS
  <2>2. QED
    BY <1>1, <1>6, <2>1
<1>8. PICK b \in Nat : b = Len(input) /\ cut[n] = b - 1 /\ b > 0
  BY <1>1, <1>6, LenProperties
<1>9. PICK in : in = input'
  OBVIOUS
<1>10. /\ in \in Seq(Actions \cup {LexFail}) /\ Len(in) = b + 1
       /\ \A k \in 1 .. b : in[k] = input[k]
       /\ in = Append(input, t)
  BY <1>1, <1>2, <1>8, <1>9, AppendProperties
<1>11. Reading(items, bodies, q, in, cut, n)
  <2>1. cut[n] <= Len(input)
    BY <1>8
  <2>2. QED
    BY <1>1, <1>6, <1>10, <2>1, ReadingAppend DEF Describes
<1>12. /\ \A k \in 1 .. b : in[k] \in Terminals
       /\ in[b] = tok
  <2>1. b \in 1 .. b /\ \A k \in 1 .. b : k \in 1 .. b - 1 \/ k = b
    BY <1>8
  <2>2. QED
    BY <1>1, <1>3, <1>8, <1>10, <2>1
<1>13. DerivesToken(bodies, tok, Between(in, cut[n], b))
  <2>1. Between(in, cut[n], b) = <<tok>>
    <3>1. b - cut[n] = 1 /\ cut[n] + 1 = b
      BY <1>8
    <3>2. Between(in, cut[n], b) = [k \in 1 .. 1 |-> in[cut[n] + k]]
      BY <3>1 DEF Between
    <3>3. \A k \in 1 .. 1 : in[cut[n] + k] = tok
      BY <3>1, <1>12
    <3>4. QED
      BY <3>2, <3>3
  <2>2. QED
    BY <2>1, <1>3, DeriveToken
<1> DEFINE q2 == [q EXCEPT ![n + 1] = Table[q[n]][tok].arg]
           cut2 == [cut EXCEPT ![n + 1] = b]
<1>14. Reading(items, bodies, q2, in, cut2, n + 1)
  <2>1. Table[q[n]][tok].op = "shift"
    BY <1>1, <1>7 DEF Entry
  <2>2. cut[n] <= b /\ b <= Len(in)
    BY <1>8, <1>10
  <2>3. \A t2 \in Tokens \ {EOF} : HasWord(bodies, t2)
    BY EveryTokenHasWord DEF Describes
  <2>4. QED
    BY <1>3, <1>10, <1>11, <1>12, <1>13, <2>1, <2>2, <2>3, ReadingPush
    DEF Describes
<1>15. /\ cut2[n + 1] = b /\ q2[n + 1] = Entry.arg
       /\ \A k \in 0 .. n : q2[k] = q[k]
  <2>1. q \in [Nat -> States] /\ cut \in [Nat -> Nat]
    BY <1>6 DEF Reading
  <2>2. n + 1 \in Nat /\ \A k \in 0 .. n : k \in Nat /\ k # n + 1
    OBVIOUS
  <2>3. QED
    BY <1>7, <2>1, <2>2 DEF Entry
<1> HIDE DEF q2, cut2
<1>16. PICK st : st = stack'
  OBVIOUS
<1>17. /\ Len(st) = 2 * (n + 1) + 1
       /\ \A k \in 0 .. n + 1 : st[2 * k + 1] = q2[k]
  <2>1. /\ Len(st) = Len(stack) + 2 /\ \A k \in 1 .. Len(stack) : st[k] = stack[k]
        /\ st[Len(stack) + 2] = Entry.arg
    BY <1>1, <1>4, <1>16, PushPair
  <2>2. ASSUME NEW k \in 0 .. n + 1 PROVE st[2 * k + 1] = q2[k]
    <3>1. CASE k \in 0 .. n
      <4>1. 2 * k + 1 \in 1 .. Len(stack)
        BY <3>1, <1>6
      <4>2. QED
        BY <3>1, <4>1, <2>1, <1>6, <1>15
    <3>2. CASE k = n + 1
      <4>1. 2 * k + 1 = Len(stack) + 2
        BY <3>2, <1>6
      <4>2. QED
        BY <3>2, <4>1, <2>1, <1>15
    <3>3. QED
      BY <3>1, <3>2
  <2>3. QED
    BY <1>6, <2>1, <2>2
<1>18. StackReads(items, bodies, st, in)
  <2>1. n + 1 \in Nat /\ cut2[n + 1] = Len(in) - 1
    BY <1>8, <1>10, <1>15
  <2>2. QED
    BY <1>14, <1>17, <2>1 DEF StackReads
<1>19. \A k \in 1 .. Len(in) - 1 : in[k] \in Terminals
  BY <1>8, <1>10, <1>12
<1>20. \E v \in Text : Sentence(bodies, Between(in, 0, Len(in) - 1) \o v)
  <2>1. Len(in) > 0
    BY <1>8, <1>10
  <2>2. QED
    BY <1>10, <1>18, <1>19, <2>1, StackBegins
<1>21. ReadsSentences(bodies)'
  BY <1>1, <1>9, <1>20 DEF ReadsSentences
<1>22. tok' = input'[Len(input')] /\ Len(input') > 0
  BY <1>1, <1>2, <1>8, AppendProperties
<1>23. QED
  BY <1>1, <1>9, <1>16, <1>18, <1>19, <1>21, <1>22 DEF ReadInv

LEMMA ReduceReads ==
  ASSUME NEW items, NEW bodies, Describes(items, bodies),
         ShapeInv, ReadInv(items, bodies), Reduce
  PROVE  ReadInv(items, bodies)'
<1>1. /\ TypeOK /\ status = "parsing" /\ tok # LexFail /\ Entry.op = "reduce"
      /\ Parsing("reduce") /\ StackHoldsArgs
      /\ UNCHANGED <<status, tok, input>>
      /\ stack' = Remaining \o <<DestSlot, Goto>>
      /\ stack[Len(stack)] = current_state
      /\ stack \in Seq(Nat) /\ current_state \in States
      /\ tok \in Actions \cup {LexFail} /\ input \in Seq(Actions \cup {LexFail})
      /\ Len(input) > 0 /\ tok = input[Len(input)]
      /\ StackReads(items, bodies, stack, input)
      /\ \A k \in 1 .. Len(input) - 1 : input[k] \in Terminals
  BY DEF Reduce, Parsing, ShapeInv, TypeOK, ReadInv
<1>2. tok \in Tokens
  BY <1>1, SizeAssumption DEF Actions, Tokens
<1>3. /\ Entry.arg \in DOMAIN Rules /\ ArgCount \in Nat
      /\ Rule.token \in Tokens /\ Goto \in States /\ Goto \in Nat /\ DestSlot \in Nat
      /\ Len(Remaining) = Len(stack) - 2 * ArgCount
      /\ Remaining \in Seq(Nat) /\ Len(Remaining) \in 1 .. Len(stack)
      /\ \A k \in 1 .. Len(Remaining) : Remaining[k] = stack[k]
  BY <1>1, ReduceFacts DEF States, Slots
<1>4. PICK n \in Nat : \E q, cut :
        /\ Reading(items, bodies, q, input, cut, n) /\ cut[n] = Len(input) - 1
        /\ Len(stack) = 2 * n + 1 /\ \A k \in 0 .. n : stack[2 * k + 1] = q[k]
  BY <1>1 DEF StackReads
<1>5. PICK q, cut :
        /\ Reading(items, bodies, q, input, cut, n) /\ cut[n] = Len(input) - 1
        /\ Len(stack) = 2 * n + 1 /\ \A k \in 0 .. n : stack[2 * k + 1] = q[k]
  BY <1>4
<1>6. PICK r \in DOMAIN Rules : r = Entry.arg
  BY <1>3
<1>7. PICK c \in Nat : c = ArgCount /\ c = Rules[r].tok_n
  BY <1>3, <1>6 DEF ArgCount, Rule
<1>8. q[n] = current_state /\ n \in 0 .. n
  <2>1. n \in 0 .. n
    OBVIOUS
  <2>2. QED
    BY <1>1, <1>5, <2>1
<1>9. <<r, c>> \in items[q[n]]
  <2>1. Table[current_state][tok].op = "reduce" /\ Table[current_state][tok].arg = r
    BY <1>1, <1>6 DEF Entry
  <2>2. <<r, Rules[r].tok_n>> \in items[current_state]
    BY <1>1, <1>2, <2>1, ProductionsOfTable DEF Describes
  <2>3. QED
    BY <1>7, <1>8, <2>2
<1>10. cut[n] <= Len(input) /\ \A j \in 1 .. cut[n] : input[j] \in Terminals
  BY <1>1, <1>5, LenProperties
<1>11. \A t \in Tokens \ {EOF} : HasWord(bodies, t)
  BY EveryTokenHasWord DEF Describes
<1>12. /\ c <= n
       /\ \E h \in Nat :
            /\ h = n - c
            /\ ReadAfterGoto(items, bodies, q, input, cut, n, h, Rules[r].token)
  BY <1>1, <1>5, <1>7, <1>9, <1>10, <1>11, ReadingReduce DEF Describes
<1>13. PICK h \in Nat :
         /\ h = n - c
         /\ ReadAfterGoto(items, bodies, q, input, cut, n, h, Rules[r].token)
  BY <1>12
<1> DEFINE q2 == [q EXCEPT ![h + 1] = Table[q[h]][Rules[r].token].arg]
           cut2 == [cut EXCEPT ![h + 1] = cut[n]]
<1>14. Reading(items, bodies, q2, input, cut2, h + 1)
  BY <1>13 DEF ReadAfterGoto
<1>15. Len(Remaining) = 2 * h + 1 /\ h <= n /\ n = h + c
  <2>1. \A n1, n2 \in Nat : n2 <= n1 =>
          /\ 2 * n1 + 1 - 2 * n2 = 2 * (n1 - n2) + 1
          /\ n1 - n2 <= n1 /\ n1 = (n1 - n2) + n2
    BY ONLY TRUE
  <2>2. Len(Remaining) = 2 * n + 1 - 2 * c
    BY <1>3, <1>5, <1>7
  <2>3. QED
    BY <2>1, <2>2, <1>12, <1>13
<1>16. Goto = Table[q[h]][Rules[r].token].arg
  <2>1. Remaining[Len(Remaining)] = stack[2 * h + 1]
    <3>1. 2 * h + 1 \in 1 .. 2 * h + 1
      BY ONLY h \in Nat
    <3>2. QED
      BY <1>3, <1>15, <3>1
  <2>2. h \in 0 .. n
    BY <1>15
  <2>3. stack[2 * h + 1] = q[h]
    BY <1>5, <2>2
  <2>4. QED
    BY <1>6, <2>1, <2>3 DEF Goto, Rule
<1>17. /\ cut2[h + 1] = cut[n] /\ q2[h + 1] = Goto
       /\ \A k \in 0 .. h : q2[k] = q[k]
  <2>1. q \in [Nat -> States] /\ cut \in [Nat -> Nat]
    BY <1>5 DEF Reading
  <2>2. h + 1 \in Nat /\ \A k \in 0 .. h : k \in Nat /\ k # h + 1
    OBVIOUS
  <2>3. QED
    BY <1>16, <2>1, <2>2
<1> HIDE DEF q2, cut2
<1>18. PICK st : st = stack'
  OBVIOUS
<1>19. /\ Len(st) = 2 * (h + 1) + 1
       /\ \A k \in 0 .. h + 1 : st[2 * k + 1] = q2[k]
  <2>1. PICK rm : rm = Remaining
    OBVIOUS
  <2>2. /\ rm \in Seq(Nat) /\ Len(rm) = 2 * h + 1
        /\ \A k \in 1 .. Len(rm) : rm[k] = stack[k]
    BY <1>3, <1>15, <2>1
  <2>3. PICK ds \in Nat, g \in Nat : g = Goto /\ st = rm \o <<ds, g>>
    BY <1>1, <1>3, <1>18, <2>1
  <2>4. /\ Len(st) = Len(rm) + 2 /\ \A k \in 1 .. Len(rm) : st[k] = rm[k]
        /\ st[Len(rm) + 2] = Goto
    <3>1. rm \in Seq(Nat)
      BY <2>2
    <3>2. /\ Len(rm \o <<ds, g>>) = Len(rm) + 2
          /\ \A k \in 1 .. Len(rm) : (rm \o <<ds, g>>)[k] = rm[k]
          /\ (rm \o <<ds, g>>)[Len(rm) + 2] = g
      BY ONLY <3>1, ds \in Nat, g \in Nat, PushPair
    <3>3. st = rm \o <<ds, g>> /\ g = Goto
      BY <2>3
    <3>4. QED
      BY ONLY <3>2, <3>3
  <2>5. ASSUME NEW k \in 0 .. h + 1 PROVE st[2 * k + 1] = q2[k]
    <3>1. CASE k \in 0 .. h
      <4>1. 2 * k + 1 \in 1 .. Len(rm) /\ k \in 0 .. n
        BY <3>1, <2>2, <1>15
      <4>2. QED
        BY <3>1, <4>1, <2>2, <2>4, <1>5, <1>17
    <3>2. CASE k = h + 1
      <4>1. 2 * k + 1 = Len(rm) + 2
        BY <3>2, <2>2
      <4>2. QED
        BY <3>2, <4>1, <2>4, <1>17
    <3>3. QED
      BY <3>1, <3>2
  <2>6. QED
    BY <2>2, <2>4, <2>5
<1>20. StackReads(items, bodies, st, input)
  <2>1. h + 1 \in Nat /\ cut2[h + 1] = Len(input) - 1
    BY <1>5, <1>17
  <2>2. QED
    BY <1>14, <1>19, <2>1 DEF StackReads
<1>21. ReadsSentences(bodies)'
  BY <1>1 DEF ReadInv, ReadsSentences
<1>22. QED
  BY <1>1, <1>18, <1>20, <1>21 DEF ReadInv

LEMMA AcceptItems ==
  ASSUME NEW items, NEW bodies, HasProductions(items, bodies), NEW s \in States,
         NEW t \in Tokens, Table[s][t].op = "accept"
  PROVE  <<0, 1>> \in items[s]
<1>1. s \in DOMAIN Table /\ t \in DOMAIN Table[s]
  BY TableDomain
<1>2. QED
  BY <1>1, Zenon DEF HasProductions

LEMMA AcceptReads ==
  ASSUME NEW items, NEW bodies, Describes(items, bodies),
         ShapeInv, ReadInv(items, bodies), Accept
  PROVE  ReadInv(items, bodies)'
<1>1. /\ TypeOK /\ status = "parsing" /\ tok # LexFail /\ Entry.op = "accept"
      /\ status' = "accepted" /\ UNCHANGED <<tok, input, stack>>
      /\ stack[Len(stack)] = current_state /\ current_state \in States
      /\ tok \in Actions \cup {LexFail}
      /\ StackReads(items, bodies, stack, input)
  BY DEF Accept, Parsing, ShapeInv, TypeOK, ReadInv
<1>2. tok \in Tokens
  BY <1>1, SizeAssumption DEF Actions, Tokens
<1>3. PICK n \in Nat : \E q, cut :
        /\ Reading(items, bodies, q, input, cut, n) /\ cut[n] = Len(input) - 1
        /\ Len(stack) = 2 * n + 1 /\ \A k \in 0 .. n : stack[2 * k + 1] = q[k]
  BY <1>1 DEF StackReads
<1>4. PICK q, cut :
        /\ Reading(items, bodies, q, input, cut, n) /\ cut[n] = Len(input) - 1
        /\ Len(stack) = 2 * n + 1 /\ \A k \in 0 .. n : stack[2 * k + 1] = q[k]
  BY <1>3
<1>5. q[n] = current_state
  <2>1. n \in 0 .. n
    OBVIOUS
  <2>2. QED
    BY <1>1, <1>4, <2>1
<1>6. <<0, 1>> \in items[q[n]]
  <2>1. Table[current_state][tok].op = "accept"
    BY <1>1 DEF Entry
  <2>2. HasProductions(items, bodies)
    BY DEF Describes
  <2>3. <<0, 1>> \in items[current_state]
    BY <1>1, <1>2, <2>1, <2>2, AcceptItems
  <2>4. QED
    BY <1>5, <2>3
<1>7. Sentence(bodies, Between(input, 0, cut[n]))
  BY <1>4, <1>6, ReadingAccepts DEF Describes
<1>8. ReadsSentences(bodies)'
  BY <1>1, <1>4, <1>7 DEF ReadInv, ReadsSentences
<1>9. QED
  BY <1>1, <1>8 DEF ReadInv

LEMMA StepReads ==
  ASSUME NEW items, NEW bodies, Describes(items, bodies)
  PROVE  ShapeInv /\ ReadInv(items, bodies) /\ [Next]_vars => ReadInv(items, bodies)'
<1> SUFFICES ASSUME ShapeInv, ReadInv(items, bodies), [Next]_vars
             PROVE  ReadInv(items, bodies)'
  OBVIOUS
<1>1. CASE Start
  BY <1>1, StartReads
<1>2. CASE Shift
  BY <1>2, ShiftReads
<1>3. CASE Reduce
  BY <1>3, ReduceReads
<1>4. CASE Accept
  BY <1>4, AcceptReads
<1>5. CASE LexError \/ SyntaxError \/ Unwind \/ Reject
  <2>1. /\ status # "idle" /\ status' \in {"unwinding", "rejected"}
        /\ UNCHANGED input
    BY <1>5 DEF LexError, SyntaxError, Unwind, Reject, Parsing
  <2>2. ReadsSentences(bodies)'
    BY <2>1 DEF ReadInv, ReadsSentences
  <2>3. QED
    BY <2>1, <2>2 DEF ReadInv
<1>6. CASE UNCHANGED vars
  BY <1>6 DEF vars, ReadInv, ReadsSentences
<1>7. QED
  BY <1>1, <1>2, <1>3, <1>4, <1>5, <1>6 DEF Next, Step

(***************************************************************************)
(* parser_parse_lr reads its grammar, for every table whose states hold    *)
(* the items of its productions, with empty rules and with conflicts       *)
(* solved by precedence too: what it accepts is derived from the start     *)
(* symbol, and what it has shifted begins such a word at every moment, so  *)
(* that an error is reported no later than at the first token that cannot  *)
(* follow.                                                                 *)
(***************************************************************************)
THEOREM ParserReadsSentences ==
  ASSUME NEW items, NEW bodies, Describes(items, bodies)
  PROVE  Spec => []ReadsSentences(bodies)
<1>1. Init => ShapeInv /\ ReadInv(items, bodies)
  <2>1. Init => ReadInv(items, bodies)
    BY DEF Init, ReadInv, ReadsSentences
  <2>2. QED
    BY <2>1, InitShape
<1>2. ShapeInv /\ ReadInv(items, bodies) /\ [Next]_vars
        => (ShapeInv /\ ReadInv(items, bodies))'
  BY StepShape, StepReads
<1>3. ReadInv(items, bodies) => ReadsSentences(bodies)
  BY DEF ReadInv
<1>4. QED
  BY <1>1, <1>2, <1>3, PTL DEF Spec

=============================================================================
