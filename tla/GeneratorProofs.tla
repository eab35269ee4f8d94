--------------------------- MODULE GeneratorProofs ---------------------------
(***************************************************************************)
(* The declarations of the header are read, handed on and freed as said,   *)
(* and the exit status tells the truth, for any grammar files.             *)
(***************************************************************************)
EXTENDS Generator, SequenceTheorems, FiniteSetTheorems, WellFoundedInduction,
        TLAPS

LEMMA LeastNat ==
  ASSUME NEW T, T \subseteq Nat, T # {}
  PROVE  \E x \in T : \A y \in T : x <= y
<1> DEFINE R == {z \in Nat \X Nat : z[1] < z[2]}
<1>1. IsWellFoundedOn(R, Nat)
  BY ONLY NatLessThanWellFounded DEF OpToRel
<1>2. PICK x \in T : \A y \in T : ~ (<<y, x>> \in R)
  <2> HIDE DEF R
  <2>1. QED
    BY <1>1, WFMin
<1>3. \A a, b \in Nat : ~ (<<b, a>> \in R) => a <= b
  <2> TAKE a, b \in Nat
  <2>1. b < a => <<b, a>> \in R
    OBVIOUS
  <2>2. ~ (b < a) => a <= b
    OBVIOUS
  <2>3. QED
    BY <2>1, <2>2
<1> HIDE DEF R
<1>4. QED
  BY <1>2, <1>3

LEMMA UpTo ==
  ASSUME NEW T, NEW n \in Nat, 0 \in T,
         \A i \in Nat : i < n /\ i \in T => i + 1 \in T
  PROVE  \A i \in 0 .. n : i \in T
<1> DEFINE S == {i \in 0 .. n : i \notin T}
<1> SUFFICES ASSUME S # {} PROVE FALSE
  OBVIOUS
<1>1. PICK x \in S : \A y \in S : x <= y
  <2>1. S \subseteq Nat
    OBVIOUS
  <2> HIDE DEF S
  <2>2. QED
    BY <2>1, LeastNat
<1>2. x \in 0 .. n /\ x \notin T /\ x # 0
  BY <1>1
<1>3. PICK z \in Nat : x = z + 1
  <2>1. x - 1 \in Nat /\ x = (x - 1) + 1
    BY <1>2
  <2>2. QED
    BY <2>1
<1>4. z \in T
  <2>1. z \in 0 .. n /\ ~ (x <= z)
    BY <1>2, <1>3
  <2>2. QED
    BY <1>1, <2>1
<1>5. z < n
  BY <1>2, <1>3
<1>6. QED
  BY <1>2, <1>3, <1>4, <1>5

\* There is a function that goes on from its last value.
GoesOn(F, V, n) == \A i \in 1 .. n : \A v \in V : F[i][v] \in V
Unrolls(g, F, V, n, e) ==
  /\ g \in [0 .. n -> V]
  /\ g[0] = e
  /\ \A i \in 1 .. n : g[i] = F[i][g[i - 1]]

LEMMA Recursion ==
  ASSUME NEW V, NEW n \in Nat, NEW e \in V, NEW F, GoesOn(F, V, n)
  PROVE  \E g : Unrolls(g, F, V, n, e)
<1> USE DEF GoesOn, Unrolls
<1> DEFINE G(k) == {g \in [0 .. k -> V] :
                      g[0] = e /\ \A i \in 1 .. k : g[i] = F[i][g[i - 1]]}
           T == {k \in 0 .. n : G(k) # {}}
<1>1. 0 \in T
  <2>1. [i \in 0 .. 0 |-> e] \in G(0)
    OBVIOUS
  <2> HIDE DEF G
  <2>2. QED
    BY <2>1
<1>2. ASSUME NEW k \in Nat, k < n, k \in T PROVE k + 1 \in T
  <2>1. PICK g \in [0 .. k -> V] :
          g[0] = e /\ \A i \in 1 .. k : g[i] = F[i][g[i - 1]]
    BY <1>2
  <2>2. PICK l \in Nat : l = k + 1
    BY <1>2
  <2>3. /\ l \in 1 .. n /\ l \in 0 .. n /\ l - 1 = k /\ k \in 0 .. k
        /\ \A i \in 0 .. l : i # l => i \in 0 .. k
        /\ \A i \in 1 .. l : i # l => i \in 1 .. k /\ i - 1 # l /\ i - 1 \in 0 .. l
        /\ 0 # l /\ 0 \in 0 .. l /\ l \in 0 .. l /\ k # l /\ k \in 0 .. l
    BY <1>2, <2>2
  <2> DEFINE h == [i \in 0 .. l |-> IF i = l THEN F[l][g[k]] ELSE g[i]]
  <2>4. F[l][g[k]] \in V
    BY <2>1, <2>3
  <2>5. h \in [0 .. l -> V]
    BY <2>1, <2>3, <2>4
  <2>6. h[0] = e
    BY <2>1, <2>3
  <2>7. ASSUME NEW i \in 1 .. l PROVE h[i] = F[i][h[i - 1]]
    <3>1. CASE i = l
      <4>1. h[i] = F[l][g[k]] /\ h[k] = g[k] /\ i - 1 = k
        BY <2>3, <3>1
      <4> HIDE DEF h
      <4>2. QED
        BY <4>1, <3>1
    <3>2. CASE i # l
      <4>1. i \in 1 .. k /\ i - 1 # l /\ i - 1 \in 0 .. l /\ i \in 0 .. l
        BY <2>3, <3>2
      <4>2. h[i] = g[i] /\ h[i - 1] = g[i - 1]
        BY <4>1, <3>2
      <4> HIDE DEF h
      <4>3. QED
        BY <4>1, <4>2, <2>1
    <3>3. QED
      BY <3>1, <3>2
  <2> HIDE DEF h
  <2>8. h \in G(l)
    BY <2>5, <2>6, <2>7
  <2> HIDE DEF G
  <2>9. QED
    BY <2>2, <2>3, <2>8
<1> HIDE DEF G
<1>3. n \in 0 .. n
  OBVIOUS
<1>4. n \in T
  <2> HIDE DEF T
  <2>1. QED
    BY <1>1, <1>2, <1>3, UpTo
<1>5. QED
  BY <1>4 DEF G

-----------------------------------------------------------------------------
(* Sequences of anything: lists, stacks and the heap.                       *)

LEMMA SequenceOf ==
  ASSUME NEW n \in Nat, NEW s, s = [i \in 1 .. n |-> s[i]]
  PROVE  IsSequence(s) /\ Len(s) = n /\ DOMAIN s = 1 .. n
<1>1. DOMAIN s = 1 .. n
  <2> DEFINE t == [i \in 1 .. n |-> s[i]]
  <2>1. DOMAIN t = 1 .. n
    OBVIOUS
  <2> HIDE DEF t
  <2>2. s = t
    BY DEF t
  <2>3. QED
    BY <2>1, <2>2
<1>2. s \in [1 .. n -> Range(s)]
  BY <1>1 DEF Range
<1>3. s \in Seq(Range(s))
  BY <1>2
<1>4. QED
  BY <1>1, <1>3, LenProperties DEF IsSequence

LEMMA ElementsOf ==
  ASSUME NEW A, NEW s, s \in Seq(A)
  PROVE  IsSequence(s)
<1>1. Len(s) \in Nat /\ DOMAIN s = 1 .. Len(s) /\ s \in [1 .. Len(s) -> A]
  OBVIOUS
<1>2. s = [i \in 1 .. Len(s) |-> s[i]]
  BY <1>1
<1>3. QED
  BY <1>1, <1>2, SequenceOf

LEMMA SequenceFacts ==
  ASSUME NEW s, IsSequence(s)
  PROVE  /\ Len(s) \in Nat /\ DOMAIN s = 1 .. Len(s)
         /\ s = [i \in 1 .. Len(s) |-> s[i]]
         /\ \A i \in 1 .. Len(s) : s[i] \in Range(s)
<1>1. s \in Seq(Range(s))
  BY DEF IsSequence
<1>2. QED
  BY <1>1 DEF Range

LEMMA Concatenated ==
  ASSUME NEW s, NEW t, IsSequence(s), IsSequence(t)
  PROVE  /\ IsSequence(s \o t) /\ Len(s \o t) = Len(s) + Len(t)
         /\ \A i \in 1 .. Len(s) : (s \o t)[i] = s[i]
         /\ \A i \in 1 .. Len(t) : (s \o t)[Len(s) + i] = t[i]
<1> DEFINE A == Range(s) \cup Range(t)
<1>1. s \in Seq(Range(s)) /\ t \in Seq(Range(t))
  BY DEF IsSequence
<1>2. s \in Seq(A) /\ t \in Seq(A)
  <2>1. \A i \in 1 .. Len(s) : s[i] \in A
    BY <1>1
  <2>2. \A i \in 1 .. Len(t) : t[i] \in A
    BY <1>1
  <2> HIDE DEF A
  <2>3. QED
    BY <1>1, <2>1, <2>2
<1> HIDE DEF A
<1>3. s \o t \in Seq(A)
  BY <1>2
<1>4. /\ Len(s \o t) = Len(s) + Len(t)
      /\ \A i \in 1 .. Len(s) : (s \o t)[i] = s[i]
      /\ \A i \in 1 .. Len(t) : (s \o t)[Len(s) + i] = t[i]
  BY <1>2
<1>5. IsSequence(s \o t)
  BY <1>3, ElementsOf
<1>6. QED
  BY <1>4, <1>5

LEMMA Appended ==
  ASSUME NEW s, NEW e, IsSequence(s)
  PROVE  /\ IsSequence(Append(s, e)) /\ Len(Append(s, e)) = Len(s) + 1
         /\ \A i \in 1 .. Len(s) : Append(s, e)[i] = s[i]
         /\ Append(s, e)[Len(s) + 1] = e
<1> DEFINE A == Range(s) \cup {e}
<1>1. s \in Seq(Range(s))
  BY DEF IsSequence
<1>2. s \in Seq(A) /\ e \in A
  <2>1. \A i \in 1 .. Len(s) : s[i] \in A
    BY <1>1
  <2>2. e \in A
    OBVIOUS
  <2> HIDE DEF A
  <2>3. QED
    BY <1>1, <2>1, <2>2
<1> HIDE DEF A
<1>3. Append(s, e) \in Seq(A)
  BY <1>2
<1>4. /\ Len(Append(s, e)) = Len(s) + 1
      /\ \A i \in 1 .. Len(s) : Append(s, e)[i] = s[i]
      /\ Append(s, e)[Len(s) + 1] = e
  BY <1>2
<1>5. IsSequence(Append(s, e))
  BY <1>3, ElementsOf
<1>6. QED
  BY <1>4, <1>5

LEMMA TailFacts ==
  ASSUME NEW s, IsSequence(s), s # <<>>
  PROVE  /\ IsSequence(Tail(s)) /\ Len(Tail(s)) = Len(s) - 1 /\ Len(s) >= 1
         /\ \A i \in 1 .. Len(Tail(s)) : Tail(s)[i] = s[i + 1]
<1>1. s \in Seq(Range(s))
  BY DEF IsSequence
<1>2. Tail(s) \in Seq(Range(s)) /\ Len(Tail(s)) = Len(s) - 1 /\ Len(s) >= 1
  BY <1>1
<1>3. \A i \in 1 .. Len(Tail(s)) : Tail(s)[i] = s[i + 1]
  BY <1>1, <1>2
<1>4. IsSequence(Tail(s))
  BY <1>2, ElementsOf
<1>5. QED
  BY <1>2, <1>3, <1>4

LEMMA FrontFacts ==
  ASSUME NEW s, IsSequence(s), s # <<>>
  PROVE  /\ IsSequence(Front(s)) /\ Len(Front(s)) = Len(s) - 1 /\ Len(s) >= 1
         /\ \A i \in 1 .. Len(Front(s)) : Front(s)[i] = s[i]
         /\ Last(s) = s[Len(s)]
<1>1. s \in Seq(Range(s))
  BY DEF IsSequence
<1>2. Front(s) \in Seq(Range(s)) /\ Len(Front(s)) = Len(s) - 1 /\ Len(s) >= 1
  BY <1>1 DEF Front
<1>3. \A i \in 1 .. Len(Front(s)) : Front(s)[i] = s[i]
  BY <1>1, <1>2 DEF Front
<1>4. IsSequence(Front(s))
  BY <1>2, ElementsOf
<1>5. QED
  BY <1>2, <1>3, <1>4 DEF Last

-----------------------------------------------------------------------------
(* What a file says: the lists of its declarations and where their nodes    *)
(* go.                                                                      *)

LEMMA TokenListFacts ==
  ASSUME NEW v, IsSequence(v)
  PROVE  IsSequence(TokenList(v))
<1>1. CASE v # <<>>
  BY <1>1, FrontFacts DEF TokenList
<1>2. CASE v = <<>>
  BY <1>2 DEF TokenList
<1>3. QED
  BY <1>1, <1>2

LEMMA TakenFacts ==
  ASSUME NEW v, NEW b, IsSequence(v)
  PROVE  IsSequence(Taken(v, b))
<1> DEFINE bad == {i \in DOMAIN v : v[i] \in AsciiNames}
           k == CHOOSE i \in bad : \A j \in bad : i <= j
<1>1. CASE b \/ bad = {}
  BY <1>1 DEF Taken
<1>2. CASE ~ (b \/ bad = {})
  <2>1. bad \subseteq Nat /\ bad # {} /\ bad \subseteq 1 .. Len(v) /\ Len(v) \in Nat
    BY <1>2, SequenceFacts
  <2>2. Taken(v, b) = SubSeq(v, 1, k - 1)
    BY <1>2 DEF Taken
  <2>3. \E i \in bad : \A j \in bad : i <= j
    <3> HIDE DEF bad
    <3>1. QED
      BY <2>1, LeastNat
  <2> HIDE DEF bad
  <2>4. k \in bad
    BY <2>3
  <2> HIDE DEF k
  <2>5. k \in 1 .. Len(v)
    BY <2>1, <2>4
  <2>6. v \in Seq(Range(v))
    BY DEF IsSequence
  <2>7. SubSeq(v, 1, k - 1) \in Seq(Range(v))
    BY <2>1, <2>5, <2>6
  <2>8. QED
    BY <2>2, <2>7, ElementsOf
<1>3. QED
  BY <1>1, <1>2

Size(f, i) == Len(PairsOf(f)[i].values)

LEMMA PairFacts ==
  ASSUME NEW f \in Files
  PROVE  /\ Len(f.header) \in Nat \ {0} /\ Len(PairsOf(f)) = Len(f.header)
         /\ DOMAIN f.header = 1 .. Len(f.header)
         /\ \A i \in 1 .. Len(f.header) :
              /\ IsSequence(f.header[i].values) /\ "values" \in DOMAIN f.header[i]
              /\ f.header[i] \in Range(f.header)
              /\ Size(f, i) \in Nat /\ IsSequence(PairsOf(f)[i].values)
              /\ f.header[i].type \in ListTypes =>
                   PairsOf(f)[i].values = Taken(TokenList(f.header[i].values),
                                                f.header[i].type \in AsciiTypes)
              /\ f.header[i].type \notin ListTypes => Size(f, i) = 1
<1>1. IsSequence(f.header) /\ f.header # <<>>
  BY FilesAssumption
<1>2. /\ DOMAIN f.header = 1 .. Len(f.header) /\ Len(f.header) \in Nat \ {0}
      /\ \A i \in 1 .. Len(f.header) : f.header[i] \in Range(f.header)
  BY <1>1, SequenceFacts, TailFacts
<1> DEFINE n == Len(f.header)
           P == PairsOf(f)
<1>3. /\ P = [i \in 1 .. n |-> P[i]] /\ Len(P) = n
      /\ \A i \in 1 .. n : P[i] =
           IF f.header[i].type \in ListTypes
           THEN [f.header[i] EXCEPT !.values =
                   Taken(TokenList(@), f.header[i].type \in AsciiTypes)]
           ELSE f.header[i]
  <2>1. P = [i \in 1 .. n |-> P[i]]
    BY <1>2 DEF PairsOf
  <2>2. Len(P) = n
    <3> HIDE DEF P
    <3>1. QED
      BY <1>2, <2>1, SequenceOf
  <2>3. QED
    BY <1>2, <2>1, <2>2 DEF PairsOf
<1> HIDE DEF P
<1>4. ASSUME NEW i \in 1 .. n
      PROVE  /\ IsSequence(f.header[i].values) /\ "values" \in DOMAIN f.header[i]
             /\ f.header[i].type \notin ListTypes => Len(f.header[i].values) = 1
  BY <1>2, FilesAssumption DEF IsDeclaration
<1>5. ASSUME NEW i \in 1 .. n, f.header[i].type \in ListTypes
      PROVE  P[i].values = Taken(TokenList(f.header[i].values),
                                 f.header[i].type \in AsciiTypes)
  BY <1>3, <1>4, <1>5
<1>6. ASSUME NEW i \in 1 .. n
      PROVE  /\ IsSequence(P[i].values)
             /\ f.header[i].type \notin ListTypes => Len(P[i].values) = 1
  <2>1. CASE f.header[i].type \in ListTypes
    BY <2>1, <1>4, <1>5, TokenListFacts, TakenFacts
  <2>2. CASE f.header[i].type \notin ListTypes
    BY <2>2, <1>3, <1>4
  <2>3. QED
    BY <2>1, <2>2
<1>7. \A i \in 1 .. n : Len(P[i].values) \in Nat
  BY <1>6, SequenceFacts
<1>8. QED
  BY <1>2, <1>3, <1>4, <1>5, <1>6, <1>7 DEF P, Size

LEMMA NodesBeforeFacts ==
  ASSUME NEW f \in Files
  PROVE  /\ NodesBefore(f, 1) = 0
         /\ \A i \in 1 .. Len(f.header) + 1 : NodesBefore(f, i) \in Nat
         /\ \A i \in 1 .. Len(f.header) :
              NodesBefore(f, i + 1) = NodesBefore(f, i) + Size(f, i)
<1> DEFINE n == Len(f.header)
           E(h) == [j \in 0 .. Len(PairsOf(f)) |->
                      IF j = 0 THEN 0 ELSE h[j - 1] + Len(PairsOf(f)[j].values)]
           C == CHOOSE h : h = E(h)
           F == [j \in 1 .. n |-> [v \in Nat |-> v + Size(f, j)]]
<1>1. n \in Nat /\ Len(PairsOf(f)) = n /\ \A j \in 1 .. n : Size(f, j) \in Nat
  BY PairFacts
<1>2. GoesOn(F, Nat, n)
  BY <1>1, SMTT(30) DEF GoesOn
<1>3. PICK g : Unrolls(g, F, Nat, n, 0)
  <2> HIDE DEF F
  <2>1. 0 \in Nat
    OBVIOUS
  <2>2. QED
    BY <1>1, <1>2, <2>1, Recursion
<1>4. /\ g \in [0 .. n -> Nat] /\ g[0] = 0
      /\ \A j \in 1 .. n : g[j] = g[j - 1] + Size(f, j)
  <2>1. \A j \in 1 .. n : g[j - 1] \in Nat
    BY <1>1, <1>3 DEF Unrolls
  <2>2. QED
    BY <1>1, <1>3, <2>1 DEF Unrolls
<1>5. g = E(g)
  BY <1>1, <1>4 DEF Size
<1>6. C = E(C)
  <2> HIDE DEF E
  <2>1. QED
    BY <1>5
<1> HIDE DEF C, F
<1>7. C[0] = 0 /\ \A j \in 1 .. n : C[j] = C[j - 1] + Size(f, j)
  <2>1. /\ E(C)[0] = 0
        /\ \A j \in 1 .. n : E(C)[j] = C[j - 1] + Size(f, j)
    BY <1>1 DEF Size
  <2> HIDE DEF E
  <2>2. QED
    BY <1>6, <2>1
<1> DEFINE T == {j \in 0 .. n : C[j] = g[j]}
<1>8. 0 \in T
  BY <1>1, <1>4, <1>7
<1>9. \A j \in Nat : j < n /\ j \in T => j + 1 \in T
  <2> SUFFICES ASSUME NEW j \in Nat, j < n, j \in T PROVE j + 1 \in T
    OBVIOUS
  <2>1. j + 1 \in 1 .. n /\ (j + 1) - 1 = j /\ j + 1 \in 0 .. n
    BY <1>1
  <2>2. QED
    BY <2>1, <1>4, <1>7
<1>10. \A j \in 0 .. n : C[j] = g[j]
  <2>1. \A j \in 0 .. n : j \in T
    <3> HIDE DEF T
    <3>1. QED
      BY <1>1, <1>8, <1>9, UpTo
  <2>2. QED
    BY <2>1
<1>11. \A i : NodesBefore(f, i) = C[i - 1]
  BY DEF NodesBefore, C
<1>12. QED
  <2>1. \A i \in 1 .. n + 1 : i - 1 \in 0 .. n
    BY <1>1
  <2>2. \A i \in 1 .. n : (i + 1) - 1 = i /\ i \in 0 .. n /\ i - 1 \in 0 .. n
    BY <1>1
  <2>3. NodesBefore(f, 1) = 0
    BY <1>7, <1>11
  <2>4. \A i \in 1 .. n + 1 : NodesBefore(f, i) \in Nat
    BY <1>4, <1>10, <1>11, <2>1, ZenonT(30)
  <2>5. \A i \in 1 .. n : NodesBefore(f, i + 1) = NodesBefore(f, i) + Size(f, i)
    <3> TAKE i \in 1 .. n
    <3>1. NodesBefore(f, i + 1) = C[i] /\ NodesBefore(f, i) = C[i - 1]
      BY <1>11, <2>2
    <3>2. QED
      BY <1>7, <3>1
  <2>6. QED
    BY <2>3, <2>4, <2>5

LEMMA NodesOfFacts ==
  ASSUME NEW f \in Files, NEW i \in 1 .. Len(f.header)
  PROVE  /\ NodesOf(f, i) \in Seq(Nat) /\ Len(NodesOf(f, i)) = Size(f, i)
         /\ \A j \in 1 .. Size(f, i) : NodesOf(f, i)[j] = NodesBefore(f, i) + j
         /\ Reverse(NodesOf(f, i)) \in Seq(Nat)
         /\ Len(Reverse(NodesOf(f, i))) = Size(f, i)
         /\ \A j \in 1 .. Size(f, i) :
              Reverse(NodesOf(f, i))[j] = NodesBefore(f, i + 1) - j + 1
         /\ IsInjective(Reverse(NodesOf(f, i)))
         /\ Range(Reverse(NodesOf(f, i))) = NodesBefore(f, i) + 1 .. NodesBefore(f, i + 1)
<1> DEFINE b == NodesBefore(f, i)
           z == Size(f, i)
           N == NodesOf(f, i)
           R == Reverse(N)
<1>1. b \in Nat /\ z \in Nat /\ NodesBefore(f, i + 1) = b + z
  <2>1. i \in 1 .. Len(f.header) + 1
    BY PairFacts
  <2>2. QED
    BY <2>1, PairFacts, NodesBeforeFacts
<1>2. N = [j \in 1 .. z |-> b + j]
  BY PairFacts, SequenceFacts DEF NodesOf, Size
<1> HIDE DEF N
<1>3. N \in Seq(Nat) /\ Len(N) = z
  <2>1. N \in [1 .. z -> Nat]
    BY <1>1, <1>2
  <2>2. QED
    BY <1>1, <2>1
<1>4. R = [j \in 1 .. z |-> b + z - j + 1]
  <2>1. \A j \in 1 .. z : z - j + 1 \in 1 .. z /\ N[z - j + 1] = b + z - j + 1
    BY <1>1, <1>2
  <2>2. QED
    BY <1>3, <2>1 DEF Reverse
<1> HIDE DEF R
<1>5. R \in Seq(Nat) /\ Len(R) = z /\ DOMAIN R = 1 .. z
  <2>1. R \in [1 .. z -> Nat]
    BY <1>1, <1>4
  <2>2. QED
    BY <1>1, <2>1
<1>6. IsInjective(R)
  BY <1>1, <1>4, <1>5, SMTT(30) DEF IsInjective
<1>7. Range(R) = b + 1 .. b + z
  <2>1. \A j \in 1 .. z : R[j] \in b + 1 .. b + z
    BY <1>1, <1>4
  <2>2. ASSUME NEW x \in b + 1 .. b + z PROVE \E j \in 1 .. z : R[j] = x
    <3>1. b + z - x + 1 \in 1 .. z /\ R[b + z - x + 1] = x
      BY <1>1, <1>4, SMTT(30)
    <3>2. QED
      BY <3>1
  <2>3. QED
    BY <2>1, <2>2, <1>5 DEF Range
<1>8. \A j \in 1 .. z : N[j] = b + j /\ R[j] = NodesBefore(f, i + 1) - j + 1
  BY <1>1, <1>2, <1>4
<1>9. Range(R) = b + 1 .. NodesBefore(f, i + 1)
  BY <1>1, <1>7
<1>10. QED
  BY <1>3, <1>5, <1>6, <1>8, <1>9 DEF N, R

LEMMA JoinFacts ==
  ASSUME NEW s, NEW t, s \in Seq(Nat), t \in Seq(Nat)
  PROVE  /\ s \o t \in Seq(Nat) /\ Len(s \o t) = Len(s) + Len(t)
         /\ \A i \in 1 .. Len(s) : (s \o t)[i] = s[i]
         /\ \A i \in 1 .. Len(t) : (s \o t)[Len(s) + i] = t[i]
         /\ Range(s \o t) = Range(s) \cup Range(t)
         /\ IsInjective(s) /\ IsInjective(t) /\ Range(s) \cap Range(t) = {}
              => IsInjective(s \o t)
<1> DEFINE u == s \o t
<1>1. /\ u \in Seq(Nat) /\ Len(u) = Len(s) + Len(t)
      /\ \A i \in 1 .. Len(s) : u[i] = s[i]
      /\ \A i \in 1 .. Len(t) : u[Len(s) + i] = t[i]
      /\ Len(s) \in Nat /\ Len(t) \in Nat
      /\ DOMAIN s = 1 .. Len(s) /\ DOMAIN t = 1 .. Len(t) /\ DOMAIN u = 1 .. Len(u)
  OBVIOUS
<1> HIDE DEF u
<1>2. \A i \in 1 .. Len(u) :
         \/ i \in 1 .. Len(s) /\ u[i] = s[i]
         \/ \E j \in 1 .. Len(t) : i = Len(s) + j /\ u[i] = t[j]
  <2> TAKE i \in 1 .. Len(u)
  <2>1. CASE i <= Len(s)
    BY <1>1, <2>1
  <2>2. CASE ~ (i <= Len(s))
    <3>1. i - Len(s) \in 1 .. Len(t) /\ i = Len(s) + (i - Len(s))
      BY <1>1, <2>2
    <3>2. QED
      BY <1>1, <3>1
  <2>3. QED
    BY <2>1, <2>2
<1>3. Range(u) = Range(s) \cup Range(t)
  <2>1. Range(u) \subseteq Range(s) \cup Range(t)
    BY <1>1, <1>2, ZenonT(30) DEF Range
  <2>2. Range(s) \subseteq Range(u)
    <3>1. \A i \in 1 .. Len(s) : i \in 1 .. Len(u)
      BY <1>1
    <3>2. QED
      BY <1>1, <3>1 DEF Range
  <2>3. Range(t) \subseteq Range(u)
    <3>1. \A i \in 1 .. Len(t) : Len(s) + i \in 1 .. Len(u)
      BY <1>1
    <3>2. QED
      BY <1>1, <3>1, ZenonT(30) DEF Range
  <2>4. QED
    BY <2>1, <2>2, <2>3
<1>4. ASSUME IsInjective(s), IsInjective(t), Range(s) \cap Range(t) = {}
      PROVE  IsInjective(u)
  <2>1. \A i \in 1 .. Len(s), j \in 1 .. Len(t) : s[i] # t[j]
    BY <1>1, <1>4 DEF Range
  <2>2. \A i, j \in 1 .. Len(s) : s[i] = s[j] => i = j
    BY <1>1, <1>4 DEF IsInjective
  <2>3. \A i, j \in 1 .. Len(t) : t[i] = t[j] => i = j
    BY <1>1, <1>4 DEF IsInjective
  <2>4. ASSUME NEW a \in 1 .. Len(u), NEW c \in 1 .. Len(u), u[a] = u[c]
        PROVE  a = c
    <3>1. CASE a \in 1 .. Len(s) /\ u[a] = s[a]
      BY <1>2, <2>1, <2>2, <2>4, <3>1
    <3>2. CASE \E j \in 1 .. Len(t) : a = Len(s) + j /\ u[a] = t[j]
      <4>1. PICK j \in 1 .. Len(t) : a = Len(s) + j /\ u[a] = t[j]
        BY <3>2
      <4>2. PICK l \in 1 .. Len(t) : c = Len(s) + l /\ u[c] = t[l]
        BY <1>2, <2>1, <2>4, <4>1
      <4>3. QED
        BY <2>3, <2>4, <4>1, <4>2
    <3>3. QED
      BY <1>2, <3>1, <3>2
  <2>5. QED
    BY <1>1, <2>4 DEF IsInjective
<1>5. QED
  BY <1>1, <1>3, <1>4 DEF u

\* The node a declaration is linked by, once it is part of the header.
HeadNode(f, i) == IF i = Len(f.header) THEN NodesBefore(f, i) + 1
                  ELSE NodesBefore(f, i + 1)

LEMMA HandedOnFacts ==
  ASSUME NEW f \in Files, NEW i \in 1 .. Len(f.header), Size(f, i) >= 1
  PROVE  /\ HandedOn(f, i) \in Seq(Nat) /\ Len(HandedOn(f, i)) >= 1
         /\ Len(HandedOn(f, i)) = HeadNode(f, i) - NodesBefore(f, i)
         /\ \A j \in 1 .. Len(HandedOn(f, i)) :
              HandedOn(f, i)[j] = HeadNode(f, i) - j + 1
         /\ IsInjective(HandedOn(f, i))
         /\ Range(HandedOn(f, i)) = NodesBefore(f, i) + 1 .. HeadNode(f, i)
<1> DEFINE b == NodesBefore(f, i)
           z == Size(f, i)
           H == HandedOn(f, i)
<1>1. b \in Nat /\ z \in Nat /\ NodesBefore(f, i + 1) = b + z
  <2>1. i \in 1 .. Len(f.header) + 1
    BY PairFacts
  <2>2. QED
    BY <2>1, PairFacts, NodesBeforeFacts
<1>2. CASE i = Len(f.header)
  <2>1. H = <<b + 1>> /\ HeadNode(f, i) = b + 1
    <3>1. i = Len(PairsOf(f))
      BY <1>2, PairFacts
    <3>2. NodesOf(f, i)[1] = b + 1
      BY <1>1, NodesOfFacts
    <3>3. QED
      BY <1>2, <3>1, <3>2 DEF HandedOn, HeadNode
  <2>2. <<b + 1>> \in Seq(Nat) /\ Len(<<b + 1>>) = 1 /\ <<b + 1>>[1] = b + 1
        /\ DOMAIN <<b + 1>> = {1}
    BY <1>1
  <2>3. Range(H) = b + 1 .. b + 1 /\ IsInjective(H)
    BY <1>1, <2>1, <2>2 DEF Range, IsInjective
  <2>4. \A j \in 1 .. 1 : H[j] = HeadNode(f, i) - j + 1
    BY <1>1, <2>1
  <2> HIDE DEF H
  <2>5. H \in Seq(Nat) /\ Len(H) = 1 /\ HeadNode(f, i) - b = 1
    BY <1>1, <2>1, <2>2
  <2>6. Range(H) = b + 1 .. HeadNode(f, i)
    BY <2>1, <2>3
  <2>7. QED
    BY <2>3, <2>4, <2>5, <2>6 DEF H
<1>3. CASE i # Len(f.header)
  <2>1. H = Reverse(NodesOf(f, i)) /\ HeadNode(f, i) = NodesBefore(f, i + 1)
    BY <1>3, PairFacts DEF HandedOn, HeadNode
  <2>2. QED
    BY <1>1, <2>1, NodesOfFacts, SMTT(30)
<1>4. QED
  BY <1>2, <1>3

LEMMA HandedOnLastFacts ==
  ASSUME NEW f \in Files, \A i \in 1 .. Len(f.header) : Size(f, i) >= 1
  PROVE  /\ HandedOnLast(f)[0] = <<>>
         /\ \A k \in 0 .. Len(f.header) : HandedOnLast(f)[k] \in Seq(Nat)
         /\ \A k \in 1 .. Len(f.header) :
              HandedOnLast(f)[k]
                = HandedOn(f, Len(f.header) - k + 1) \o HandedOnLast(f)[k - 1]
<1> DEFINE n == Len(f.header)
           E(h) == [k \in 0 .. Len(PairsOf(f)) |->
                      IF k = 0 THEN <<>>
                      ELSE HandedOn(f, Len(PairsOf(f)) - k + 1) \o h[k - 1]]
           C == CHOOSE h : h = E(h)
           F == [k \in 1 .. n |-> [v \in Seq(Nat) |-> HandedOn(f, n - k + 1) \o v]]
<1>1. n \in Nat /\ Len(PairsOf(f)) = n
  BY PairFacts
<1>2. \A k \in 1 .. n : HandedOn(f, n - k + 1) \in Seq(Nat)
  <2> TAKE k \in 1 .. n
  <2>1. n - k + 1 \in 1 .. n
    BY <1>1
  <2>2. QED
    BY <2>1, HandedOnFacts
<1>3. GoesOn(F, Seq(Nat), n)
  <2>1. ASSUME NEW k \in 1 .. n, NEW v \in Seq(Nat)
        PROVE  HandedOn(f, n - k + 1) \o v \in Seq(Nat)
    BY <1>2
  <2>2. QED
    BY <2>1 DEF GoesOn
<1>4. PICK g : Unrolls(g, F, Seq(Nat), n, <<>>)
  <2> HIDE DEF F
  <2>1. <<>> \in Seq(Nat)
    OBVIOUS
  <2>2. QED
    BY <1>1, <1>3, <2>1, Recursion
<1>5. /\ g \in [0 .. n -> Seq(Nat)] /\ g[0] = <<>>
      /\ \A k \in 1 .. n : g[k] = HandedOn(f, n - k + 1) \o g[k - 1]
  <2>1. /\ g \in [0 .. n -> Seq(Nat)] /\ g[0] = <<>>
        /\ \A k \in 1 .. n : g[k] = F[k][g[k - 1]]
    BY <1>4 DEF Unrolls
  <2>2. ASSUME NEW k \in 1 .. n
        PROVE  g[k] = HandedOn(f, n - k + 1) \o g[k - 1]
    <3>1. k - 1 \in 0 .. n
      BY <1>1
    <3>2. g[k - 1] \in Seq(Nat)
      BY <2>1, <3>1
    <3>3. QED
      BY <2>1, <3>2
  <2>3. QED
    BY <2>1, <2>2
<1>6. g = E(g)
  <2>1. E(g) = [k \in 0 .. n |-> IF k = 0 THEN <<>>
                                 ELSE HandedOn(f, n - k + 1) \o g[k - 1]]
    BY <1>1
  <2>2. \A k \in 0 .. n : g[k] = IF k = 0 THEN <<>>
                                 ELSE HandedOn(f, n - k + 1) \o g[k - 1]
    <3>1. \A k \in 0 .. n : k # 0 => k \in 1 .. n
      BY <1>1
    <3>2. QED
      BY <1>5, <3>1
  <2> HIDE DEF E
  <2>3. g = [k \in 0 .. n |-> g[k]]
    BY <1>5
  <2>4. QED
    BY <2>1, <2>2, <2>3
<1>7. C = E(C)
  <2> HIDE DEF E
  <2>1. QED
    BY <1>6
<1> HIDE DEF C, F
<1>8. C[0] = <<>> /\ \A k \in 1 .. n : C[k] = HandedOn(f, n - k + 1) \o C[k - 1]
  <2>1. /\ E(C)[0] = <<>>
        /\ \A k \in 1 .. n : E(C)[k] = HandedOn(f, n - k + 1) \o C[k - 1]
    BY <1>1
  <2> HIDE DEF E
  <2>2. QED
    BY <1>7, <2>1
<1> DEFINE T == {k \in 0 .. n : C[k] = g[k]}
<1>9. 0 \in T
  BY <1>1, <1>5, <1>8
<1>10. \A k \in Nat : k < n /\ k \in T => k + 1 \in T
  <2> SUFFICES ASSUME NEW k \in Nat, k < n, k \in T PROVE k + 1 \in T
    OBVIOUS
  <2>1. k + 1 \in 1 .. n /\ (k + 1) - 1 = k /\ k + 1 \in 0 .. n
    BY <1>1
  <2>2. C[k + 1] = HandedOn(f, n - (k + 1) + 1) \o C[k]
    BY <2>1, <1>8
  <2>3. g[k + 1] = HandedOn(f, n - (k + 1) + 1) \o g[k]
    BY <2>1, <1>5
  <2>4. QED
    BY <2>1, <2>2, <2>3
<1>11. \A k \in 0 .. n : C[k] = g[k]
  <2>1. \A k \in 0 .. n : k \in T
    <3> HIDE DEF T
    <3>1. QED
      BY <1>1, <1>9, <1>10, UpTo
  <2>2. QED
    BY <2>1
<1>12. HandedOnLast(f) = C
  BY DEF HandedOnLast, C
<1>13. QED
  BY <1>5, <1>8, <1>11, <1>12

-----------------------------------------------------------------------------
(* The heap: what a loop over next meets.                                   *)

LEMMA ChainIs ==
  ASSUME IsSequence(kv), NEW S, S \in Seq(Nat \ {0}),
         Len(S) \in 1 .. Len(kv), \A t \in 1 .. Len(S) : S[t] \in 1 .. Len(kv),
         \A t \in 1 .. Len(S) - 1 : kv[S[t]].next = S[t + 1],
         kv[S[Len(S)]].next = NULL
  PROVE  Chain(S[1]) = S
<1> DEFINE n == Len(kv)
           after == [m \in 0 .. Len(kv) |-> IF m = NULL THEN NULL ELSE kv[m].next]
           E(h) == [k \in 1 .. Len(kv) |->
                      IF k = 1 THEN S[1] ELSE after[h[k - 1]]]
           C == CHOOSE h : h = E(h)
           g == [k \in 1 .. n |-> IF k <= Len(S) THEN S[k] ELSE NULL]
<1>1. n \in Nat /\ Len(S) \in Nat /\ Len(S) >= 1 /\ Len(S) <= n /\ n >= 1
  BY SequenceFacts
<1>2. \A k \in 1 .. Len(S) : S[k] \in Nat /\ S[k] # NULL
  BY DEF NULL
<1>15. after[NULL] = NULL /\ \A t \in 1 .. Len(S) : after[S[t]] = kv[S[t]].next
  BY <1>1 DEF NULL
<1> HIDE DEF after
<1>3. \A k \in 1 .. n : g[k] = IF k = 1 THEN S[1] ELSE after[g[k - 1]]
  <2> TAKE k \in 1 .. n
  <2>1. CASE k = 1
    BY <1>1, <2>1
  <2>2. CASE k # 1 /\ k - 1 < Len(S)
    <3>1. k - 1 \in 1 .. Len(S) - 1 /\ k - 1 \in 1 .. n /\ k - 1 <= Len(S)
          /\ k <= Len(S) /\ (k - 1) + 1 = k /\ k - 1 \in 1 .. Len(S)
      BY <1>1, <2>2
    <3>2. g[k] = S[k] /\ g[k - 1] = S[k - 1] /\ S[k - 1] # NULL
      BY <1>2, <3>1
    <3>3. after[S[k - 1]] = S[k]
      BY <1>15, <3>1
    <3> HIDE DEF g
    <3>4. QED
      BY <2>2, <3>2, <3>3
  <2>3. CASE k # 1 /\ k - 1 = Len(S)
    <3>1. k - 1 \in 1 .. n /\ ~ (k <= Len(S)) /\ k - 1 \in 1 .. Len(S) /\ k - 1 <= Len(S)
      BY <1>1, <2>3
    <3>2. g[k] = NULL /\ g[k - 1] = S[Len(S)]
      BY <2>3, <3>1
    <3>3. after[S[Len(S)]] = NULL
      BY <1>1, <1>15
    <3> HIDE DEF g
    <3>4. QED
      BY <2>3, <3>2, <3>3
  <2>4. CASE k # 1 /\ k - 1 > Len(S)
    <3>1. k - 1 \in 1 .. n /\ ~ (k <= Len(S)) /\ ~ (k - 1 <= Len(S))
      BY <1>1, <2>4
    <3>2. g[k] = NULL /\ g[k - 1] = NULL
      BY <3>1
    <3> HIDE DEF g
    <3>3. QED
      BY <1>15, <2>4, <3>2
  <2>5. k - 1 < Len(S) \/ k - 1 = Len(S) \/ k - 1 > Len(S)
    BY <1>1
  <2> HIDE DEF g
  <2>6. QED
    BY <2>1, <2>2, <2>3, <2>4, <2>5
<1>4. g = E(g)
  <2>1. g = [k \in 1 .. n |-> g[k]]
    OBVIOUS
  <2> HIDE DEF g
  <2>2. QED
    BY <1>3, <2>1
<1>5. C = E(C)
  <2> HIDE DEF E, g
  <2>1. QED
    BY <1>4
<1> HIDE DEF C
<1>6. \A k \in 1 .. n : C[k] = IF k = 1 THEN S[1] ELSE after[C[k - 1]]
  <2>1. \A k \in 1 .. n : E(C)[k] = IF k = 1 THEN S[1] ELSE after[C[k - 1]]
    OBVIOUS
  <2> HIDE DEF E
  <2>2. QED
    BY <1>5, <2>1
<1> DEFINE T == {k \in 0 .. n - 1 : C[k + 1] = g[k + 1]}
<1>7. 0 \in T
  <2>1. C[1] = g[1]
    <3> HIDE DEF g
    <3>1. QED
      BY <1>1, <1>3, <1>6
  <2> HIDE DEF g
  <2>2. QED
    BY <1>1, <2>1
<1>8. \A k \in Nat : k < n - 1 /\ k \in T => k + 1 \in T
  <2> SUFFICES ASSUME NEW k \in Nat, k < n - 1, k \in T PROVE k + 1 \in T
    OBVIOUS
  <2>1. k + 2 \in 1 .. n /\ (k + 2) - 1 = k + 1 /\ k + 1 \in 0 .. n - 1
        /\ k + 2 # 1 /\ (k + 1) + 1 = k + 2
    BY <1>1
  <2> HIDE DEF g
  <2>2. PICK l \in 1 .. n : l = k + 2
    BY <2>1
  <2>3. l - 1 = k + 1 /\ l # 1
    BY <2>2
  <2>4. C[l - 1] = g[l - 1]
    BY <2>3
  <2>5. C[l] = g[l]
    <3>1. C[l] = IF l = 1 THEN S[1] ELSE after[C[l - 1]]
      BY <1>6
    <3>2. g[l] = IF l = 1 THEN S[1] ELSE after[g[l - 1]]
      BY <1>3
    <3>3. QED
      BY <2>3, <2>4, <3>1, <3>2
  <2>6. QED
    BY <2>1, <2>2, <2>5
<1>9. \A k \in 1 .. n : C[k] = g[k]
  <2> HIDE DEF T, g
  <2>1. n - 1 \in Nat
    BY <1>1
  <2>2. \A k \in 0 .. n - 1 : k \in T
    BY <1>7, <1>8, <2>1, UpTo
  <2>3. \A k \in 1 .. n : k - 1 \in 0 .. n - 1 /\ (k - 1) + 1 = k
    BY <1>1
  <2>4. QED
    BY <2>2, <2>3 DEF T
<1> DEFINE V == {k \in 1 .. Len(kv) : C[k] # NULL}
<1>10. Chain(S[1]) = [k \in 1 .. Cardinality(V) |-> C[k]]
  BY DEF Chain, C, after
<1>11. V = 1 .. Len(S)
  BY <1>1, <1>2, <1>9
<1>12. Cardinality(V) = Len(S)
  <2>1. 1 \in Int /\ Len(S) \in Int /\ Len(S) - 1 + 1 = Len(S) /\ ~ (1 > Len(S))
    BY <1>1
  <2> HIDE DEF V
  <2>2. QED
    BY <1>11, <2>1, FS_Interval
<1>13. \A k \in 1 .. Len(S) : C[k] = S[k]
  BY <1>1, <1>9
<1>14. S = [k \in 1 .. Len(S) |-> S[k]]
  OBVIOUS
<1> HIDE DEF V, g, E, T
<1>16. QED
  BY <1>10, <1>12, <1>13, <1>14

LEMMA NodesGrow ==
  ASSUME NEW f \in Files, NEW i \in 1 .. Len(f.header) + 1,
         NEW l \in i .. Len(f.header) + 1
  PROVE  NodesBefore(f, i) <= NodesBefore(f, l)
<1> DEFINE n == Len(f.header)
           T == {d \in Nat : i + d <= n + 1 => NodesBefore(f, i) <= NodesBefore(f, i + d)}
<1>1. n \in Nat
  BY PairFacts
<1>2. 0 \in T
  BY <1>1, NodesBeforeFacts
<1>3. \A d \in Nat : d < l - i /\ d \in T => d + 1 \in T
  <2> SUFFICES ASSUME NEW d \in Nat, d \in T, i + (d + 1) <= n + 1
               PROVE  NodesBefore(f, i) <= NodesBefore(f, i + (d + 1))
    OBVIOUS
  <2>1. i + d \in 1 .. n /\ i + (d + 1) = (i + d) + 1 /\ i + d <= n + 1
        /\ i + d \in 1 .. n + 1
    BY <1>1
  <2>2. /\ NodesBefore(f, i) <= NodesBefore(f, i + d)
        /\ NodesBefore(f, (i + d) + 1) = NodesBefore(f, i + d) + Size(f, i + d)
        /\ Size(f, i + d) \in Nat /\ NodesBefore(f, i + d) \in Nat
        /\ NodesBefore(f, i) \in Nat
    BY <1>1, <2>1, NodesBeforeFacts, PairFacts
  <2>3. QED
    BY <2>1, <2>2
<1>4. l - i \in Nat /\ i + (l - i) = l /\ l <= n + 1
  BY <1>1
<1>5. \A d \in 0 .. l - i : d \in T
  <2> HIDE DEF T
  <2>1. QED
    BY <1>2, <1>3, <1>4, UpTo
<1>6. l - i \in 0 .. l - i
  BY <1>4
<1>7. QED
  BY <1>4, <1>5, <1>6

\* Where the j-th node of declaration i points to, when all behind the first k
\* are part of the header.
NextOf(f, k, i, j) ==
  IF j > 1 THEN NodesBefore(f, i) + j - 1
  ELSE IF k < i /\ i < Len(f.header) THEN HeadNode(f, i + 1) ELSE NULL

NodeIs(node, f, k, i, j) ==
  /\ "next" \in DOMAIN node /\ "back" \in DOMAIN node
  /\ node.next = NextOf(f, k, i, j)
  /\ node.back = NULL => j > 1 \/ Size(f, i) = 1
  /\ node.back # NULL => j = 1 /\ node.back = NodesBefore(f, i + 1)

\* The nodes of the first m declarations.
HeapOf(h, f, k, m) ==
  /\ IsSequence(h) /\ Len(h) = NodesBefore(f, m + 1)
  /\ \A i \in 1 .. m : Size(f, i) >= 1
  /\ \A i \in 1 .. m : \A j \in 1 .. Size(f, i) :
       NodeIs(h[NodesBefore(f, i) + j], f, k, i, j)

Heap(f, k, m) == HeapOf(kv, f, k, m)

LEMMA HeadIs ==
  ASSUME NEW f \in Files, NEW k, NEW m \in 1 .. Len(f.header), Heap(f, k, m),
         NEW i \in 1 .. m
  PROVE  HeadOf(NodesBefore(f, i) + 1) = NodesBefore(f, i + 1)
<1>1. 1 \in 1 .. Size(f, i) /\ i \in 1 .. Len(f.header)
  BY PairFacts DEF Heap, HeapOf, NodeIs
<1>2. /\ kv[NodesBefore(f, i) + 1].back = NULL => Size(f, i) = 1
      /\ kv[NodesBefore(f, i) + 1].back # NULL =>
           kv[NodesBefore(f, i) + 1].back = NodesBefore(f, i + 1)
  BY <1>1 DEF Heap, HeapOf, NodeIs
<1>3. NodesBefore(f, i + 1) = NodesBefore(f, i) + Size(f, i)
  BY <1>1, NodesBeforeFacts
<1>4. QED
  BY <1>2, <1>3 DEF HeadOf

\* The list of a declaration that is not part of the header, or is its last.
LEMMA BlockChain ==
  ASSUME NEW f \in Files, NEW k, NEW m \in 1 .. Len(f.header), Heap(f, k, m),
         NEW i \in 1 .. m, ~ (k < i /\ i < Len(f.header))
  PROVE  KeyValFree(NodesBefore(f, i) + 1) = Reverse(NodesOf(f, i))
<1> DEFINE b == NodesBefore(f, i)
           z == Size(f, i)
           S == Reverse(NodesOf(f, i))
           n == Len(f.header)
<1>1. /\ n \in Nat /\ i \in 1 .. n /\ b \in Nat /\ z \in Nat /\ z >= 1
      /\ NodesBefore(f, i + 1) = b + z
  BY PairFacts, NodesBeforeFacts DEF Heap, HeapOf, NodeIs
<1>2. /\ S \in Seq(Nat) /\ Len(S) = z
      /\ \A j \in 1 .. z : S[j] = b + (z - j + 1)
  <2>1. /\ S \in Seq(Nat) /\ Len(S) = z
        /\ \A j \in 1 .. z : S[j] = NodesBefore(f, i + 1) - j + 1
    BY <1>1, NodesOfFacts
  <2> HIDE DEF S
  <2>2. QED
    BY <1>1, <2>1
<1> HIDE DEF S
<1>3. S \in Seq(Nat \ {0})
  <2>1. \A j \in 1 .. Len(S) : S[j] \in Nat \ {0}
    BY <1>1, <1>2, SMTT(30)
  <2>2. QED
    BY <1>2, <2>1
<1>4. Len(S) \in 1 .. Len(kv)
  <2>1. i + 1 \in 1 .. n + 1 /\ m + 1 \in i + 1 .. n + 1
    BY <1>1
  <2>2. b + z <= NodesBefore(f, m + 1) /\ NodesBefore(f, m + 1) \in Nat
    BY <1>1, <2>1, NodesGrow, NodesBeforeFacts
  <2>3. Len(kv) = NodesBefore(f, m + 1)
    BY DEF Heap, HeapOf, NodeIs
  <2>4. QED
    BY <1>1, <1>2, <2>2, <2>3
<1>12. \A t \in 1 .. Len(S) : S[t] \in 1 .. Len(kv)
  <2>1. i + 1 \in 1 .. n + 1 /\ m + 1 \in i + 1 .. n + 1
    BY <1>1
  <2>2. b + z <= NodesBefore(f, m + 1) /\ NodesBefore(f, m + 1) \in Nat
    BY <1>1, <2>1, NodesGrow, NodesBeforeFacts
  <2>3. Len(kv) = NodesBefore(f, m + 1)
    BY DEF Heap, HeapOf, NodeIs
  <2> HIDE DEF b, z
  <2>4. QED
    BY <1>1, <1>2, <2>2, <2>3
<1>5. \A j \in 1 .. z : kv[b + j].next = IF j > 1 THEN b + j - 1 ELSE NULL
  BY DEF Heap, HeapOf, NodeIs, NextOf
<1>6. \A t \in 1 .. Len(S) - 1 : kv[S[t]].next = S[t + 1]
  <2> TAKE t \in 1 .. Len(S) - 1
  <2>a. t \in 1 .. z - 1 /\ z \in Nat
    BY <1>1, <1>2
  <2> HIDE DEF z
  <2>1. PICK j \in 1 .. z : j = z - t + 1 /\ j > 1 /\ z - (t + 1) + 1 = j - 1
    BY <2>a
  <2>2. t \in 1 .. z /\ t + 1 \in 1 .. z
    BY <2>a
  <2>3. S[t] = b + j /\ S[t + 1] = b + (j - 1)
    BY <1>2, <2>1, <2>2
  <2>4. QED
    BY <1>1, <1>5, <2>1, <2>3
<1>7. kv[S[Len(S)]].next = NULL
  <2>1. S[z] = b + 1 /\ 1 \in 1 .. z
    BY <1>1, <1>2
  <2>2. QED
    BY <1>2, <1>5, <2>1
<1>8. Chain(S[1]) = S
  BY <1>3, <1>4, <1>6, <1>7, <1>12, ChainIs DEF Heap, HeapOf, NodeIs
<1>9. S[1] = NodesBefore(f, i + 1)
  BY <1>1, <1>2
<1>10. KeyValFree(b + 1) = Chain(HeadOf(b + 1))
  BY DEF KeyValFree, HeadOf
<1>11. QED
  BY <1>8, <1>9, <1>10, HeadIs DEF S

\* What a sequence of nodes that begins with declaration i and reaches the end
\* of the header is.
Handed(f, i, S) ==
  /\ S \in Seq(Nat) /\ IsInjective(S)
  /\ Len(S) = NodesBefore(f, Len(f.header)) + 1 - NodesBefore(f, i) /\ Len(S) >= 1
  /\ Range(S) = NodesBefore(f, i) + 1 .. NodesBefore(f, Len(f.header)) + 1
  /\ S[1] = HeadNode(f, i)
  /\ S[Len(S)] = NodesBefore(f, Len(f.header)) + 1
  /\ \A t \in 1 .. Len(S) - 1 : kv[S[t]].next = S[t + 1]

LEMMA HandedLast ==
  ASSUME NEW f \in Files, Heap(f, 0, Len(f.header))
  PROVE  Handed(f, Len(f.header), HandedOn(f, Len(f.header)) \o <<>>)
<1> DEFINE n == Len(f.header)
           A == HandedOn(f, n)
           b == NodesBefore(f, n)
<1>1. n \in 1 .. n /\ Size(f, n) >= 1
  BY PairFacts DEF Heap, HeapOf, NodeIs
<1>2. b \in Nat
  <2>1. n \in 1 .. n + 1
    BY PairFacts
  <2>2. QED
    BY <2>1, NodesBeforeFacts
<1>3. /\ A \in Seq(Nat) /\ IsInjective(A) /\ Len(A) = HeadNode(f, n) - b
      /\ Range(A) = b + 1 .. HeadNode(f, n) /\ HeadNode(f, n) = b + 1
      /\ \A j \in 1 .. Len(A) : A[j] = HeadNode(f, n) - j + 1
  BY <1>1, HandedOnFacts DEF HeadNode
<1> HIDE DEF A
<1>4. Len(A) = 1
  BY <1>2, <1>3
<1>5. A \o <<>> = A
  BY <1>3
<1>6. A[1] = b + 1
  BY <1>2, <1>3, <1>4
<1>7. 1 .. Len(A) - 1 = {} /\ b + 1 - b = 1
  BY <1>2, <1>4
<1>8. Handed(f, n, A)
  <2>1. A \in Seq(Nat) /\ IsInjective(A) /\ Len(A) = b + 1 - b /\ Len(A) >= 1
    BY <1>2, <1>3, <1>4
  <2>2. Range(A) = b + 1 .. b + 1 /\ A[1] = HeadNode(f, n) /\ A[Len(A)] = b + 1
    BY <1>3, <1>4, <1>6
  <2>3. \A t \in 1 .. Len(A) - 1 : kv[A[t]].next = A[t + 1]
    BY <1>7
  <2>4. QED
    BY <2>1, <2>2, <2>3 DEF Handed
<1>9. QED
  BY <1>5, <1>8 DEF A

LEMMA HandedMore ==
  ASSUME NEW f \in Files, Heap(f, 0, Len(f.header)),
         NEW i \in 1 .. Len(f.header), i # Len(f.header),
         NEW S, Handed(f, i + 1, S)
  PROVE  Handed(f, i, HandedOn(f, i) \o S)
<1> DEFINE n == Len(f.header)
           A == HandedOn(f, i)
           b == NodesBefore(f, i)
           c == NodesBefore(f, i + 1)
           e == NodesBefore(f, n)
           z == Size(f, i)
           U == A \o S
<1>1. n \in Nat /\ i + 1 \in 1 .. n /\ i < n /\ n \in i + 1 .. n + 1 /\ i + 1 \in 1 .. n + 1
      /\ i \in 1 .. n + 1 /\ n \in 1 .. n + 1
  BY PairFacts
<1>2. /\ b \in Nat /\ c \in Nat /\ e \in Nat /\ z \in Nat /\ z >= 1
      /\ c = b + z /\ c <= e
  <2>1. z \in Nat /\ z >= 1
    BY PairFacts DEF Heap, HeapOf, NodeIs
  <2>2. b \in Nat /\ c \in Nat /\ e \in Nat /\ c = b + z
    BY <1>1, NodesBeforeFacts
  <2>3. c <= e
    BY <1>1, NodesGrow
  <2>4. QED
    BY <2>1, <2>2, <2>3
<1>3. /\ A \in Seq(Nat) /\ IsInjective(A) /\ Len(A) = z
      /\ Range(A) = b + 1 .. c /\ HeadNode(f, i) = c
      /\ \A j \in 1 .. z : A[j] = b + (z - j + 1)
  <2>1. /\ A \in Seq(Nat) /\ IsInjective(A) /\ Len(A) = HeadNode(f, i) - b
        /\ Range(A) = b + 1 .. HeadNode(f, i) /\ HeadNode(f, i) = c
        /\ \A j \in 1 .. Len(A) : A[j] = HeadNode(f, i) - j + 1
    BY <1>2, HandedOnFacts DEF HeadNode
  <2> HIDE DEF A, b, c, z
  <2>2. Len(A) = z
    BY <1>2, <2>1
  <2>3. QED
    BY <1>2, <2>1, <2>2
<1>4. /\ S \in Seq(Nat) /\ IsInjective(S) /\ Len(S) = e + 1 - c /\ Len(S) >= 1
      /\ Range(S) = c + 1 .. e + 1 /\ S[1] = HeadNode(f, i + 1) /\ S[Len(S)] = e + 1
      /\ \A t \in 1 .. Len(S) - 1 : kv[S[t]].next = S[t + 1]
  BY DEF Handed
<1>5. \A j \in 1 .. z : kv[b + j].next = IF j > 1 THEN b + j - 1 ELSE HeadNode(f, i + 1)
  BY <1>1 DEF Heap, HeapOf, NodeIs, NextOf
<1> HIDE DEF A, b, c, e, z
<1>6. /\ U \in Seq(Nat) /\ Len(U) = z + Len(S)
      /\ \A t \in 1 .. z : U[t] = A[t]
      /\ \A t \in 1 .. Len(S) : U[z + t] = S[t]
      /\ Range(U) = Range(A) \cup Range(S)
      /\ Range(A) \cap Range(S) = {} => IsInjective(U)
  <2>1. /\ U \in Seq(Nat) /\ Len(U) = Len(A) + Len(S)
        /\ \A t \in 1 .. Len(A) : U[t] = A[t]
        /\ \A t \in 1 .. Len(S) : U[Len(A) + t] = S[t]
        /\ Range(U) = Range(A) \cup Range(S)
        /\ IsInjective(A) /\ IsInjective(S) /\ Range(A) \cap Range(S) = {}
             => IsInjective(U)
    BY <1>3, <1>4, JoinFacts
  <2> HIDE DEF U
  <2>2. Len(A) = z
    BY <1>3
  <2>3. QED
    BY <1>3, <1>4, <2>1, <2>2
<1> HIDE DEF U
<1>7. Range(U) = b + 1 .. e + 1 /\ IsInjective(U)
  <2>1. Range(A) \cap Range(S) = {}
    BY <1>2, <1>3, <1>4
  <2>2. (b + 1 .. c) \cup (c + 1 .. e + 1) = b + 1 .. e + 1
    BY <1>2
  <2>3. QED
    BY <1>3, <1>4, <1>6, <2>1, <2>2
<1>8. Len(U) = e + 1 - b /\ Len(U) >= 1
  BY <1>2, <1>4, <1>6
<1>9. U[1] = HeadNode(f, i)
  <2>1. 1 \in 1 .. z /\ b + (z - 1 + 1) = c
    BY <1>2
  <2>2. QED
    BY <1>3, <1>6, <2>1
<1>10. U[Len(U)] = e + 1
  <2>1. Len(S) \in 1 .. Len(S)
    BY <1>4
  <2>2. QED
    BY <1>4, <1>6, <2>1
<1>11. \A t \in 1 .. Len(U) - 1 : kv[U[t]].next = U[t + 1]
  <2> TAKE t \in 1 .. Len(U) - 1
  <2>0. t \in Nat /\ t >= 1 /\ t <= z + Len(S) - 1 /\ Len(S) \in Nat
    BY <1>2, <1>4, <1>6, SMTT(30)
  <2>1. CASE t < z
    <3>1. t \in 1 .. z /\ t + 1 \in 1 .. z
      BY <1>2, <2>0, <2>1
    <3>2. PICK j \in 1 .. z : j = z - t + 1 /\ j > 1 /\ z - (t + 1) + 1 = j - 1
      BY <1>2, <2>0, <2>1
    <3>3. U[t] = b + j /\ U[t + 1] = b + (j - 1)
      BY <1>3, <1>6, <3>1, <3>2
    <3>4. kv[b + j].next = b + j - 1
      BY <1>5, <3>2
    <3>5. QED
      BY <1>2, <3>2, <3>3, <3>4
  <2>2. CASE t = z
    <3>1. t \in 1 .. z /\ 1 \in 1 .. z /\ 1 \in 1 .. Len(S) /\ z - z + 1 = 1 /\ ~ (1 > 1)
      <4>1. z - z + 1 = 1
        BY <1>2
      <4>2. t \in 1 .. z /\ 1 \in 1 .. z
        BY <1>2, <2>2
      <4>3. 1 \in 1 .. Len(S)
        BY <1>4
      <4>4. QED
        BY <4>1, <4>2, <4>3
    <3>2. U[t] = b + 1
      BY <1>3, <1>6, <2>2, <3>1
    <3>3. U[t + 1] = HeadNode(f, i + 1)
      BY <1>4, <1>6, <2>2, <3>1
    <3>4. kv[b + 1].next = HeadNode(f, i + 1)
      BY <1>5, <3>1
    <3>5. QED
      BY <3>2, <3>3, <3>4
  <2>3. CASE t > z
    <3>1. PICK l \in 1 .. Len(S) - 1 : t = z + l /\ t + 1 = z + (l + 1)
      <4>1. t - z \in 1 .. Len(S) - 1 /\ t = z + (t - z) /\ t + 1 = z + ((t - z) + 1)
        BY <1>2, <2>0, <2>3
      <4>2. QED
        BY <4>1
    <3>2. l \in 1 .. Len(S) /\ l + 1 \in 1 .. Len(S)
      BY <2>0
    <3>3. U[t] = S[l] /\ U[t + 1] = S[l + 1]
      BY <1>6, <3>1, <3>2
    <3>4. QED
      BY <1>4, <3>1, <3>3
  <2>4. QED
    BY <1>2, <2>0, <2>1, <2>2, <2>3
<1>12. QED
  BY <1>6, <1>7, <1>8, <1>9, <1>10, <1>11 DEF Handed, U, b, c, e, n, A

LEMMA HeaderChain ==
  ASSUME NEW f \in Files, Heap(f, 0, Len(f.header))
  PROVE  /\ Chain(HeadNode(f, 1)) = HeaderOrder(f)
         /\ Handed(f, 1, HeaderOrder(f))
<1> DEFINE n == Len(f.header)
           L == HandedOnLast(f)
           T == {k \in 0 .. n - 1 : Handed(f, n - k, L[k + 1])}
<1>1. n \in Nat /\ n >= 1 /\ n - 1 \in Nat /\ Len(PairsOf(f)) = n
  BY PairFacts
<1>2. /\ L[0] = <<>>
      /\ \A k \in 1 .. n : L[k] = HandedOn(f, n - k + 1) \o L[k - 1]
  BY HandedOnLastFacts DEF Heap, HeapOf, NodeIs
<1> HIDE DEF L
<1>3. 0 \in T
  <2>a. 1 \in 1 .. n
    BY <1>1
  <2>1. L[1] = HandedOn(f, n - 1 + 1) \o L[1 - 1]
    BY <1>2, <2>a
  <2>2. n - 1 + 1 = n /\ 1 - 1 = 0 /\ n - 0 = n /\ 0 + 1 = 1 /\ 0 \in 0 .. n - 1
    BY <1>1
  <2>3. L[1] = HandedOn(f, n) \o <<>>
    BY <1>2, <2>1, <2>2
  <2>4. QED
    BY <2>2, <2>3, HandedLast
<1>4. \A k \in Nat : k < n - 1 /\ k \in T => k + 1 \in T
  <2> SUFFICES ASSUME NEW k \in Nat, k < n - 1, k \in T PROVE k + 1 \in T
    OBVIOUS
  <2>a. n - (k + 1) \in 1 .. n
    BY <1>1
  <2>1. PICK i \in 1 .. n : i = n - (k + 1)
    BY <2>a
  <2>2. i # n /\ i + 1 = n - k /\ k + 1 \in 0 .. n - 1 /\ (k + 1) + 1 \in 1 .. n
    BY <1>1, <2>1
  <2>3. n - ((k + 1) + 1) + 1 = i /\ ((k + 1) + 1) - 1 = k + 1
    BY <1>1, <2>1
  <2>4. L[(k + 1) + 1] = HandedOn(f, i) \o L[k + 1]
    BY <1>2, <2>2, <2>3
  <2>5. Handed(f, i + 1, L[k + 1])
    BY <2>2
  <2>6. Handed(f, i, L[(k + 1) + 1])
    BY <2>2, <2>4, <2>5, HandedMore
  <2>7. QED
    BY <2>1, <2>2, <2>6
<1>5. n - 1 \in T
  <2>1. \A k \in 0 .. n - 1 : k \in T
    <3> HIDE DEF T
    <3>1. QED
      BY <1>1, <1>3, <1>4, UpTo
  <2>2. n - 1 \in 0 .. n - 1
    BY <1>1
  <2>3. QED
    BY <2>1, <2>2
<1> DEFINE S == HeaderOrder(f)
<1>6. Handed(f, 1, S)
  <2>1. n - (n - 1) = 1 /\ (n - 1) + 1 = n
    BY <1>1
  <2>2. S = L[n]
    BY <1>1 DEF HeaderOrder, L
  <2>3. QED
    BY <1>5, <2>1, <2>2
<1> HIDE DEF S
<1> DEFINE e == NodesBefore(f, n)
<1>7. /\ S \in Seq(Nat) /\ Len(S) = e + 1 /\ Range(S) = 1 .. e + 1
      /\ S[1] = HeadNode(f, 1) /\ S[Len(S)] = e + 1 /\ e \in Nat
      /\ \A t \in 1 .. Len(S) - 1 : kv[S[t]].next = S[t + 1]
  <2>1. NodesBefore(f, 1) = 0 /\ e \in Nat
    <3>1. n \in 1 .. n + 1
      BY <1>1
    <3>2. QED
      BY <3>1, NodesBeforeFacts
  <2> HIDE DEF e
  <2>2. e + 1 - 0 = e + 1 /\ 0 + 1 = 1
    BY <2>1
  <2>3. QED
    BY <1>6, <2>1, <2>2 DEF Handed, e
<1> HIDE DEF e
<1>8. S \in Seq(Nat \ {0})
  <2>1. \A t \in 1 .. Len(S) : S[t] \in Range(S)
    BY <1>7 DEF Range
  <2>2. \A t \in 1 .. Len(S) : S[t] \in Nat \ {0}
    BY <1>7, <2>1
  <2>3. QED
    BY <1>7, <2>2
<1>9. Len(S) \in 1 .. Len(kv)
  <2>1. /\ Size(f, n) >= 1 /\ Size(f, n) \in Nat
        /\ NodesBefore(f, n + 1) = e + Size(f, n) /\ Len(kv) = NodesBefore(f, n + 1)
    BY <1>1, PairFacts, NodesBeforeFacts DEF Heap, HeapOf, NodeIs, e
  <2>2. QED
    BY <1>7, <2>1
<1>13. \A t \in 1 .. Len(S) : S[t] \in 1 .. Len(kv)
  <2>1. /\ Size(f, n) >= 1 /\ Size(f, n) \in Nat
        /\ NodesBefore(f, n + 1) = e + Size(f, n) /\ Len(kv) = NodesBefore(f, n + 1)
    BY <1>1, PairFacts, NodesBeforeFacts DEF Heap, HeapOf, NodeIs, e
  <2>2. \A t \in 1 .. Len(S) : S[t] \in Range(S)
    BY <1>7 DEF Range
  <2>3. QED
    BY <1>7, <2>1, <2>2
<1>10. kv[S[Len(S)]].next = NULL
  <2>1. n \in 1 .. n /\ 1 \in 1 .. Size(f, n) /\ ~ (n < n)
    BY <1>1, PairFacts DEF Heap, HeapOf, NodeIs
  <2>2. kv[e + 1].next = NextOf(f, 0, n, 1)
    BY <2>1 DEF Heap, HeapOf, NodeIs, e
  <2>3. QED
    BY <1>7, <2>1, <2>2 DEF NextOf
<1>11. Chain(S[1]) = S
  BY <1>7, <1>8, <1>9, <1>10, <1>13, ChainIs DEF Heap, HeapOf, NodeIs
<1>12. QED
  BY <1>6, <1>7, <1>11 DEF S

\* What the destructor of InputFile frees.
LEMMA FreedAtEnd ==
  ASSUME file \in Files, Heap(file, 0, Len(file.header)), file.damaged # "header",
         header = HeadNode(file, 1)
  PROVE  /\ KeyValFree(header) \in Seq(Nat) /\ IsInjective(KeyValFree(header))
         /\ Range(KeyValFree(header)) = (DOMAIN kv) \ Lost
<1> DEFINE n == Len(file.header)
           b == NodesBefore(file, n)
           z == Size(file, n)
<1>1. n \in Nat /\ n >= 1 /\ Len(Pairs) = n /\ n \in 1 .. n /\ n \in 1 .. n + 1 /\ 1 \in 1 .. n
  BY PairFacts DEF Pairs
<1>2. /\ b \in Nat /\ z \in Nat /\ z >= 1 /\ Len(kv) = b + z
      /\ NodesBefore(file, n + 1) = b + z /\ DOMAIN kv = 1 .. b + z
  <2>1. b \in Nat /\ z \in Nat /\ z >= 1 /\ NodesBefore(file, n + 1) = b + z
    BY <1>1, PairFacts, NodesBeforeFacts DEF Heap, HeapOf, NodeIs
  <2>2. Len(kv) = NodesBefore(file, n + 1) /\ DOMAIN kv = 1 .. Len(kv)
    BY SequenceFacts DEF Heap, HeapOf, NodeIs
  <2>3. QED
    BY <2>1, <2>2
<1>3. CASE n = 1
  <2>1. header = NodesBefore(file, 1) + 1 /\ Lost = {}
    BY <1>1, <1>3 DEF HeadNode, Lost
  <2>2. KeyValFree(header) = Reverse(NodesOf(file, 1))
    <3>1. n \in 1 .. Len(file.header) /\ 1 \in 1 .. n /\ ~ (0 < 1 /\ 1 < Len(file.header))
      BY <1>1, <1>3
    <3>2. KeyValFree(NodesBefore(file, 1) + 1) = Reverse(NodesOf(file, 1))
      BY <3>1, BlockChain
    <3>3. QED
      BY <2>1, <3>2
  <2>3. NodesBefore(file, 1) = 0 /\ NodesBefore(file, 1 + 1) = b + z
    BY <1>2, <1>3, NodesBeforeFacts
  <2>4. Range(Reverse(NodesOf(file, 1))) = 1 .. b + z
    BY <1>1, <2>3, NodesOfFacts
  <2>5. QED
    BY <1>1, <1>2, <2>1, <2>2, <2>4, NodesOfFacts
<1>4. CASE n # 1
  <2>1. header = NodesBefore(file, 1 + 1)
    BY <1>1, <1>4 DEF HeadNode
  <2>2. HeadOf(header) = header
    <3> DEFINE y == Size(file, 1)
    <3>1. y \in Nat /\ y >= 1 /\ NodesBefore(file, 1) = 0 /\ header = 0 + y /\ y \in 1 .. y
      <4>1. y \in Nat /\ y >= 1
        BY <1>1, PairFacts DEF Heap, HeapOf, NodeIs
      <4>2. NodesBefore(file, 1) = 0 /\ header = NodesBefore(file, 1) + y
        BY <1>1, <2>1, NodesBeforeFacts
      <4>3. QED
        BY <4>1, <4>2
    <3>2. kv[header].back # NULL => kv[header].back = NodesBefore(file, 1 + 1)
      BY <1>1, <3>1 DEF Heap, HeapOf, NodeIs
    <3>3. QED
      BY <2>1, <3>2 DEF HeadOf
  <2>3. KeyValFree(header) = HeaderOrder(file)
    BY <2>2, HeaderChain DEF KeyValFree, HeadOf
  <2>4. /\ HeaderOrder(file) \in Seq(Nat) /\ IsInjective(HeaderOrder(file))
        /\ Range(HeaderOrder(file)) = 1 .. b + 1
    <3>1. NodesBefore(file, 1) = 0
      BY NodesBeforeFacts
    <3>2. QED
      BY <3>1, HeaderChain DEF Handed
  <2>5. Lost = b + 2 .. b + z
    <3> DEFINE N == NodesOf(file, n)
    <3>1. Lost = Range(Tail(N))
      BY <1>1, <1>4 DEF Lost
    <3>2. N \in Seq(Nat) /\ Len(N) = z /\ \A j \in 1 .. z : N[j] = b + j
      BY <1>1, NodesOfFacts
    <3> HIDE DEF N
    <3>3. N # <<>>
      BY <1>2, <3>2
    <3>4. /\ Tail(N) \in Seq(Nat) /\ Len(Tail(N)) = z - 1
          /\ \A j \in 1 .. z - 1 : Tail(N)[j] = N[j + 1]
      BY <1>2, <3>2, <3>3
    <3>5. DOMAIN Tail(N) = 1 .. z - 1
      BY <3>4
    <3>6. \A j \in 1 .. z - 1 : Tail(N)[j] = b + j + 1 /\ b + j + 1 \in b + 2 .. b + z
      <4> TAKE j \in 1 .. z - 1
      <4> HIDE DEF z, b
      <4>1. j + 1 \in 1 .. z
        BY <1>2
      <4>2. Tail(N)[j] = b + (j + 1)
        BY <3>2, <3>4, <4>1
      <4>3. b + (j + 1) = b + j + 1 /\ b + j + 1 \in b + 2 .. b + z
        BY <1>2
      <4>4. QED
        BY <4>2, <4>3
    <3>7. ASSUME NEW x \in b + 2 .. b + z
          PROVE  \E j \in 1 .. z - 1 : Tail(N)[j] = x
      <4>1. x - b - 1 \in 1 .. z - 1 /\ b + (x - b - 1) + 1 = x
        BY <1>2
      <4>2. QED
        BY <3>6, <4>1
    <3> DEFINE M == Tail(N)
    <3>8. DOMAIN M = 1 .. z - 1 /\ \A j \in 1 .. z - 1 : M[j] \in b + 2 .. b + z
      BY <3>5, <3>6
    <3>9. \A x \in b + 2 .. b + z : \E j \in 1 .. z - 1 : M[j] = x
      BY <3>7
    <3> HIDE DEF M, b, z
    <3>10. Range(M) = b + 2 .. b + z
      BY <3>8, <3>9 DEF Range
    <3>11. QED
      BY <3>1, <3>10 DEF M
  <2>6. (1 .. b + z) \ (b + 2 .. b + z) = 1 .. b + 1
    BY <1>2
  <2>7. QED
    BY <1>2, <2>3, <2>4, <2>5, <2>6
<1>5. QED
  BY <1>3, <1>4

LEMMA FlattenIs ==
  ASSUME NEW V, NEW ss, ss \in Seq(Seq(V))
  PROVE  \E g \in [0 .. Len(ss) -> Seq(V)] :
           /\ g[0] = <<>> /\ FlattenSeq(ss) = g[Len(ss)]
           /\ \A i \in 1 .. Len(ss) : g[i] = g[i - 1] \o ss[i]
<1> DEFINE n == Len(ss)
           E(h) == [i \in 1 .. Len(ss) |-> IF i = 1 THEN ss[i] ELSE h[i - 1] \o ss[i]]
           C == CHOOSE h : h = E(h)
           F == [i \in 1 .. n |-> [v \in Seq(V) |-> v \o ss[i]]]
<1>1. n \in Nat /\ \A i \in 1 .. n : ss[i] \in Seq(V)
  OBVIOUS
<1>2. GoesOn(F, Seq(V), n)
  <2>1. ASSUME NEW i \in 1 .. n, NEW v \in Seq(V) PROVE v \o ss[i] \in Seq(V)
    BY <1>1
  <2>2. QED
    BY <2>1 DEF GoesOn
<1>3. PICK g : Unrolls(g, F, Seq(V), n, <<>>)
  <2> HIDE DEF F
  <2>1. <<>> \in Seq(V)
    OBVIOUS
  <2>2. QED
    BY <1>1, <1>2, <2>1, Recursion
<1>4. /\ g \in [0 .. n -> Seq(V)] /\ g[0] = <<>>
      /\ \A i \in 1 .. n : g[i] = g[i - 1] \o ss[i]
  <2>1. /\ g \in [0 .. n -> Seq(V)] /\ g[0] = <<>>
        /\ \A i \in 1 .. n : g[i] = F[i][g[i - 1]]
    BY <1>3 DEF Unrolls
  <2>2. ASSUME NEW i \in 1 .. n PROVE g[i] = g[i - 1] \o ss[i]
    <3>1. i - 1 \in 0 .. n
      BY <1>1
    <3>2. g[i - 1] \in Seq(V)
      BY <2>1, <3>1
    <3>3. QED
      BY <2>1, <3>2
  <2>3. QED
    BY <2>1, <2>2
<1> HIDE DEF F
<1> DEFINE d == [i \in 1 .. n |-> g[i]]
<1>5. \A i \in 1 .. n : d[i] = IF i = 1 THEN ss[i] ELSE d[i - 1] \o ss[i]
  <2> TAKE i \in 1 .. n
  <2>1. CASE i = 1
    <3>0. i - 1 = 0
      BY <2>1
    <3>1. g[i] = g[0] \o ss[i]
      BY <1>4, <3>0
    <3>2. <<>> \o ss[i] = ss[i]
      BY <1>1
    <3>3. d[i] = g[i]
      OBVIOUS
    <3> HIDE DEF d
    <3>4. QED
      BY <1>4, <2>1, <3>1, <3>2, <3>3
  <2>2. CASE i # 1
    <3>1. i - 1 \in 1 .. n
      BY <1>1, <2>2
    <3>2. d[i - 1] = g[i - 1] /\ d[i] = g[i]
      BY <3>1
    <3> HIDE DEF d
    <3>3. QED
      BY <1>4, <2>2, <3>2
  <2> HIDE DEF d
  <2>3. QED
    BY <2>1, <2>2
<1>6. d = E(d)
  <2>1. d = [i \in 1 .. n |-> d[i]]
    OBVIOUS
  <2> HIDE DEF d
  <2>2. QED
    BY <1>5, <2>1
<1>7. C = E(C)
  <2> HIDE DEF E, d
  <2>1. QED
    BY <1>6
<1> HIDE DEF C
<1>8. \A i \in 1 .. n : C[i] = IF i = 1 THEN ss[i] ELSE C[i - 1] \o ss[i]
  <2>1. \A i \in 1 .. n : E(C)[i] = IF i = 1 THEN ss[i] ELSE C[i - 1] \o ss[i]
    OBVIOUS
  <2> HIDE DEF E
  <2>2. QED
    BY <1>7, <2>1
<1> HIDE DEF E
<1> DEFINE T == {k \in Nat : k < n => C[k + 1] = d[k + 1]}
<1>9. 0 \in T
  <2>1. n >= 1 => C[1] = d[1]
    <3> HIDE DEF d
    <3>1. n >= 1 => 1 \in 1 .. n
      BY <1>1
    <3>2. QED
      BY <1>5, <1>8, <3>1
  <2> HIDE DEF d
  <2>2. QED
    BY <1>1, <2>1
<1>10. \A k \in Nat : k < n /\ k \in T => k + 1 \in T
  <2> SUFFICES ASSUME NEW k \in Nat, k < n, k \in T PROVE k + 1 \in T
    OBVIOUS
  <2> SUFFICES ASSUME k + 1 < n PROVE C[(k + 1) + 1] = d[(k + 1) + 1]
    OBVIOUS
  <2> HIDE DEF d
  <2>1. (k + 1) + 1 \in 1 .. n
    BY <1>1
  <2>2. PICK l \in 1 .. n : l = (k + 1) + 1
    BY <2>1
  <2>3. l - 1 = k + 1 /\ l # 1
    BY <2>2
  <2>4. C[l - 1] = d[l - 1]
    BY <2>3
  <2>5. C[l] = d[l]
    BY <1>5, <1>8, <2>3, <2>4
  <2>6. QED
    BY <2>2, <2>5
<1>11. \A k \in 1 .. n : C[k] = g[k]
  <2> HIDE DEF T
  <2>1. \A k \in 0 .. n : k \in T
    BY <1>1, <1>9, <1>10, UpTo
  <2>2. \A k \in 1 .. n : k - 1 \in 0 .. n /\ (k - 1) + 1 = k /\ k - 1 < n
    BY <1>1
  <2>3. \A k \in 1 .. n : d[k] = g[k]
    OBVIOUS
  <2> HIDE DEF d
  <2>4. QED
    BY <2>1, <2>2, <2>3 DEF T
<1>12. FlattenSeq(ss) = g[n]
  <2>1. CASE n = 0
    BY <1>4, <2>1 DEF FlattenSeq
  <2>2. CASE n # 0
    <3>1. FlattenSeq(ss) = C[n]
      BY <2>2 DEF FlattenSeq, C, E
    <3>2. n \in 1 .. n
      BY <1>1, <2>2
    <3>3. QED
      BY <1>11, <3>1, <3>2
  <2>3. QED
    BY <2>1, <2>2
<1>13. QED
  BY <1>4, <1>12

\* What the destructors of the parser's stack free in the middle of the header.
LEMMA FreedOnError ==
  ASSUME file \in Files, NEW m \in 0 .. Len(file.header), Heap(file, m, m),
         IsSequence(values), Len(values) = m,
         \A i \in 1 .. m : values[i] = NodesBefore(file, i) + 1
  PROVE  LET F == FlattenSeq([i \in DOMAIN values |-> KeyValFree(values[i])])
         IN  F \in Seq(Nat) /\ IsInjective(F) /\ Range(F) = DOMAIN kv
<1> DEFINE n == Len(file.header)
           ss == [i \in DOMAIN values |-> KeyValFree(values[i])]
<1>1. n \in Nat /\ m \in Nat /\ DOMAIN values = 1 .. m
  BY PairFacts, SequenceFacts
<1>2. ASSUME NEW i \in 1 .. m
      PROVE  /\ i \in 1 .. n /\ ss[i] = Reverse(NodesOf(file, i))
             /\ ss[i] \in Seq(Nat) /\ IsInjective(ss[i])
             /\ Range(ss[i]) = NodesBefore(file, i) + 1 .. NodesBefore(file, i + 1)
  <2>1. i \in 1 .. n /\ m \in 1 .. n /\ ~ (m < i /\ i < n)
    BY <1>1
  <2>2. KeyValFree(values[i]) = Reverse(NodesOf(file, i))
    BY <2>1, BlockChain
  <2>3. ss[i] = Reverse(NodesOf(file, i))
    BY <1>1, <2>2
  <2> HIDE DEF ss
  <2>4. QED
    BY <2>1, <2>3, NodesOfFacts
<1>3. ss \in Seq(Seq(Nat)) /\ Len(ss) = m
  <2>1. ss \in [1 .. m -> Seq(Nat)]
    BY <1>1, <1>2
  <2> HIDE DEF ss
  <2>2. QED
    BY <1>1, <2>1
<1> HIDE DEF ss
<1>4. PICK g \in [0 .. m -> Seq(Nat)] :
        /\ g[0] = <<>> /\ FlattenSeq(ss) = g[m]
        /\ \A i \in 1 .. m : g[i] = g[i - 1] \o ss[i]
  <2>1. \E g \in [0 .. Len(ss) -> Seq(Nat)] :
           /\ g[0] = <<>> /\ FlattenSeq(ss) = g[Len(ss)]
           /\ \A i \in 1 .. Len(ss) : g[i] = g[i - 1] \o ss[i]
    BY <1>3, FlattenIs, ZenonT(30)
  <2>2. QED
    BY <1>3, <2>1
<1> DEFINE T == {k \in 0 .. m : IsInjective(g[k]) /\ Range(g[k]) = 1 .. NodesBefore(file, k + 1)}
<1>5. 0 \in T
  <2>1. NodesBefore(file, 0 + 1) = 0
    BY NodesBeforeFacts
  <2>2. IsInjective(<<>>) /\ Range(<<>>) = {}
    BY DEF IsInjective, Range
  <2>3. 1 .. 0 = {} /\ 0 \in 0 .. m
    BY <1>1
  <2>4. QED
    BY <1>4, <2>1, <2>2, <2>3
<1>6. \A k \in Nat : k < m /\ k \in T => k + 1 \in T
  <2> SUFFICES ASSUME NEW k \in Nat, k < m, k \in T PROVE k + 1 \in T
    OBVIOUS
  <2>1. PICK i \in 1 .. m : i = k + 1
    BY <1>1
  <2>2. i - 1 = k /\ k \in 0 .. m /\ i \in 0 .. m
    BY <1>1, <2>1
  <2>3. g[i] = g[k] \o ss[i] /\ g[k] \in Seq(Nat)
    BY <1>4, <2>2
  <2>4. IsInjective(g[k]) /\ Range(g[k]) = 1 .. NodesBefore(file, i)
    BY <2>1
  <2>5. /\ NodesBefore(file, i) \in Nat /\ NodesBefore(file, i + 1) \in Nat
        /\ NodesBefore(file, i) <= NodesBefore(file, i + 1)
    <3>1. i \in 1 .. n + 1 /\ i + 1 \in i .. n + 1 /\ i + 1 \in 1 .. n + 1
      BY <1>1, <1>2, SMTT(30)
    <3>2. QED
      BY <3>1, NodesBeforeFacts, NodesGrow
  <2>6. /\ ss[i] \in Seq(Nat) /\ IsInjective(ss[i])
        /\ Range(ss[i]) = NodesBefore(file, i) + 1 .. NodesBefore(file, i + 1)
    BY <1>2
  <2>7. Range(g[k]) \cap Range(ss[i]) = {}
    BY <2>4, <2>5, <2>6
  <2>8. Range(g[k]) \cup Range(ss[i]) = 1 .. NodesBefore(file, i + 1)
    BY <2>4, <2>5, <2>6, SMTT(30)
  <2>9. IsInjective(g[i]) /\ Range(g[i]) = 1 .. NodesBefore(file, i + 1)
    <3>1. /\ Range(g[k] \o ss[i]) = Range(g[k]) \cup Range(ss[i])
          /\ IsInjective(g[k]) /\ IsInjective(ss[i]) /\ Range(g[k]) \cap Range(ss[i]) = {}
               => IsInjective(g[k] \o ss[i])
      BY <2>3, <2>6, JoinFacts
    <3>2. QED
      BY <2>3, <2>4, <2>6, <2>7, <2>8, <3>1
  <2>10. QED
    BY <2>1, <2>2, <2>9
<1>7. m \in T
  <2> HIDE DEF T
  <2>1. \A k \in 0 .. m : k \in T
    BY <1>1, <1>5, <1>6, UpTo
  <2>2. m \in 0 .. m
    BY <1>1
  <2>3. QED
    BY <2>1, <2>2
<1>8. DOMAIN kv = 1 .. NodesBefore(file, m + 1)
  BY SequenceFacts DEF Heap, HeapOf, NodeIs
<1>9. g[m] \in Seq(Nat)
  BY <1>1, <1>4
<1>10. QED
  BY <1>4, <1>7, <1>8, <1>9 DEF ss

-----------------------------------------------------------------------------
(* What the actions of the header do to the heap.                           *)

LEMMA DeclareHeap ==
  ASSUME NEW f \in Files, NEW m \in 0 .. Len(f.header) - 1,
         NEW h, HeapOf(h, f, m, m),
         NEW new, IsSequence(new), Len(new) = Size(f, m + 1), Len(new) >= 1,
         \A j \in 1 .. Len(new) : NodeIs(new[j], f, m + 1, m + 1, j)
  PROVE  HeapOf(h \o new, f, m + 1, m + 1)
<1> DEFINE n == Len(f.header)
           u == h \o new
<1>1. PICK l \in 1 .. n : l = m + 1
  <2>1. m + 1 \in 1 .. n
    BY PairFacts
  <2>2. QED
    BY <2>1
<1>2. m \in Nat /\ n \in Nat /\ l \in Nat /\ l \in 1 .. n + 1
  BY <1>1, PairFacts
<1>3. /\ NodesBefore(f, l) \in Nat /\ NodesBefore(f, l + 1) = NodesBefore(f, l) + Size(f, l)
      /\ Size(f, l) \in Nat
  BY <1>2, PairFacts, NodesBeforeFacts
<1>4. /\ IsSequence(h) /\ Len(h) = NodesBefore(f, l)
      /\ \A i \in 1 .. m : Size(f, i) >= 1
      /\ \A i \in 1 .. m : \A j \in 1 .. Size(f, i) :
           NodeIs(h[NodesBefore(f, i) + j], f, m, i, j)
  BY <1>1 DEF HeapOf
<1>5. /\ IsSequence(u) /\ Len(u) = NodesBefore(f, l) + Size(f, l)
      /\ \A i \in 1 .. NodesBefore(f, l) : u[i] = h[i]
      /\ \A i \in 1 .. Size(f, l) : u[NodesBefore(f, l) + i] = new[i]
  <2>1. Len(new) = Size(f, l)
    BY <1>1
  <2>2. /\ IsSequence(u) /\ Len(u) = Len(h) + Len(new)
        /\ \A i \in 1 .. Len(h) : u[i] = h[i]
        /\ \A i \in 1 .. Len(new) : u[Len(h) + i] = new[i]
    BY <1>4, Concatenated, SMTT(30)
  <2> HIDE DEF u
  <2>3. QED
    BY <1>4, <2>1, <2>2
<1> HIDE DEF u
<1>6. \A i \in 1 .. l : Size(f, i) >= 1
  <2>1. \A i \in 1 .. l : i \in 1 .. m \/ i = l
    BY <1>1, <1>2
  <2>2. QED
    BY <1>1, <1>4, <2>1
<1>7. ASSUME NEW i \in 1 .. l, NEW j \in 1 .. Size(f, i)
      PROVE  NodeIs(u[NodesBefore(f, i) + j], f, l, i, j)
  <2>1. CASE i = l
    BY <1>1, <1>5, <1>7, <2>1
  <2>2. CASE i # l
    <3>1. i \in 1 .. m /\ i \in 1 .. n /\ i + 1 \in 1 .. n + 1 /\ l \in i + 1 .. n + 1
          /\ ~ (m < i) /\ ~ (l < i) /\ i \in 1 .. n + 1
      BY <1>1, <1>2, <2>2
    <3>2. /\ NodesBefore(f, i) \in Nat /\ Size(f, i) \in Nat
          /\ NodesBefore(f, i + 1) = NodesBefore(f, i) + Size(f, i)
          /\ NodesBefore(f, i + 1) <= NodesBefore(f, l)
      BY <3>1, PairFacts, NodesBeforeFacts, NodesGrow
    <3>3. NodesBefore(f, i) + j \in 1 .. NodesBefore(f, l)
      BY <1>3, <3>2, SMTT(30)
    <3>4. u[NodesBefore(f, i) + j] = h[NodesBefore(f, i) + j]
      BY <1>5, <3>3
    <3>5. NodeIs(h[NodesBefore(f, i) + j], f, m, i, j)
      BY <1>4, <3>1
    <3>6. NextOf(f, m, i, j) = NextOf(f, l, i, j)
      BY <3>1 DEF NextOf
    <3>7. QED
      BY <3>4, <3>5, <3>6 DEF NodeIs
  <2>3. QED
    BY <2>1, <2>2
<1>8. HeapOf(u, f, l, l)
  BY <1>3, <1>5, <1>6, <1>7 DEF HeapOf
<1>9. QED
  BY <1>1, <1>8 DEF u

LEMMA LastHeap ==
  ASSUME NEW f \in Files, NEW h, HeapOf(h, f, Len(f.header), Len(f.header))
  PROVE  HeapOf(h, f, Len(f.header) - 1, Len(f.header))
<1> DEFINE n == Len(f.header)
<1>1. \A i \in 1 .. n : ~ (n < i /\ i < n) /\ ~ (n - 1 < i /\ i < n)
  BY PairFacts
<1>2. \A i \in 1 .. n : \A j : NextOf(f, n, i, j) = NextOf(f, n - 1, i, j)
  BY <1>1 DEF NextOf
<1>3. QED
  BY <1>2 DEF HeapOf, NodeIs

LEMMA LinkHeap ==
  ASSUME NEW f \in Files, NEW k \in 1 .. Len(f.header) - 1,
         NEW h, HeapOf(h, f, k, Len(f.header)),
         NEW v, v = NodesBefore(f, k) + 1
  PROVE  HeapOf([h EXCEPT ![v].next = HeadNode(f, k + 1)], f, k - 1, Len(f.header))
<1> DEFINE n == Len(f.header)
           u == [h EXCEPT ![v].next = HeadNode(f, k + 1)]
<1>1. /\ n \in Nat /\ k \in Nat /\ k >= 1 /\ k < n /\ k \in 1 .. n
      /\ k \in 1 .. n + 1 /\ k + 1 \in 1 .. n + 1 /\ n + 1 \in k + 1 .. n + 1
      /\ n + 1 \in 1 .. n + 1
  BY PairFacts
<1>2. /\ IsSequence(h) /\ Len(h) = NodesBefore(f, n + 1)
      /\ \A i \in 1 .. n : Size(f, i) >= 1
      /\ \A i \in 1 .. n : \A j \in 1 .. Size(f, i) :
           NodeIs(h[NodesBefore(f, i) + j], f, k, i, j)
  BY DEF HeapOf
<1>3. /\ NodesBefore(f, k) \in Nat /\ Size(f, k) \in Nat /\ Size(f, k) >= 1
      /\ NodesBefore(f, k + 1) = NodesBefore(f, k) + Size(f, k)
      /\ NodesBefore(f, k + 1) <= NodesBefore(f, n + 1)
      /\ NodesBefore(f, n + 1) \in Nat
  BY <1>1, <1>2, PairFacts, NodesBeforeFacts, NodesGrow
<1>4. DOMAIN h = 1 .. Len(h) /\ Len(h) \in Nat /\ v \in DOMAIN h
  BY <1>2, <1>3, SequenceFacts
<1>5. /\ IsSequence(u) /\ Len(u) = Len(h)
      /\ \A w \in DOMAIN h : w # v => u[w] = h[w]
      /\ u[v] = [h[v] EXCEPT !.next = HeadNode(f, k + 1)]
  <2>1. u = [w \in 1 .. Len(h) |-> u[w]]
    BY <1>4
  <2>2. /\ \A w \in DOMAIN h : w # v => u[w] = h[w]
        /\ u[v] = [h[v] EXCEPT !.next = HeadNode(f, k + 1)]
    BY <1>4
  <2> HIDE DEF u
  <2>3. QED
    BY <1>4, <2>1, <2>2, SequenceOf
<1> HIDE DEF u
<1>6. NodeIs(u[v], f, k - 1, k, 1)
  <2>1. NodeIs(h[v], f, k, k, 1)
    BY <1>1, <1>2, <1>3
  <2>2. /\ u[v].next = HeadNode(f, k + 1) /\ u[v].back = h[v].back
        /\ DOMAIN u[v] = DOMAIN h[v]
    BY <1>5, <2>1 DEF NodeIs
  <2>3. NextOf(f, k - 1, k, 1) = HeadNode(f, k + 1)
    BY <1>1 DEF NextOf
  <2>4. QED
    BY <2>1, <2>2, <2>3 DEF NodeIs
<1>7. ASSUME NEW i \in 1 .. n, NEW j \in 1 .. Size(f, i), ~ (i = k /\ j = 1)
      PROVE  NodeIs(u[NodesBefore(f, i) + j], f, k - 1, i, j)
  <2>1. /\ NodesBefore(f, i) \in Nat /\ Size(f, i) \in Nat /\ i \in Nat
        /\ NodesBefore(f, i + 1) = NodesBefore(f, i) + Size(f, i)
        /\ i \in 1 .. n + 1 /\ i + 1 \in 1 .. n + 1 /\ n + 1 \in i + 1 .. n + 1
        /\ NodesBefore(f, i + 1) <= NodesBefore(f, n + 1)
    <3>1. i \in 1 .. n + 1 /\ i + 1 \in 1 .. n + 1 /\ n + 1 \in i + 1 .. n + 1 /\ i \in Nat
      BY <1>1
    <3>2. QED
      BY <3>1, PairFacts, NodesBeforeFacts, NodesGrow
  <2>2. NodesBefore(f, i) + j # v
    <3>1. CASE i = k
      BY <1>3, <1>7, <3>1
    <3>2. CASE i < k
      <4>1. k \in i + 1 .. n + 1
        BY <1>1, <2>1, <3>2
      <4>2. NodesBefore(f, i + 1) <= NodesBefore(f, k)
        BY <2>1, <4>1, NodesGrow
      <4>3. QED
        BY <1>3, <2>1, <4>2
    <3>3. CASE i > k
      <4>1. i \in k + 1 .. n + 1
        BY <1>1, <2>1, <3>3
      <4>2. NodesBefore(f, k + 1) <= NodesBefore(f, i)
        BY <1>1, <4>1, NodesGrow
      <4>3. QED
        BY <1>3, <2>1, <4>2, SMTT(30)
    <3>4. QED
      BY <1>1, <2>1, <3>1, <3>2, <3>3
  <2>3. NodesBefore(f, i) + j \in DOMAIN h
    <3>1. DOMAIN h = 1 .. NodesBefore(f, n + 1) /\ NodesBefore(f, n + 1) \in Nat
      BY <1>2, <1>3, <1>4
    <3>2. j \in 1 .. Size(f, i)
      OBVIOUS
    <3> HIDE DEF n
    <3>3. QED
      BY <2>1, <3>1, <3>2, SMTT(30)
  <2>4. NodeIs(h[NodesBefore(f, i) + j], f, k, i, j)
    BY <1>2
  <2>5. NextOf(f, k, i, j) = NextOf(f, k - 1, i, j)
    <3>1. j > 1 \/ i # k
      BY <1>7, <2>1
    <3>2. i # k => (k < i <=> k - 1 < i)
      BY <1>1, <2>1
    <3>3. QED
      BY <3>1, <3>2 DEF NextOf
  <2>6. QED
    BY <1>5, <2>2, <2>3, <2>4, <2>5 DEF NodeIs
<1>8. \A i \in 1 .. n : \A j \in 1 .. Size(f, i) :
        NodeIs(u[NodesBefore(f, i) + j], f, k - 1, i, j)
  BY <1>6, <1>7
<1>9. HeapOf(u, f, k - 1, n)
  BY <1>2, <1>5, <1>8 DEF HeapOf
<1>10. QED
  BY <1>9 DEF u

-----------------------------------------------------------------------------
(* The inductive invariant of the header.  Nothing is asked of a state the  *)
(* process died in, except that it goes nowhere.                            *)

Sections == {"header", "lexer", "grammar", "program", "none"}

Control ==
  /\ file \in Files /\ section \in Sections
  /\ phase = "read" => section \in {"header", "lexer", "grammar"} /\ iter = NULL
  /\ phase \notin {"read", "report", "done"} => section = "program"
  /\ phase \in {"report", "done"} => section \in {"program", "none"}
  /\ phase = "header" /\ iter = NULL => ~ crashed
  /\ phase = "done" => ~ crashed

\* How many declarations have been shifted.
Shifted == Len(file.header) - Len(unread)

Stacked ==
  /\ IsSequence(unread) /\ Len(unread) <= Len(file.header)
  /\ \A i \in 1 .. Len(unread) : unread[i] = file.header[Shifted + i]
  /\ IsSequence(values)
  /\ \A i \in 1 .. Len(values) : values[i] = NodesBefore(file, i) + 1
  /\ Heap(file, Len(values), Shifted)
  /\ \/ header = NULL /\ Len(values) = Shifted
     \/ /\ unread = <<>> /\ Len(values) < Len(file.header)
        /\ header = HeadNode(file, Len(values) + 1) /\ file.damaged # "header"

Linked ==
  /\ Heap(file, 0, Len(file.header)) /\ header = HeadNode(file, 1)
  /\ file.damaged # "header"

HeaderOk ==
  /\ section = "header" => Stacked
  /\ section \in {"lexer", "grammar", "program"} => Linked
  /\ section = "none" => header = NULL

FreedRight == IsInjective(freed) /\ Range(freed) = (DOMAIN kv) \ Lost

FreedOk == IF section = "none" \/ phase = "done" THEN FreedRight ELSE freed = <<>>

ReaderInv == Control /\ (~ crashed => HeaderOk /\ FreedOk)

LEMMA EmptySequence == IsSequence(<<>>) /\ Len(<<>>) = 0 /\ 1 .. 0 = {}
  BY DEF IsSequence

LEMMA HeadNodeFacts ==
  ASSUME NEW f \in Files, NEW i \in 1 .. Len(f.header),
         \A l \in 1 .. Len(f.header) : Size(f, l) >= 1
  PROVE  HeadNode(f, i) \in Nat \ {0}
<1>1. Len(f.header) \in Nat /\ i \in 1 .. Len(f.header) + 1
  BY PairFacts
<1>2. /\ NodesBefore(f, i) \in Nat /\ Size(f, i) \in Nat
      /\ NodesBefore(f, i + 1) = NodesBefore(f, i) + Size(f, i)
  BY <1>1, PairFacts, NodesBeforeFacts
<1>3. QED
  BY <1>2 DEF HeadNode

LEMMA ReaderStart == Init => ReaderInv
<1> SUFFICES ASSUME Init PROVE ReaderInv
  OBVIOUS
<1>1. /\ file \in Files /\ section = "header" /\ unread = file.header
      /\ values = <<>> /\ header = NULL /\ kv = <<>> /\ freed = <<>>
      /\ phase = "read" /\ crashed = FALSE /\ iter = NULL
  BY DEF Init, ReaderInit
<1>2. Control
  BY <1>1 DEF Control, Sections
<1>3. IsSequence(unread) /\ Len(unread) \in Nat /\ Len(unread) = Len(file.header)
  BY <1>1, FilesAssumption, PairFacts
<1>4. Shifted = 0 /\ Len(values) = 0
  BY <1>1, <1>3 DEF Shifted
<1>5. Heap(file, Len(values), Shifted)
  <2>1. NodesBefore(file, 0 + 1) = 0
    BY <1>1, NodesBeforeFacts
  <2>2. QED
    BY <1>1, <1>4, <2>1, EmptySequence DEF Heap, HeapOf
<1>6. Stacked
  <2>1. \A i \in 1 .. Len(unread) : unread[i] = file.header[Shifted + i]
    BY <1>1, <1>4
  <2>2. \A i \in 1 .. Len(values) : values[i] = NodesBefore(file, i) + 1
    BY <1>4
  <2>3. QED
    BY <1>1, <1>3, <1>4, <1>5, <2>1, <2>2, EmptySequence DEF Stacked
<1>7. QED
  BY <1>1, <1>2, <1>6 DEF ReaderInv, HeaderOk, FreedOk

\* A step that is not the reader's, and not the last.
Rest ==
  /\ ~ crashed /\ UNCHANGED readerVars
  /\ phase \notin {"read", "report", "done"} /\ phase' \notin {"read", "done"}
  /\ phase' = "header" => iter' # NULL

LEMMA RestSteps ==
  ASSUME ReaderInv, Next
  PROVE  ReadStep \/ Rest \/ Exit
<1> USE DEF Rest, Running, At
<1>1. CASE EnterHeader
  <2>1. header # NULL
    <3>1. ~ crashed /\ section = "program"
      BY <1>1 DEF EnterHeader, ReaderInv, Control
    <3>2. Linked /\ file \in Files
      BY <3>1 DEF ReaderInv, HeaderOk, Control
    <3>3. 1 \in 1 .. Len(file.header)
      BY <3>2, PairFacts
    <3>4. QED
      BY <3>2, <3>3, HeadNodeFacts DEF Linked, Heap, HeapOf, NULL
  <2>2. QED
    BY <1>1, <2>1 DEF EnterHeader
<1>2. CASE RegisterAction
  BY <1>2 DEF RegisterAction, StepTo
<1>3. CASE RegisterGrammar
  BY <1>3 DEF RegisterGrammar, StepTo
<1>4. CASE HeaderCode
  BY <1>4 DEF HeaderCode, StepTo
<1>5. CASE SkipDeclaration
  BY <1>5 DEF SkipDeclaration, StepTo
<1>6. CASE EnterRound2
  BY <1>6 DEF EnterRound2
<1>7. CASE Precedence
  BY <1>7 DEF Precedence, StepTo
<1>8. CASE AddMacro
  BY <1>8 DEF AddMacro, StepTo
<1>9. CASE StartOrDestructor
  BY <1>9 DEF StartOrDestructor, StepTo
<1>10. CASE NumberTokens
  BY <1>10 DEF NumberTokens
<1>11. CASE LexerElement
  BY <1>11 DEF LexerElement
<1>12. CASE EnterGrammar
  BY <1>12 DEF EnterGrammar
<1>13. CASE GrammarElement
  BY <1>13 DEF GrammarElement
<1>14. CASE GrammarEnd
  BY <1>14 DEF GrammarEnd
<1>15. CASE InitCC
  BY <1>15 DEF InitCC
<1>16. CASE OpenOutputs
  BY <1>16 DEF OpenOutputs
<1>17. CASE WriteHeader
  BY <1>17 DEF WriteHeader
<1>18. CASE WriteSource
  BY <1>18 DEF WriteSource
<1>19. QED
  BY <1>1, <1>2, <1>3, <1>4, <1>5, <1>6, <1>7, <1>8, <1>9, <1>10, <1>11, <1>12,
     <1>13, <1>14, <1>15, <1>16, <1>17, <1>18 DEF Next

LEMMA RestInv == ReaderInv /\ Rest => ReaderInv'
<1> SUFFICES ASSUME ReaderInv, Rest PROVE ReaderInv'
  OBVIOUS
<1>1. /\ ~ crashed /\ phase \notin {"read", "report", "done"} /\ section = "program"
      /\ file' = file /\ section' = section /\ unread' = unread /\ values' = values
      /\ header' = header /\ kv' = kv /\ freed' = freed
      /\ phase' \notin {"read", "done"}
      /\ phase' = "header" => iter' # NULL
  BY DEF Rest, ReaderInv, Control, readerVars
<1>2. Control'
  BY <1>1 DEF ReaderInv, Control, Sections
<1>3. HeaderOk'
  <2>1. Linked
    BY <1>1 DEF ReaderInv, HeaderOk
  <2>2. Linked'
    BY <1>1, <2>1 DEF Linked, Heap
  <2>3. QED
    BY <1>1, <2>2 DEF HeaderOk
<1>4. FreedOk'
  BY <1>1 DEF ReaderInv, FreedOk
<1>5. QED
  BY <1>2, <1>3, <1>4 DEF ReaderInv

LEMMA ReadingFacts ==
  ASSUME ReaderInv, Reading
  PROVE  /\ ~ crashed /\ phase = "read" /\ iter = NULL /\ file \in Files
         /\ section \in {"header", "lexer", "grammar"}
         /\ HeaderOk /\ freed = <<>>
  BY DEF ReaderInv, Reading, Control, FreedOk

LEMMA DeclarePairInv ==
  ASSUME ReaderInv, DeclarePair, iter' = iter
  PROVE  ReaderInv'
<1> DEFINE n == Len(file.header)
           m == Shifted
           p == unread[1]
           names == TokenList(p.values)
           taken == Taken(names, p.type \in AsciiTypes)
           new == IF p.type \in ListTypes
                  THEN TokensToKv(taken, p.key, p.type,
                         IF p.type = "token" THEN "token_ascii" ELSE p.type)
                  ELSE KeyVal(p)
<1>1. /\ Reading /\ section = "header" /\ unread # <<>>
      /\ file' = file /\ section' = section /\ header' = header /\ freed' = freed
      /\ phase' = phase
      /\ values' = Append(values, Len(kv) + 1) /\ unread' = Tail(unread)
  BY DEF DeclarePair, Shifting
<1>2. kv' = kv \o new /\ (p.type \in ListTypes /\ ~ crashed' => taken # <<>>)
  BY DEF DeclarePair, ReportOrCrash
<1>3. Stacked /\ ~ crashed /\ file \in Files /\ freed = <<>> /\ phase = "read" /\ iter = NULL
  BY <1>1, ReadingFacts DEF HeaderOk
<1>4. Control'
  BY <1>1, <1>3 DEF ReaderInv, Control
<1> SUFFICES ASSUME ~ crashed' PROVE (HeaderOk /\ FreedOk)'
  BY <1>4 DEF ReaderInv
<1>5. /\ n \in Nat /\ Len(unread) \in Nat /\ Len(unread) >= 1 /\ m \in 0 .. n - 1
      /\ IsSequence(unread') /\ Len(unread') = Len(unread) - 1
      /\ \A i \in 1 .. Len(unread') : unread'[i] = unread[i + 1]
  <2>1. IsSequence(unread) /\ Len(unread) <= n
    BY <1>3 DEF Stacked
  <2>2. /\ IsSequence(unread') /\ Len(unread') = Len(unread) - 1 /\ Len(unread) >= 1
        /\ \A i \in 1 .. Len(unread') : unread'[i] = unread[i + 1]
    BY <1>1, <2>1, TailFacts
  <2>3. Len(unread) \in Nat /\ n \in Nat
    BY <1>3, <2>1, SequenceFacts, PairFacts
  <2>4. QED
    BY <2>1, <2>2, <2>3 DEF Shifted
<1>6. Shifted' = m + 1
  BY <1>1, <1>5 DEF Shifted
<1>7. p = file.header[m + 1] /\ m + 1 \in 1 .. n
  BY <1>3, <1>5 DEF Stacked
<1>8. header = NULL /\ Len(values) = m
  BY <1>1, <1>3 DEF Stacked
<1>9. Len(kv) = NodesBefore(file, m + 1) /\ IsSequence(kv) /\ HeapOf(kv, file, m, m)
  BY <1>3, <1>8 DEF Stacked, Heap, HeapOf
<1>10. /\ IsSequence(new) /\ Len(new) = Size(file, m + 1) /\ Len(new) >= 1
       /\ \A j \in 1 .. Len(new) : NodeIs(new[j], file, m + 1, m + 1, j)
  <2> DEFINE z == Size(file, m + 1)
             b == NodesBefore(file, m + 1)
  <2>1. b \in Nat /\ z \in Nat /\ NodesBefore(file, m + 1 + 1) = b + z /\ ~ (m + 1 < m + 1)
    <3>1. m + 1 \in 1 .. n + 1
      BY <1>5, <1>7
    <3>2. QED
      BY <1>3, <1>5, <1>7, <3>1, PairFacts, NodesBeforeFacts, SMTT(30)
  <2>2. CASE p.type \in ListTypes
    <3>1. taken = PairsOf(file)[m + 1].values /\ IsSequence(taken) /\ Len(taken) = z
      BY <1>3, <1>7, <2>2, PairFacts, ZenonT(30) DEF Size
    <3>2. z >= 1
      BY <1>2, <2>2, <3>1, TailFacts
    <3>3. DOMAIN taken = 1 .. z
      BY <3>1, SequenceFacts
    <3> HIDE DEF taken
    <3>4. new = TokensToKv(taken, p.key, p.type,
                           IF p.type = "token" THEN "token_ascii" ELSE p.type)
      BY <2>2
    <3> HIDE DEF new, p
    <3>5. DOMAIN new = 1 .. z /\ new = [j \in 1 .. z |-> new[j]]
      BY <3>3, <3>4 DEF TokensToKv
    <3>6. IsSequence(new) /\ Len(new) = z
      BY <2>1, <3>5, SequenceOf
    <3>7. ASSUME NEW j \in 1 .. z
          PROVE  /\ "next" \in DOMAIN new[j] /\ "back" \in DOMAIN new[j]
                 /\ new[j].next = IF j = 1 THEN NULL ELSE b + j - 1
                 /\ new[j].back = IF j = 1 THEN b + z ELSE NULL
      BY <1>9, <3>1, <3>3, <3>4 DEF TokensToKv
    <3>8. ASSUME NEW j \in 1 .. z
          PROVE  NodeIs(new[j], file, m + 1, m + 1, j)
      <4>1. new[j].next = NextOf(file, m + 1, m + 1, j)
        BY <2>1, <3>7 DEF NextOf
      <4>2. j = 1 \/ j > 1
        BY <2>1
      <4>3. b + z # NULL
        BY <2>1, <3>2 DEF NULL
      <4>4. QED
        BY <2>1, <3>7, <4>1, <4>2, <4>3 DEF NodeIs
    <3>9. QED
      BY <3>2, <3>6, <3>8
  <2>3. CASE p.type \notin ListTypes
    <3>1. z = 1
      BY <1>3, <1>7, <2>3, PairFacts
    <3>2. new = KeyVal(p)
      BY <2>3
    <3> HIDE DEF new, p
    <3>3. /\ new = [j \in 1 .. 1 |-> new[j]]
          /\ new[1] = [type |-> p.type, key |-> p.key, value |-> p.values[1],
                       next |-> NULL, back |-> NULL]
      BY <3>2 DEF KeyVal
    <3>4. IsSequence(new) /\ Len(new) = 1
      BY <3>3, SequenceOf
    <3>5. NextOf(file, m + 1, m + 1, 1) = NULL
      BY <2>1 DEF NextOf
    <3>6. NodeIs(new[1], file, m + 1, m + 1, 1)
      BY <3>1, <3>3, <3>5 DEF NodeIs
    <3>7. QED
      BY <3>1, <3>4, <3>6
  <2>4. QED
    BY <2>2, <2>3
<1> HIDE DEF new, p
<1>11. HeapOf(kv', file, m + 1, m + 1)
  BY <1>2, <1>3, <1>5, <1>9, <1>10, DeclareHeap
<1>12. /\ IsSequence(values') /\ Len(values') = m + 1
       /\ \A i \in 1 .. Len(values') : values'[i] = NodesBefore(file, i) + 1
  <2>1. /\ IsSequence(values)
        /\ \A i \in 1 .. m : values[i] = NodesBefore(file, i) + 1
    BY <1>3, <1>8 DEF Stacked
  <2>2. /\ IsSequence(values') /\ Len(values') = m + 1
        /\ \A i \in 1 .. m : values'[i] = values[i]
        /\ values'[m + 1] = Len(kv) + 1
    BY <1>1, <1>8, <2>1, Appended
  <2>3. \A i \in 1 .. m + 1 : i \in 1 .. m \/ i = m + 1
    BY <1>5
  <2>4. QED
    BY <1>9, <2>1, <2>2, <2>3
<1>13. \A i \in 1 .. Len(unread') : unread'[i] = file.header[m + 1 + i]
  <2> TAKE i \in 1 .. Len(unread')
  <2>1. i + 1 \in 1 .. Len(unread) /\ m + (i + 1) = m + 1 + i
    BY <1>5
  <2>2. unread'[i] = unread[i + 1] /\ unread[i + 1] = file.header[m + (i + 1)]
    BY <1>3, <1>5, <2>1 DEF Stacked
  <2>3. QED
    BY <2>1, <2>2
<1>14. Stacked'
  <2>1. Heap(file, Len(values), Shifted)'
    BY <1>1, <1>6, <1>11, <1>12 DEF Heap
  <2>2. Len(unread') <= n
    BY <1>5 DEF Shifted
  <2>3. QED
    BY <1>1, <1>5, <1>6, <1>8, <1>12, <1>13, <2>1, <2>2 DEF Stacked
<1>15. QED
  BY <1>1, <1>3, <1>14 DEF HeaderOk, FreedOk

LEMMA HeaderLastInv ==
  ASSUME ReaderInv, HeaderLast, iter' = iter
  PROVE  ReaderInv'
<1> DEFINE n == Len(file.header)
<1>1. /\ Reading /\ section = "header" /\ unread = <<>> /\ header = NULL
      /\ file.damaged # "header"
      /\ header' = Last(values) /\ values' = Front(values)
      /\ file' = file /\ section' = section /\ unread' = unread /\ kv' = kv
      /\ freed' = freed /\ crashed' = crashed /\ phase' = phase
  BY DEF HeaderLast, Linking
<1>2. Stacked /\ ~ crashed /\ file \in Files /\ freed = <<>> /\ phase = "read" /\ iter = NULL
  BY <1>1, ReadingFacts DEF HeaderOk
<1>3. n \in Nat /\ n >= 1 /\ Shifted = n /\ Shifted' = n
  BY <1>1, <1>2, PairFacts, EmptySequence DEF Shifted
<1>4. /\ IsSequence(values) /\ Len(values) = n
      /\ \A i \in 1 .. n : values[i] = NodesBefore(file, i) + 1
  <2>1. Len(values) = n
    <3>1. 1 \in 1 .. n /\ \A i \in 1 .. n : Size(file, i) >= 1
      BY <1>2, <1>3 DEF Stacked, Heap, HeapOf
    <3>2. \A i \in 1 .. n : HeadNode(file, i) # NULL
      BY <1>2, <3>1, HeadNodeFacts DEF NULL
    <3>3. IsSequence(values) /\ Len(values) \in Nat
      BY <1>2, SequenceFacts DEF Stacked
    <3>4. Len(values) < n => Len(values) + 1 \in 1 .. n
      BY <1>3, <3>3
    <3>5. QED
      BY <1>1, <1>2, <1>3, <3>2, <3>4 DEF Stacked
  <2>2. QED
    BY <1>2, <2>1 DEF Stacked
<1>5. /\ IsSequence(values') /\ Len(values') = n - 1
      /\ \A i \in 1 .. n - 1 : values'[i] = NodesBefore(file, i) + 1
      /\ header' = NodesBefore(file, n) + 1
  <2>1. values # <<>>
    BY <1>3, <1>4, EmptySequence
  <2>2. /\ IsSequence(values') /\ Len(values') = n - 1
        /\ \A i \in 1 .. n - 1 : values'[i] = values[i]
        /\ header' = values[n]
    BY <1>1, <1>4, <2>1, FrontFacts
  <2>3. n \in 1 .. n /\ \A i \in 1 .. n - 1 : i \in 1 .. n
    BY <1>3
  <2>4. QED
    BY <1>4, <2>2, <2>3
<1>6. header' = HeadNode(file, n - 1 + 1)
  <2>1. n - 1 + 1 = n
    BY <1>3
  <2>2. QED
    BY <1>5, <2>1 DEF HeadNode
<1>7. HeapOf(kv, file, n - 1, n)
  BY <1>2, <1>3, <1>4, LastHeap DEF Stacked, Heap
<1>8. Stacked'
  <2>1. Heap(file, Len(values), Shifted)'
    BY <1>1, <1>3, <1>5, <1>7 DEF Heap
  <2>2. \A i \in 1 .. Len(unread') : unread'[i] = file.header[Shifted' + i]
    BY <1>1, EmptySequence
  <2>3. IsSequence(unread') /\ Len(unread') <= n /\ n - 1 < n
    BY <1>1, <1>3, EmptySequence
  <2>4. QED
    BY <1>1, <1>5, <1>6, <2>1, <2>2, <2>3 DEF Stacked
<1>9. QED
  BY <1>1, <1>2, <1>8 DEF ReaderInv, HeaderOk, FreedOk, Control

LEMMA HeaderLinkInv ==
  ASSUME ReaderInv, HeaderLink, iter' = iter
  PROVE  ReaderInv'
<1> DEFINE n == Len(file.header)
           k == Len(values)
           v == Last(values)
<1>1. /\ Reading /\ section = "header" /\ unread = <<>> /\ header # NULL /\ values # <<>>
      /\ file.damaged # "header"
      /\ header' = HeadOf(v) /\ values' = Front(values)
      /\ kv' = [kv EXCEPT ![v].next = header]
      /\ file' = file /\ section' = section /\ unread' = unread
      /\ freed' = freed /\ crashed' = crashed /\ phase' = phase
  BY DEF HeaderLink, Linking
<1>2. Stacked /\ ~ crashed /\ file \in Files /\ freed = <<>> /\ phase = "read" /\ iter = NULL
  BY <1>1, ReadingFacts DEF HeaderOk
<1>3. n \in Nat /\ n >= 1 /\ Shifted = n /\ Shifted' = n
  BY <1>1, <1>2, PairFacts, EmptySequence DEF Shifted
<1>4. /\ IsSequence(values) /\ k < n /\ header = HeadNode(file, k + 1)
      /\ \A i \in 1 .. k : values[i] = NodesBefore(file, i) + 1
      /\ HeapOf(kv, file, k, n)
  BY <1>1, <1>2, <1>3 DEF Stacked, Heap
<1>5. /\ IsSequence(values') /\ Len(values') = k - 1 /\ k >= 1 /\ k \in Nat
      /\ \A i \in 1 .. k - 1 : values'[i] = values[i]
      /\ v = values[k]
  BY <1>1, <1>4, FrontFacts, SequenceFacts
<1>6. v = NodesBefore(file, k) + 1
  BY <1>4, <1>5
<1>7. \A i \in 1 .. k - 1 : values'[i] = NodesBefore(file, i) + 1
  <2>1. \A i \in 1 .. k - 1 : i \in 1 .. k
    BY <1>5
  <2>2. QED
    BY <1>4, <1>5, <2>1
<1> HIDE DEF v, k
<1>8. HeapOf(kv', file, k - 1, n)
  <2>1. k \in 1 .. n - 1
    BY <1>3, <1>4, <1>5
  <2>2. QED
    BY <1>1, <1>2, <1>4, <1>6, <2>1, LinkHeap
<1>9. header' = HeadNode(file, k - 1 + 1)
  <2>1. n \in 1 .. n /\ k \in 1 .. n /\ k - 1 + 1 = k /\ k # n
    BY <1>3, <1>4, <1>5
  <2>2. HeadOf(v) = NodesBefore(file, k + 1)
    BY <1>2, <1>4, <1>6, <2>1, HeadIs DEF Heap
  <2>3. QED
    BY <1>1, <2>1, <2>2 DEF HeadNode
<1>10. Stacked'
  <2>1. Heap(file, Len(values), Shifted)'
    BY <1>1, <1>3, <1>5, <1>8 DEF Heap
  <2>2. \A i \in 1 .. Len(unread') : unread'[i] = file.header[Shifted' + i]
    BY <1>1, EmptySequence
  <2>3. IsSequence(unread') /\ Len(unread') <= n /\ k - 1 < n
    BY <1>1, <1>3, <1>4, <1>5, EmptySequence
  <2>4. QED
    BY <1>1, <1>5, <1>7, <1>9, <2>1, <2>2, <2>3 DEF Stacked
<1>11. QED
  BY <1>1, <1>2, <1>10 DEF ReaderInv, HeaderOk, FreedOk, Control

LEMMA HeaderEndInv ==
  ASSUME ReaderInv, HeaderEnd, iter' = iter
  PROVE  ReaderInv'
<1> DEFINE n == Len(file.header)
<1>1. /\ Reading /\ section = "header" /\ unread = <<>> /\ file.damaged # "header"
      /\ header # NULL /\ values = <<>> /\ section' = "lexer" /\ file' = file
      /\ header' = header /\ kv' = kv /\ freed' = freed
      /\ crashed' = crashed /\ phase' = phase
  BY DEF HeaderEnd, Linking
<1>2. Stacked /\ ~ crashed /\ file \in Files /\ freed = <<>> /\ phase = "read" /\ iter = NULL
  BY <1>1, ReadingFacts DEF HeaderOk
<1>3. n \in Nat /\ Shifted = n /\ Len(values) = 0
  BY <1>1, <1>2, PairFacts, EmptySequence DEF Shifted
<1>4. Heap(file, 0, n) /\ header = HeadNode(file, 0 + 1)
  BY <1>1, <1>2, <1>3 DEF Stacked
<1>5. Linked'
  BY <1>1, <1>4 DEF Linked, Heap
<1>6. QED
  BY <1>1, <1>2, <1>5 DEF ReaderInv, HeaderOk, FreedOk, Control, Sections

LEMMA LaterInv ==
  ASSUME ReaderInv, iter' = iter,
         DeclareLexerRule \/ LexerEnd \/ DeclareGrammar \/ LinkRules \/ Program
  PROVE  ReaderInv'
<1>1. /\ Reading /\ section \in {"lexer", "grammar"}
      /\ file' = file /\ header' = header /\ kv' = kv /\ freed' = freed
      /\ \/ section' = section /\ phase' = phase
         \/ section' = "grammar" /\ phase' = phase
         \/ section' = "program" /\ phase' = "report"
         \/ section' = "program" /\ phase' = "header" /\ crashed' = crashed
  BY DEF DeclareLexerRule, LexerEnd, DeclareGrammar, LinkRules, Program, Linking,
         Shifting
<1>2. ~ crashed /\ file \in Files /\ freed = <<>> /\ phase = "read" /\ iter = NULL /\ Linked
  BY <1>1, ReadingFacts DEF HeaderOk
<1>3. Linked'
  BY <1>1, <1>2 DEF Linked, Heap
<1>4. QED
  BY <1>1, <1>2, <1>3 DEF ReaderInv, HeaderOk, FreedOk, Control, Sections

LEMMA SyntaxErrorInv ==
  ASSUME ReaderInv, SyntaxError, iter' = iter
  PROVE  ReaderInv'
<1>1. /\ Reading /\ file.damaged = section
      /\ file' = file /\ kv' = kv /\ header' = NULL
      /\ section' = "none" /\ phase' = "report"
  BY DEF SyntaxError
<1>2. /\ ~ crashed /\ file \in Files /\ freed = <<>> /\ iter = NULL
      /\ section \in {"header", "lexer", "grammar"} /\ HeaderOk
  BY <1>1, ReadingFacts
<1>3. Control'
  BY <1>1, <1>2 DEF Control, Sections
<1> DEFINE F == FlattenSeq([i \in DOMAIN Unlinked |-> KeyValFree(Unlinked[i])])
<1>4. ~ crashed' => freed' = <<>> \o F
  BY <1>2 DEF SyntaxError
<1>5. F \in Seq(Nat) /\ IsInjective(F) /\ Range(F) = (DOMAIN kv) \ Lost
  <2>1. CASE section = "header"
    <3>1. Stacked /\ Unlinked = values /\ Lost = {}
      BY <1>1, <1>2, <2>1 DEF HeaderOk, Unlinked, Lost
    <3>2. PICK m : m = Len(values)
      OBVIOUS
    <3>3. /\ IsSequence(values) /\ Len(unread) \in Nat /\ Len(file.header) \in Nat
          /\ m \in Nat
      BY <1>2, <3>1, <3>2, SequenceFacts, PairFacts DEF Stacked
    <3>4. m \in 0 .. Len(file.header) /\ Heap(file, m, m)
      <4>1. CASE header = NULL /\ Len(values) = Shifted
        BY <3>1, <3>2, <3>3, <4>1 DEF Stacked, Shifted
      <4>2. CASE /\ unread = <<>> /\ Len(values) < Len(file.header)
                 /\ header = HeadNode(file, Len(values) + 1) /\ file.damaged # "header"
        BY <1>1, <2>1, <4>2
      <4>3. QED
        BY <3>1, <4>1, <4>2 DEF Stacked
    <3>5. QED
      BY <1>2, <3>1, <3>2, <3>3, <3>4, FreedOnError DEF Stacked
  <2>2. CASE section # "header"
    <3>1. Linked /\ Unlinked = <<header>>
      BY <1>2, <2>2 DEF HeaderOk, Unlinked
    <3>2. /\ KeyValFree(header) \in Seq(Nat) /\ IsInjective(KeyValFree(header))
          /\ Range(KeyValFree(header)) = (DOMAIN kv) \ Lost
      BY <1>1, <1>2, <2>2, <3>1, FreedAtEnd DEF Linked
    <3> DEFINE ss == [i \in DOMAIN Unlinked |-> KeyValFree(Unlinked[i])]
    <3>3. ss = [i \in 1 .. 1 |-> KeyValFree(header)]
      BY <3>1
    <3> HIDE DEF ss
    <3>4. ss \in Seq(Seq(Nat)) /\ Len(ss) = 1 /\ ss[1] = KeyValFree(header)
      BY <3>2, <3>3
    <3>5. \E g \in [0 .. Len(ss) -> Seq(Nat)] :
            /\ g[0] = <<>> /\ FlattenSeq(ss) = g[Len(ss)]
            /\ \A i \in 1 .. Len(ss) : g[i] = g[i - 1] \o ss[i]
      BY <3>4, FlattenIs, ZenonT(30)
    <3>6. PICK g : /\ g[0] = <<>> /\ FlattenSeq(ss) = g[Len(ss)]
                   /\ \A i \in 1 .. Len(ss) : g[i] = g[i - 1] \o ss[i]
      BY <3>5
    <3>7. FlattenSeq(ss) = <<>> \o KeyValFree(header)
      <4>1. 1 \in 1 .. Len(ss) /\ 1 - 1 = 0
        BY <3>4
      <4>2. g[1] = g[1 - 1] \o ss[1]
        BY <3>6, <4>1
      <4>3. QED
        BY <3>4, <3>6, <4>1, <4>2
    <3>8. <<>> \o KeyValFree(header) = KeyValFree(header)
      BY <3>2
    <3>9. F = KeyValFree(header)
      BY <3>7, <3>8 DEF ss
    <3>10. QED
      BY <3>2, <3>9
  <2>3. QED
    BY <2>1, <2>2
<1> HIDE DEF F
<1>6. ~ crashed' => freed' = F
  <2>1. <<>> \o F = F
    BY <1>5
  <2>2. QED
    BY <1>4, <2>1
<1>7. Lost' = Lost
  BY <1>1 DEF Lost, Pairs
<1>8. QED
  BY <1>1, <1>3, <1>5, <1>6, <1>7 DEF ReaderInv, HeaderOk, FreedOk, FreedRight

LEMMA ExitInv == ReaderInv /\ Exit => ReaderInv'
<1> SUFFICES ASSUME ReaderInv, Exit PROVE ReaderInv'
  OBVIOUS
<1>1. /\ phase = "report" /\ ~ crashed /\ phase' = "done" /\ crashed' = crashed
      /\ file' = file /\ section' = section /\ header' = header /\ kv' = kv
      /\ freed' = IF header = NULL THEN freed ELSE freed \o KeyValFree(header)
  BY DEF Exit, Running
<1>2. file \in Files /\ section \in {"program", "none"} /\ HeaderOk /\ FreedOk
  BY <1>1 DEF ReaderInv, Control
<1>3. Control'
  BY <1>1, <1>2 DEF Control, Sections
<1>4. Lost' = Lost
  BY <1>1 DEF Lost, Pairs
<1>5. CASE section = "none"
  BY <1>1, <1>2, <1>3, <1>4, <1>5 DEF ReaderInv, HeaderOk, FreedOk, FreedRight
<1>6. CASE section = "program"
  <2>1. Linked /\ freed = <<>>
    BY <1>1, <1>2, <1>6 DEF HeaderOk, FreedOk
  <2>2. header # NULL
    <3>1. 1 \in 1 .. Len(file.header)
      BY <1>2, PairFacts
    <3>2. QED
      BY <1>2, <2>1, <3>1, HeadNodeFacts DEF Linked, Heap, HeapOf, NULL
  <2> DEFINE F == KeyValFree(header)
  <2>3. F \in Seq(Nat) /\ IsInjective(F) /\ Range(F) = (DOMAIN kv) \ Lost
    BY <1>2, <2>1, FreedAtEnd DEF Linked
  <2>4. freed' = <<>> \o F
    BY <1>1, <2>1, <2>2
  <2> HIDE DEF F
  <2>5. freed' = F
    BY <2>3, <2>4
  <2>6. Linked'
    BY <1>1, <2>1 DEF Linked, Heap
  <2>7. QED
    BY <1>1, <1>3, <1>4, <1>6, <2>3, <2>5, <2>6
       DEF ReaderInv, HeaderOk, FreedOk, FreedRight
<1>7. QED
  BY <1>2, <1>5, <1>6

LEMMA ReaderStepInv == ReaderInv /\ [Next]_vars => ReaderInv'
<1> SUFFICES ASSUME ReaderInv, [Next]_vars PROVE ReaderInv'
  OBVIOUS
<1>1. CASE UNCHANGED vars
  BY <1>1 DEF ReaderInv, Control, HeaderOk, FreedOk, FreedRight, Stacked, Linked,
              Heap, Shifted, Lost, Pairs, vars, vars0, readerVars, tokenVars
<1>2. CASE ReadStep
  <2>1. iter' = iter
    BY <1>2 DEF ReadStep, tokenVars
  <2>2. QED
    BY <1>2, <2>1, DeclarePairInv, HeaderLastInv, HeaderLinkInv, HeaderEndInv,
       LaterInv, SyntaxErrorInv DEF ReadStep, ReaderNext
<1>3. CASE Rest
  BY <1>3, RestInv
<1>4. CASE Exit
  BY <1>4, ExitInv
<1>5. QED
  BY <1>1, <1>2, <1>3, <1>4, RestSteps

LEMMA ReaderAlways == Spec => []ReaderInv
  BY ReaderStart, ReaderStepInv, PTL DEF Spec

(***************************************************************************)
(* The generator walks every token of every declaration once, whatever the *)
(* file: the loops of parse_header see what HeaderOrder says, because the  *)
(* reader keeps each declaration's nodes in one piece of the heap and       *)
(* enters those linked behind it by their first node.                      *)
(***************************************************************************)
THEOREM HeaderIsReadInOrder == Spec => []HeaderIsRead
<1>1. ReaderInv => HeaderIsRead
  <2> SUFFICES ASSUME ReaderInv, phase = "header", iter = NULL
               PROVE  Chain(header) = HeaderOrder(file)
    BY DEF HeaderIsRead
  <2>1. Linked /\ file \in Files
    BY DEF ReaderInv, Control, HeaderOk
  <2>2. QED
    BY <2>1, HeaderChain DEF Linked
<1>2. QED
  BY <1>1, ReaderAlways, PTL

(***************************************************************************)
(* When the process ends every node has been freed once, except those that *)
(* compiler_compiler.y:329 lost; after a syntax error as well.             *)
(***************************************************************************)
THEOREM NodesAreFreedOnce == Spec => []NodesFreedOnce
<1>1. ReaderInv => NodesFreedOnce
  BY DEF ReaderInv, Control, FreedOk, FreedRight, NodesFreedOnce
<1>2. QED
  BY <1>1, ReaderAlways, PTL

-----------------------------------------------------------------------------
(* The exit status: what is counted is finite and the files are written as  *)
(* far as the number of errors says.                                       *)

LexerRules   == Range(file.lexer)
GrammarRules == {Listed(g) : g \in Range(file.grammar)}

Lists ==
  /\ section = "lexer" => unread \in Seq(LexerRules) /\ values \in Seq(LexerRules)
  /\ section = "grammar" => /\ unread \in Seq(Range(file.grammar))
                            /\ values \in Seq(GrammarRules)
  /\ lexer_rules \in Seq(LexerRules) /\ grammar_rules \in Seq(GrammarRules)

RulesFinite ==
  /\ \A name \in DOMAIN rules_cg : IsSequence(rules_cg[name])
  /\ IsFiniteSet(DOMAIN rules) /\ IsFiniteSet(DOMAIN destructors)

\* What has become of the header and of the source.
HeaderOut == out_h = "complete" \/ "h" \in failed
SourceOut == out_c = "complete" \/ "c" \in failed
BothWhole == out_h = "complete" /\ out_c = "complete"

Written ==
  /\ err_n \in Nat
  /\ phase \in {"lexer", "grammar"} => iter \in Nat \ {0}
  /\ phase \notin {"write_header", "write_source", "report", "done"} =>
       out_h = "old" /\ out_c = "old"
  /\ phase \in {"write_header", "write_source"} /\ ~ crashed =>
       err_n = 0 /\ out_c # "complete"
  /\ phase = "write_source" /\ ~ crashed => HeaderOut
  /\ phase \in {"report", "done"} /\ ~ crashed =>
       (err_n = 0 => HeaderOut /\ SourceOut) /\ (BothWhole => err_n = 0)
  /\ phase = "done" => ~ crashed /\ (status = "success" <=> err_n % 256 = 0)

StatusInv == (~ crashed => Lists) /\ RulesFinite /\ Written

LEMMA ListedIsRule ==
  ASSUME NEW g, IsRule(g)
  PROVE  IsRule(Listed(g))
<1> DEFINE R == Listed(g).rules
<1>1. /\ "rules" \in DOMAIN Listed(g)
      /\ R = [i \in DOMAIN g.rules |-> Single(g.rules[i])]
  <2> DEFINE h == [i \in DOMAIN g.rules |-> Single(g.rules[i])]
  <2>1. Listed(g) = [g EXCEPT !.rules = h]
    BY DEF Listed
  <2> HIDE DEF h
  <2>2. "rules" \in DOMAIN Listed(g) /\ R = h
    BY <2>1 DEF IsRule
  <2>3. QED
    BY <2>2 DEF h
<1>2. IsSequence(g.rules) /\ Len(g.rules) \in Nat /\ DOMAIN g.rules = 1 .. Len(g.rules)
      /\ \A i \in 1 .. Len(g.rules) : g.rules[i] \in Range(g.rules)
  BY SequenceFacts DEF IsRule
<1> HIDE DEF R
<1>3. /\ DOMAIN R = 1 .. Len(g.rules) /\ R = [i \in 1 .. Len(g.rules) |-> R[i]]
      /\ \A i \in DOMAIN R : R[i] = Single(g.rules[i])
  BY <1>1, <1>2
<1>4. IsSequence(R)
  BY <1>2, <1>3, SequenceOf
<1>5. \A i \in DOMAIN R : "tokens" \in DOMAIN R[i] /\ IsSequence(R[i].tokens)
  <2> TAKE i \in DOMAIN R
  <2>1. "tokens" \in DOMAIN g.rules[i] /\ IsSequence(g.rules[i].tokens)
    BY <1>2, <1>3 DEF IsRule
  <2>2. DOMAIN R[i] = DOMAIN g.rules[i] /\ R[i].tokens = TokenList(g.rules[i].tokens)
    BY <1>3, <2>1 DEF Single
  <2>3. QED
    BY <2>1, <2>2, TokenListFacts
<1>6. QED
  BY <1>1, <1>4, <1>5 DEF R, IsRule, Range

LEMMA PlacesFinite ==
  ASSUME NEW g, IsRule(g)
  PROVE  IsFiniteSet(PlacesOf(g))
<1> DEFINE D == DOMAIN g.rules
           F == [i \in D |-> {i} \X DOMAIN g.rules[i].tokens]
           S == {{i} \X DOMAIN g.rules[i].tokens : i \in D}
<1>1. D = 1 .. Len(g.rules) /\ Len(g.rules) \in Nat
  BY SequenceFacts DEF IsRule
<1>2. IsFiniteSet(D)
  BY <1>1, FS_Interval
<1>3. F \in Surjection(D, S)
  BY DEF Surjection
<1>4. IsFiniteSet(S)
  <2> HIDE DEF D, F, S
  <2>1. QED
    BY <1>2, <1>3, FS_Surjection
<1>5. \A T \in S : IsFiniteSet(T)
  <2> SUFFICES ASSUME NEW i \in D PROVE IsFiniteSet({i} \X DOMAIN g.rules[i].tokens)
    OBVIOUS
  <2>1. IsSequence(g.rules[i].tokens)
    BY DEF IsRule, Range
  <2>2. /\ Len(g.rules[i].tokens) \in Nat
        /\ DOMAIN g.rules[i].tokens = 1 .. Len(g.rules[i].tokens)
    BY <2>1, SequenceFacts
  <2>3. IsFiniteSet(DOMAIN g.rules[i].tokens)
    BY <2>2, FS_Interval
  <2>4. QED
    BY <2>3, FS_Singleton, FS_Product
<1>6. PlacesOf(g) = UNION S
  BY DEF PlacesOf
<1> HIDE DEF S
<1>7. QED
  BY <1>4, <1>5, <1>6, FS_UNION

LEMMA UndeclaredCounts ==
  ASSUME NEW g, IsRule(g)
  PROVE  Undeclared(g) \in Nat
<1>1. {p \in PlacesOf(g) : ~ Known(g.rules[p[1]].tokens[p[2]])} \in SUBSET PlacesOf(g)
  OBVIOUS
<1>2. QED
  BY <1>1, PlacesFinite, FS_Subset, FS_CardinalityType DEF Undeclared

LEMMA ReservedCounts ==
  ASSUME NEW v, IsSequence(v)
  PROVE  IsFiniteSet(ReservedAt(v)) /\ Cardinality(ReservedAt(v)) \in Nat
<1>1. DOMAIN v = 1 .. Len(v) /\ Len(v) \in Nat
  BY SequenceFacts
<1>2. IsFiniteSet(DOMAIN v)
  BY <1>1, FS_Interval
<1>3. ReservedAt(v) \in SUBSET DOMAIN v
  BY DEF ReservedAt
<1>4. QED
  BY <1>2, <1>3, FS_Subset, FS_CardinalityType

LEMMA ReportFacts ==
  ASSUME NEW place, NEW n \in Nat, err_n \in Nat, Report(place, n)
  PROVE  err_n' \in Nat /\ (~ crashed' => err_n' = err_n + n)
<1>1. CASE Recorded(place)
  BY <1>1 DEF Report
<1>2. CASE ~ Recorded(place) /\ n > 0
  <2>1. crashed' /\ err_n' = err_n
    BY <1>2 DEF Report
  <2>2. QED
    BY <2>1
<1>3. CASE ~ Recorded(place) /\ ~ (n > 0)
  <2>1. err_n' = err_n /\ n = 0
    BY <1>3 DEF Report
  <2>2. QED
    BY <2>1
<1>4. QED
  BY <1>1, <1>2, <1>3

LEMMA FrontOf ==
  ASSUME NEW S, NEW s \in Seq(S), s # <<>>
  PROVE  Front(s) \in Seq(S) /\ Last(s) \in S
BY DEF Front, Last

LEMMA FileLists ==
  ASSUME NEW f \in Files
  PROVE  /\ f.lexer \in Seq(Range(f.lexer)) /\ f.grammar \in Seq(Range(f.grammar))
         /\ \A e \in Range(f.lexer) : e.bad \in Nat
         /\ \A g \in Range(f.grammar) : IsRule(g) /\ IsRule(Listed(g))
BY FilesAssumption, ListedIsRule DEF IsSequence

LEMMA StatusStart == Init => StatusInv
<1> SUFFICES ASSUME Init PROVE StatusInv
  OBVIOUS
<1>1. /\ section = "header" /\ lexer_rules = <<>> /\ grammar_rules = <<>>
      /\ err_n = 0 /\ phase = "read" /\ rules_cg = NoFunction /\ rules = <<>>
      /\ out_h = "old" /\ out_c = "old" /\ destructors = NoFunction
  BY DEF Init, ReaderInit
<1>2. Lists /\ Written
  BY <1>1 DEF Lists, Written
<1>3. RulesFinite
  <2>1. DOMAIN rules = {} /\ DOMAIN rules_cg = {} /\ DOMAIN destructors = {}
    BY <1>1 DEF NoFunction
  <2>2. QED
    BY <2>1, FS_EmptySet DEF RulesFinite
<1>4. QED
  BY <1>2, <1>3 DEF StatusInv

\* What the steps of the reader leave alone, and where they go.
ReaderMoves ==
  \/ phase' = phase
  \/ phase' = "header"
  \/ phase' = "report" /\ (~ crashed' => err_n' # 0)

LEMMA ReadWritten ==
  ASSUME ReaderInv, StatusInv, ReadStep, err_n' \in Nat, ReaderMoves, ~ crashed' => Lists'
  PROVE  StatusInv'
<1>1. /\ phase = "read" /\ out_h = "old" /\ out_c = "old"
      /\ iter' = iter /\ out_h' = out_h /\ out_c' = out_c /\ status' = status
      /\ rules' = rules /\ rules_cg' = rules_cg /\ destructors' = destructors
  <2>1. Reading
    BY DEF ReadStep, ReaderNext, DeclarePair, HeaderLast, HeaderLink, HeaderEnd,
           DeclareLexerRule, LexerEnd, DeclareGrammar, LinkRules, Program,
           SyntaxError, Shifting, Linking
  <2>2. QED
    BY <2>1 DEF ReadStep, tokenVars, headerVars, ruleVars, outVars, Reading,
                StatusInv, Written
<1>2. ~ (out_c' = "complete") /\ ~ (out_h' = "complete")
  BY <1>1
<1>3. QED
  BY <1>1, <1>2 DEF StatusInv, RulesFinite, Written, ReaderMoves, BothWhole

LEMMA ReadStatus == ReaderInv /\ StatusInv /\ ReadStep => StatusInv'
<1> SUFFICES ASSUME ReaderInv, StatusInv, ReadStep PROVE StatusInv'
  OBVIOUS
<1>1. err_n \in Nat /\ (Reading => Lists) /\ file \in Files
  BY DEF StatusInv, Written, Reading, ReaderInv, Control
<1>2. CASE DeclarePair
  <2>1. /\ Reading /\ section = "header" /\ unread # <<>> /\ section' = section
        /\ file' = file /\ lexer_rules' = lexer_rules /\ grammar_rules' = grammar_rules
        /\ phase' = phase
    BY <1>2 DEF DeclarePair, Shifting
  <2>2. Stacked
    BY <2>1, ReadingFacts DEF HeaderOk
  <2>3. unread[1] \in Range(file.header)
    <3>1. Len(file.header) \in Nat /\ IsSequence(file.header)
      BY <1>1, FilesAssumption, SequenceFacts
    <3>2. /\ IsSequence(unread) /\ Len(unread) \in Nat /\ Len(unread) >= 1
          /\ Len(unread) <= Len(file.header)
      BY <2>1, <2>2, SequenceFacts, TailFacts DEF Stacked
    <3>3. unread[1] = file.header[Shifted + 1] /\ Shifted + 1 \in 1 .. Len(file.header)
      BY <2>2, <3>1, <3>2 DEF Stacked, Shifted
    <3>4. QED
      BY <3>1, <3>3, SequenceFacts
  <2>4. Cardinality(ReservedAt(unread[1].values)) \in Nat
    BY <1>1, <2>3, FilesAssumption, ReservedCounts DEF IsDeclaration
  <2> DEFINE c == Cardinality(ReservedAt(unread[1].values))
  <2>5. \/ err_n' = err_n
        \/ err_n' = err_n + (c + 0)
        \/ err_n' = err_n + (c + 1)
    BY <1>2 DEF DeclarePair, ReportOrCrash
  <2> HIDE DEF c
  <2>6. err_n' \in Nat
    BY <1>1, <2>4, <2>5 DEF c
  <2>7. Lists'
    BY <1>1, <2>1 DEF Lists, LexerRules, GrammarRules
  <2>8. QED
    BY <2>1, <2>6, <2>7, ReadWritten DEF ReaderMoves
<1>3. CASE HeaderLast \/ HeaderLink
  <2>1. /\ Reading /\ section = "header" /\ section' = section /\ phase' = phase
        /\ file' = file /\ lexer_rules' = lexer_rules /\ grammar_rules' = grammar_rules
        /\ err_n' = err_n
    BY <1>3 DEF HeaderLast, HeaderLink, Linking
  <2>2. Lists'
    BY <1>1, <2>1 DEF Lists, LexerRules, GrammarRules
  <2>3. QED
    BY <1>1, <2>1, <2>2, ReadWritten DEF ReaderMoves
<1>4. CASE HeaderEnd \/ LexerEnd
  <2>1. /\ Reading /\ file' = file /\ lexer_rules' = lexer_rules
        /\ grammar_rules' = grammar_rules /\ err_n' = err_n /\ phase' = phase
        /\ values = <<>> /\ values' = values
        /\ \/ section' = "lexer" /\ unread' = file.lexer
           \/ section' = "grammar" /\ unread' = file.grammar
    BY <1>4 DEF HeaderEnd, LexerEnd, Linking
  <2>2. Lists'
    BY <1>1, <2>1, FileLists DEF Lists, LexerRules, GrammarRules
  <2>3. QED
    BY <1>1, <2>1, <2>2, ReadWritten DEF ReaderMoves
<1>5. CASE DeclareLexerRule
  <2>1. /\ Reading /\ file' = file /\ lexer_rules' = lexer_rules /\ section = "lexer"
        /\ section' = section /\ unread # <<>>
        /\ grammar_rules' = grammar_rules /\ err_n' = err_n /\ phase' = phase
        /\ values' = Append(values, unread[1]) /\ unread' = Tail(unread)
    BY <1>5 DEF DeclareLexerRule, Shifting
  <2>2. Lists'
    BY <1>1, <2>1 DEF Lists, LexerRules, GrammarRules
  <2>3. QED
    BY <1>1, <2>1, <2>2, ReadWritten DEF ReaderMoves
<1>6. CASE DeclareGrammar
  <2> DEFINE g == unread[1]
             all == {p \in PlacesOf(g) : p[2] \in ReservedAt(g.rules[p[1]].tokens)}
  <2>1. /\ Reading /\ file' = file /\ lexer_rules' = lexer_rules /\ section = "grammar"
        /\ section' = section /\ unread # <<>>
        /\ grammar_rules' = grammar_rules /\ phase' = phase
        /\ values' = Append(values, Listed(g)) /\ unread' = Tail(unread)
        /\ (err_n' = err_n \/ err_n' = err_n + Cardinality(all))
    BY <1>6 DEF DeclareGrammar, Shifting, ReportOrCrash
  <2>2. unread \in Seq(Range(file.grammar)) /\ g \in Range(file.grammar)
    BY <1>1, <2>1 DEF Lists
  <2>3. IsRule(g) /\ Listed(g) \in GrammarRules
    BY <1>1, <2>2, FileLists DEF GrammarRules
  <2>4. Cardinality(all) \in Nat
    <3>1. all \in SUBSET PlacesOf(g)
      OBVIOUS
    <3> HIDE DEF all, g
    <3>2. QED
      BY <2>3, <3>1, PlacesFinite, FS_Subset, FS_CardinalityType
  <2> HIDE DEF all, g
  <2>5. err_n' \in Nat
    BY <1>1, <2>1, <2>4
  <2>6. Lists'
    BY <1>1, <2>1, <2>2, <2>3 DEF Lists, LexerRules, GrammarRules
  <2>7. QED
    BY <2>1, <2>5, <2>6, ReadWritten DEF ReaderMoves
<1>7. CASE LinkRules
  <2>1. /\ Reading /\ file' = file /\ section' = section /\ phase' = phase
        /\ values # <<>> /\ values' = Front(values) /\ unread' = unread /\ err_n' = err_n
        /\ \/ /\ section = "lexer" /\ grammar_rules' = grammar_rules
              /\ lexer_rules' = <<Last(values)>> \o lexer_rules
           \/ /\ section = "grammar" /\ lexer_rules' = lexer_rules
              /\ grammar_rules' = <<Last(values)>> \o grammar_rules
    BY <1>7 DEF LinkRules, Linking
  <2>2. Lists /\ LexerRules' = LexerRules /\ GrammarRules' = GrammarRules
    BY <1>1, <2>1 DEF LexerRules, GrammarRules
  <2>3. Lists'
    <3>1. CASE section = "lexer" /\ grammar_rules' = grammar_rules
               /\ lexer_rules' = <<Last(values)>> \o lexer_rules
      <4>1. values' \in Seq(LexerRules) /\ Last(values) \in LexerRules
        BY <2>1, <2>2, <3>1, FrontOf DEF Lists
      <4>2. lexer_rules' \in Seq(LexerRules)
        BY <2>2, <3>1, <4>1 DEF Lists
      <4>3. QED
        BY <2>1, <2>2, <3>1, <4>1, <4>2 DEF Lists
    <3>2. CASE section = "grammar" /\ lexer_rules' = lexer_rules
               /\ grammar_rules' = <<Last(values)>> \o grammar_rules
      <4>1. values' \in Seq(GrammarRules) /\ Last(values) \in GrammarRules
        BY <2>1, <2>2, <3>2, FrontOf DEF Lists
      <4>2. grammar_rules' \in Seq(GrammarRules)
        BY <2>2, <3>2, <4>1 DEF Lists
      <4>3. QED
        BY <2>1, <2>2, <3>2, <4>1, <4>2 DEF Lists
    <3>3. QED
      BY <2>1, <3>1, <3>2
  <2>4. QED
    BY <1>1, <2>1, <2>3, ReadWritten DEF ReaderMoves
<1>8. CASE Program \/ SyntaxError
  <2>1. /\ Reading /\ file' = file /\ lexer_rules' = lexer_rules
        /\ grammar_rules' = grammar_rules /\ section' \in {"program", "none"}
        /\ \/ /\ err_n' = err_n
              /\ phase' = IF err_n > 0 THEN "report" ELSE "header"
           \/ /\ err_n' = IF crashed' THEN err_n ELSE err_n + 2
              /\ phase' = "report"
    BY <1>8 DEF Program, SyntaxError, Linking
  <2>2. Lists'
    BY <1>1, <2>1 DEF Lists, LexerRules, GrammarRules
  <2>3. err_n' \in Nat /\ ReaderMoves
    BY <1>1, <2>1 DEF ReaderMoves
  <2>4. QED
    BY <2>2, <2>3, ReadWritten
<1>9. QED
  BY <1>2, <1>3, <1>4, <1>5, <1>6, <1>7, <1>8 DEF ReadStep, ReaderNext

LEMMA ListsKept ==
  ASSUME ReaderInv, StatusInv, Rest \/ Exit
  PROVE  ~ crashed /\ Lists /\ Lists' /\ file \in Files /\ err_n \in Nat
<1>1. /\ ~ crashed /\ file' = file /\ section' = section /\ unread' = unread
      /\ values' = values /\ lexer_rules' = lexer_rules /\ grammar_rules' = grammar_rules
  BY DEF Rest, Exit, Running, readerVars
<1>2. QED
  BY <1>1 DEF StatusInv, Lists, LexerRules, GrammarRules, Written, ReaderInv, Control

HeaderStep ==
  \/ EnterHeader \/ RegisterAction \/ RegisterGrammar \/ HeaderCode
  \/ SkipDeclaration \/ EnterRound2 \/ Precedence \/ AddMacro
  \/ StartOrDestructor

LEMMA HeaderStatus ==
  ASSUME ReaderInv, StatusInv, Rest, HeaderStep
  PROVE  StatusInv'
<1>1. err_n \in Nat /\ Lists'
  BY ListsKept
<1>2. /\ phase \in {"header", "round2"} /\ phase' \in {"header", "round2", "ids"}
      /\ rules' = rules /\ rules_cg' = rules_cg /\ out_h' = out_h /\ out_c' = out_c
  BY DEF HeaderStep, EnterHeader, RegisterAction, RegisterGrammar, HeaderCode,
         SkipDeclaration, EnterRound2, Precedence, AddMacro, StartOrDestructor,
         Running, At, StepTo, ruleVars, outVars
<1>3. err_n' = err_n \/ Report("header", 1) \/ Report("header", 0)
  BY DEF HeaderStep, EnterHeader, RegisterAction, RegisterGrammar, HeaderCode,
         SkipDeclaration, EnterRound2, Precedence, AddMacro, StartOrDestructor, Warn
<1>4. err_n' \in Nat
  BY <1>1, <1>3, ReportFacts
<1>5. IsFiniteSet(DOMAIN destructors')
  <2>1. destructors' = destructors \/ \E key, v : destructors' = Put(destructors, key, v)
    BY DEF HeaderStep, EnterHeader, RegisterAction, RegisterGrammar, HeaderCode,
           SkipDeclaration, EnterRound2, Precedence, AddMacro, StartOrDestructor,
           headerVars
  <2>2. IsFiniteSet(DOMAIN destructors)
    BY DEF StatusInv, RulesFinite
  <2>3. ASSUME NEW key, NEW v, destructors' = Put(destructors, key, v)
        PROVE  IsFiniteSet(DOMAIN destructors')
    <3>1. DOMAIN destructors' = DOMAIN destructors \cup {key}
      BY <2>3 DEF Put
    <3>2. QED
      BY <2>2, <3>1, FS_AddElement
  <2>4. QED
    BY <2>1, <2>2, <2>3
<1>6. RulesFinite'
  BY <1>2, <1>5 DEF StatusInv, RulesFinite
<1>7. Written'
  BY <1>2, <1>4 DEF StatusInv, Written
<1>8. QED
  BY <1>1, <1>6, <1>7 DEF StatusInv

LEMMA WrittenBefore ==
  ASSUME err_n' \in Nat, out_h' = "old", out_c' = "old",
         phase' \notin {"write_header", "write_source", "report", "done"},
         phase' \in {"lexer", "grammar"} => iter' \in Nat \ {0}
  PROVE  Written'
BY DEF Written

LEMMA LexerStatus ==
  ASSUME ReaderInv, StatusInv, Rest, NumberTokens \/ LexerElement
  PROVE  StatusInv'
<1>1. err_n \in Nat /\ Lists /\ Lists' /\ file \in Files
  BY ListsKept
<1>2. CASE NumberTokens
  <2>1. /\ phase = "ids" /\ phase' \in {"open", "lexer"} /\ iter' = 1
        /\ rules' = rules /\ rules_cg' = rules_cg /\ out_h' = out_h
        /\ out_c' = out_c /\ destructors' = destructors
        /\ (Report("nowhere", 1) \/ Report("nowhere", 0))
    BY <1>2 DEF NumberTokens, Running, headerVars, outVars
  <2>2. err_n' \in Nat
    BY <1>1, <2>1, ReportFacts
  <2>3. RulesFinite' /\ out_h = "old" /\ out_c = "old"
    BY <2>1 DEF StatusInv, RulesFinite, Written
  <2>4. Written'
    BY <2>1, <2>2, <2>3, WrittenBefore
  <2>5. QED
    BY <1>1, <2>3, <2>4 DEF StatusInv
<1>3. CASE LexerElement
  <2>1. /\ phase = "lexer" /\ phase' = phase /\ iter <= Len(lexer_rules)
        /\ iter' = iter + 1
        /\ rules' = rules /\ rules_cg' = rules_cg /\ out_h' = out_h
        /\ out_c' = out_c /\ destructors' = destructors
        /\ (Report("lexer", 1) \/ Report("lexer", lexer_rules[iter].bad))
    BY <1>3 DEF LexerElement, Running, headerVars, outVars
  <2>2. iter \in Nat /\ iter >= 1
    BY <2>1 DEF StatusInv, Written
  <2>3. lexer_rules[iter].bad \in Nat
    <3>1. lexer_rules \in Seq(LexerRules)
      BY <1>1 DEF Lists
    <3>2. lexer_rules[iter] \in LexerRules
      BY <2>1, <2>2, <3>1
    <3>3. QED
      BY <1>1, <3>2, FileLists DEF LexerRules
  <2>4. err_n' \in Nat
    BY <1>1, <2>1, <2>3, ReportFacts
  <2>5. QED
    BY <1>1, <2>1, <2>2, <2>4 DEF StatusInv, RulesFinite, Written
<1>4. QED
  BY <1>2, <1>3

LEMMA AddedRules ==
  ASSUME RulesFinite, NEW g, IsRule(g), AddRules(g), rules' = rules,
         destructors' = destructors
  PROVE  RulesFinite'
<1> DEFINE R == [i \in DOMAIN g.rules |->
                   CGGrammar(g.name, g.rules[i], Len(table) + Len(AllTokens(g, i - 1)))]
<1>1. rules_cg' = [name \in DOMAIN rules_cg \cup {g.name} |->
                     IF name = g.name THEN R ELSE rules_cg[name]]
  BY DEF AddRules, Put
<1>2. IsSequence(R)
  <2>1. Len(g.rules) \in Nat /\ DOMAIN g.rules = 1 .. Len(g.rules)
    BY SequenceFacts DEF IsRule
  <2>2. R = [i \in 1 .. Len(g.rules) |-> R[i]]
    BY <2>1
  <2> HIDE DEF R
  <2>3. QED
    BY <2>1, <2>2, SequenceOf
<1> HIDE DEF R
<1>3. \A x \in DOMAIN rules_cg' : IsSequence(rules_cg'[x])
  BY <1>1, <1>2 DEF RulesFinite
<1>4. QED
  BY <1>3 DEF RulesFinite

LEMMA AugmentIsRule == IsRule(AugmentRule)
<1> DEFINE r == [tokens |-> <<start.token>>, use |-> NoUse, quoted |-> FALSE]
<1>1. AugmentRule.rules = <<r>> /\ "rules" \in DOMAIN AugmentRule
  BY DEF AugmentRule
<1>2. "tokens" \in DOMAIN r /\ r.tokens \in Seq({start.token})
  OBVIOUS
<1> HIDE DEF r
<1>3. <<r>> \in Seq({r}) /\ Range(<<r>>) = {r}
  BY DEF Range
<1>4. IsSequence(<<r>>) /\ IsSequence(r.tokens)
  BY <1>2, <1>3, ElementsOf
<1>5. QED
  BY <1>1, <1>2, <1>3, <1>4 DEF IsRule

LEMMA GrammarStatus ==
  ASSUME ReaderInv, StatusInv, Rest, EnterGrammar \/ GrammarElement
  PROVE  StatusInv'
<1>1. err_n \in Nat /\ Lists /\ Lists' /\ file \in Files /\ RulesFinite
  BY ListsKept DEF StatusInv
<1>2. CASE EnterGrammar
  <2>1. /\ phase = "lexer" /\ phase' \in {"open", "grammar"} /\ iter' = 1
        /\ rules' = rules /\ out_h' = out_h
        /\ out_c' = out_c /\ destructors' = destructors
        /\ \/ rules_cg' = rules_cg /\ (Report("nowhere", 0) \/ Report("nowhere", 1))
           \/ AddRules(AugmentRule) /\ Report("nowhere", Undeclared(AugmentRule))
    BY <1>2 DEF EnterGrammar, Running, headerVars, outVars
  <2>2. err_n' \in Nat
    BY <1>1, <2>1, AugmentIsRule, UndeclaredCounts, ReportFacts
  <2>3. RulesFinite'
    BY <1>1, <2>1, AugmentIsRule, AddedRules DEF RulesFinite
  <2>4. out_h = "old" /\ out_c = "old"
    BY <2>1 DEF StatusInv, Written
  <2>5. Written'
    BY <2>1, <2>2, <2>4, WrittenBefore
  <2>6. QED
    BY <1>1, <2>3, <2>5 DEF StatusInv
<1>3. CASE GrammarElement
  <2> DEFINE g == grammar_rules[iter]
  <2>1. /\ phase = "grammar" /\ phase' = phase /\ iter' = iter + 1
        /\ iter <= Len(grammar_rules) /\ rules' = rules /\ out_h' = out_h
        /\ out_c' = out_c /\ destructors' = destructors
        /\ \/ rules_cg' = rules_cg /\ Report("grammar", 1)
           \/ AddRules(g) /\ Report("grammar", Undeclared(g))
    BY <1>3 DEF GrammarElement, Running, headerVars, outVars
  <2>2. iter \in Nat /\ iter >= 1
    BY <2>1 DEF StatusInv, Written
  <2>3. IsRule(g)
    <3>1. grammar_rules \in Seq(GrammarRules)
      BY <1>1 DEF Lists
    <3>2. g \in GrammarRules
      BY <2>1, <2>2, <3>1
    <3>3. QED
      BY <1>1, <3>2, FileLists DEF GrammarRules
  <2> HIDE DEF g
  <2>4. err_n' \in Nat
    BY <1>1, <2>1, <2>3, UndeclaredCounts, ReportFacts
  <2>5. RulesFinite'
    BY <1>1, <2>1, <2>3, AddedRules DEF RulesFinite
  <2>6. QED
    BY <1>1, <2>1, <2>2, <2>4, <2>5 DEF StatusInv, Written
<1>4. QED
  BY <1>2, <1>3

LEMMA RulesInOrder == RulesFinite => IsFiniteSet(DOMAIN RuleOrder)
<1> SUFFICES ASSUME RulesFinite PROVE IsFiniteSet(DOMAIN RuleOrder)
  OBVIOUS
<1> DEFINE n == Len(Sorted)
           R == UNION {Range(rules_cg[x]) : x \in DOMAIN rules_cg}
           V == Seq(R)
           F == [i \in 1 .. n |-> [v \in V |-> v \o RulesOf(Sorted[i])]]
           P(u) == u = [i \in 0 .. n |-> IF i = 0 THEN <<>> ELSE u[i - 1] \o RulesOf(Sorted[i])]
           u == CHOOSE w : P(w)
<1>1. n \in Nat
  BY SortedAssumption, SequenceFacts
<1>2. \A x : RulesOf(x) \in V
  <2> TAKE x
  <2>1. CASE x \in DOMAIN rules_cg
    <3>1. rules_cg[x] \in Seq(Range(rules_cg[x])) /\ Range(rules_cg[x]) \subseteq R
      BY <2>1 DEF RulesFinite, IsSequence
    <3> HIDE DEF R
    <3>2. rules_cg[x] \in Seq(R)
      BY <3>1
    <3>3. QED
      BY <2>1, <3>2 DEF RulesOf
  <2>2. CASE x \notin DOMAIN rules_cg
    BY <2>2 DEF RulesOf
  <2>3. QED
    BY <2>1, <2>2
<1> HIDE DEF R
<1>3. <<>> \in V
  OBVIOUS
<1>4. GoesOn(F, V, n)
  BY <1>2 DEF GoesOn
<1>5. \A i \in 1 .. n : \A v \in V : F[i][v] = v \o RulesOf(Sorted[i])
  OBVIOUS
<1> HIDE DEF V, F
<1>6. PICK g : Unrolls(g, F, V, n, <<>>)
  BY <1>1, <1>3, <1>4, Recursion
<1>7. \A i \in 1 .. n : i - 1 \in 0 .. n /\ i # 0
  BY <1>1
<1>8. P(g)
  <2>1. \A i \in 1 .. n : g[i] = g[i - 1] \o RulesOf(Sorted[i])
    BY <1>5, <1>6, <1>7 DEF Unrolls
  <2>2. \A i \in 0 .. n : i = 0 \/ i \in 1 .. n
    BY <1>1
  <2>3. g = [i \in 0 .. n |-> g[i]] /\ g[0] = <<>>
    BY <1>6 DEF Unrolls
  <2>4. \A i \in 0 .. n :
          g[i] = IF i = 0 THEN <<>> ELSE g[i - 1] \o RulesOf(Sorted[i])
    BY <2>1, <2>2, <2>3
  <2>5. QED
    BY <2>3, <2>4
<1>9. P(u)
  <2> HIDE DEF P
  <2>1. QED
    BY <1>8
<1>10. RuleOrder = u[n]
  BY DEF RuleOrder
<1> HIDE DEF u
<1>11. /\ u[0] = <<>>
       /\ \A i \in 1 .. n : u[i] = u[i - 1] \o RulesOf(Sorted[i])
  <2>1. \A i \in 1 .. n : i \in 0 .. n
    BY <1>1
  <2>2. 0 \in 0 .. n
    BY <1>1
  <2>3. QED
    BY <1>7, <1>9, <2>1, <2>2
<1> DEFINE T == {i \in 0 .. n : u[i] \in V}
<1>12. 0 \in T
  BY <1>1, <1>3, <1>11
<1>13. ASSUME NEW i \in Nat, i < n, i \in T PROVE i + 1 \in T
  <2>1. PICK l \in 1 .. n : l = i + 1 /\ l - 1 = i /\ l \in 0 .. n
    BY <1>1, <1>13
  <2>2. u[i] \in V
    BY <1>13
  <2>3. u[l] = u[l - 1] \o RulesOf(Sorted[l])
    BY <1>11, <2>1
  <2>4. u[l] \in V
    BY <1>2, <2>1, <2>2, <2>3 DEF V
  <2>5. l \in T
    BY <2>1, <2>4
  <2>6. QED
    BY <2>1, <2>5
<1>14. n \in T
  <2> HIDE DEF T, n
  <2>1. \A i \in 0 .. n : i \in T
    BY <1>1, <1>12, <1>13, UpTo
  <2>2. QED
    BY <1>1, <2>1
<1>15. u[n] \in Seq(R)
  BY <1>14 DEF V
<1>16. DOMAIN u[n] = 1 .. Len(u[n]) /\ Len(u[n]) \in Nat
  BY <1>15
<1>17. QED
  BY <1>10, <1>16, FS_Interval

LEMMA LateStatus ==
  ASSUME ReaderInv, StatusInv, Rest,
         GrammarEnd \/ InitCC \/ OpenOutputs \/ WriteHeader
  PROVE  StatusInv'
<1>1. err_n \in Nat /\ Lists' /\ RulesFinite /\ ~ crashed
  BY ListsKept DEF StatusInv
<1>2. CASE GrammarEnd
  <2>1. /\ phase = "grammar" /\ phase' \in {"open", "cc"} /\ err_n' = err_n
        /\ rules' = RuleOrder /\ rules_cg' = rules_cg /\ out_h' = out_h
        /\ out_c' = out_c /\ destructors' = destructors
    BY <1>2 DEF GrammarEnd, Running, headerVars, outVars
  <2>2. RulesFinite' /\ out_h = "old" /\ out_c = "old"
    BY <1>1, <2>1, RulesInOrder DEF RulesFinite, StatusInv, Written
  <2>3. QED
    BY <1>1, <2>1, <2>2, WrittenBefore DEF StatusInv
<1>3. CASE InitCC
  <2>1. /\ phase = "cc" /\ phase' = "open" /\ out_h' = out_h
        /\ out_c' = out_c /\ destructors' = destructors
        /\ rules' = rules /\ rules_cg' = rules_cg /\ \E n \in 0 .. MaxConflicts : Report("grammar", n)
    BY <1>3 DEF InitCC, Running, headerVars, ruleVars, outVars
  <2>2. err_n' \in Nat
    BY <1>1, <2>1, ConflictsAssumption, ReportFacts
  <2>3. RulesFinite' /\ out_h = "old" /\ out_c = "old"
    BY <1>1, <2>1 DEF RulesFinite, StatusInv, Written
  <2>4. QED
    BY <1>1, <2>1, <2>2, <2>3, WrittenBefore DEF StatusInv
<1>4. CASE OpenOutputs
  <2>1. /\ phase = "open" /\ err_n' = err_n
        /\ out_c' = IF "c" \in failed' THEN out_c ELSE "cut"
        /\ phase' = IF err_n > 0 THEN "report" ELSE "write_header"
        /\ rules' = rules /\ rules_cg' = rules_cg /\ destructors' = destructors
    BY <1>4 DEF OpenOutputs, Running, headerVars, ruleVars
  <2>2. RulesFinite' /\ out_c = "old"
    BY <1>1, <2>1 DEF RulesFinite, StatusInv, Written
  <2>3. out_c' # "complete"
    BY <2>1, <2>2
  <2>4. Written'
    BY <1>1, <2>1, <2>3 DEF Written, BothWhole
  <2>5. QED
    BY <1>1, <2>2, <2>4 DEF StatusInv
<1>5. CASE WriteHeader
  <2>1. /\ phase = "write_header" /\ phase' = "write_source" /\ err_n' = err_n
        /\ out_h' = IF crashed' \/ "h" \in failed' THEN out_h ELSE "complete"
        /\ out_c' = out_c
        /\ rules' = rules /\ rules_cg' = rules_cg /\ destructors' = destructors
    BY <1>5 DEF WriteHeader, Running, headerVars, ruleVars
  <2>2. RulesFinite' /\ err_n = 0 /\ out_c # "complete"
    BY <1>1, <2>1 DEF RulesFinite, StatusInv, Written
  <2>3. ~ crashed' => HeaderOut'
    BY <2>1 DEF HeaderOut
  <2>4. Written'
    BY <1>1, <2>1, <2>2, <2>3 DEF Written
  <2>5. QED
    BY <1>1, <2>2, <2>4 DEF StatusInv
<1>6. QED
  BY <1>2, <1>3, <1>4, <1>5

LEMMA SourceStatus ==
  ASSUME ReaderInv, StatusInv, Rest, WriteSource
  PROVE  StatusInv'
<1>1. err_n \in Nat /\ Lists' /\ RulesFinite /\ ~ crashed
  BY ListsKept DEF StatusInv
<1>2. /\ phase = "write_source" /\ phase' = "report" /\ out_h' = out_h
      /\ err_n' = IF crashed' THEN err_n ELSE err_n + BadActions + BadDestructors
      /\ failed' \in {failed, failed \cup {"c"}}
      /\ out_c' = IF crashed' \/ "c" \in failed' THEN out_c
                  ELSE IF err_n' > 0 THEN "with holes" ELSE "complete"
      /\ rules' = rules /\ rules_cg' = rules_cg /\ destructors' = destructors
  BY DEF WriteSource, MayFail, Running, headerVars, ruleVars
<1>3. BadActions \in Nat /\ BadDestructors \in Nat
  <2> DEFINE B == {i \in DOMAIN rules : BadArgument(rules[i])}
             D == {k \in DOMAIN destructors : NamesArgument(destructors[k])}
  <2>1. B \in SUBSET DOMAIN rules /\ D \in SUBSET DOMAIN destructors
    OBVIOUS
  <2>2. BadActions = Cardinality(B) /\ BadDestructors = Cardinality(D)
    BY DEF BadActions, BadDestructors
  <2> HIDE DEF B, D
  <2>3. IsFiniteSet(B) /\ IsFiniteSet(D)
    BY <1>1, <2>1, FS_Subset DEF RulesFinite
  <2>4. QED
    BY <2>2, <2>3, FS_CardinalityType
<1>4. err_n' \in Nat
  <2>1. err_n + BadActions + BadDestructors \in Nat
    BY <1>1, <1>3
  <2>2. err_n' = err_n \/ err_n' = err_n + BadActions + BadDestructors
    BY <1>2, Zenon
  <2>3. QED
    BY <1>1, <2>1, <2>2
<1>5. HeaderOut /\ out_c # "complete"
  BY <1>1, <1>2 DEF StatusInv, Written
<1>6. HeaderOut'
  BY <1>2, <1>5 DEF HeaderOut
<1>7. ~ crashed' /\ err_n' = 0 => SourceOut'
  <2>1. ASSUME ~ crashed', ~ (err_n' > 0), "c" \notin failed' PROVE out_c' = "complete"
    BY <1>2, <2>1, Zenon
  <2>2. err_n' = 0 => ~ (err_n' > 0)
    BY <1>4
  <2>3. QED
    BY <2>1, <2>2 DEF SourceOut
<1>8. ~ crashed' /\ out_c' = "complete" => err_n' = 0
  <2>1. ASSUME ~ crashed', err_n' > 0 PROVE out_c' # "complete"
    BY <1>2, <1>5, <2>1
  <2>2. QED
    BY <1>4, <2>1
<1>9. Written'
  BY <1>2, <1>4, <1>6, <1>7, <1>8 DEF Written, BothWhole
<1>10. RulesFinite'
  BY <1>1, <1>2 DEF RulesFinite
<1>11. QED
  BY <1>1, <1>9, <1>10 DEF StatusInv

LEMMA ExitStatusInv ==
  ASSUME ReaderInv, StatusInv, Exit
  PROVE  StatusInv'
<1>1. err_n \in Nat /\ Lists' /\ RulesFinite /\ ~ crashed
  BY ListsKept DEF StatusInv
<1>2. /\ phase = "report" /\ phase' = "done" /\ err_n' = err_n /\ crashed' = crashed
      /\ out_h' = out_h /\ out_c' = out_c /\ failed' = failed
      /\ rules' = rules /\ rules_cg' = rules_cg /\ destructors' = destructors
      /\ status' = IF err_n % 256 = 0 THEN "success" ELSE "failure"
  BY DEF Exit, Running, headerVars, ruleVars, ExitStatus
<1>3. (err_n = 0 => HeaderOut /\ SourceOut) /\ (BothWhole => err_n = 0)
  BY <1>1, <1>2 DEF StatusInv, Written
<1>4. HeaderOut' = HeaderOut /\ SourceOut' = SourceOut /\ BothWhole' = BothWhole
  BY <1>2 DEF HeaderOut, SourceOut, BothWhole
<1>5. status' = "success" <=> err_n % 256 = 0
  BY <1>2
<1>6. Written'
  BY <1>1, <1>2, <1>3, <1>4, <1>5 DEF Written
<1>7. RulesFinite'
  BY <1>1, <1>2 DEF RulesFinite
<1>8. QED
  BY <1>1, <1>6, <1>7 DEF StatusInv

LEMMA StatusStepInv == ReaderInv /\ StatusInv /\ [Next]_vars => StatusInv'
<1> SUFFICES ASSUME ReaderInv, StatusInv, [Next]_vars PROVE StatusInv'
  OBVIOUS
<1>1. CASE UNCHANGED vars
  BY <1>1 DEF StatusInv, Lists, LexerRules, GrammarRules, RulesFinite, Written,
              HeaderOut, SourceOut, BothWhole,
              vars, vars0, readerVars, tokenVars, headerVars, ruleVars, outVars
<1>2. CASE ReadStep
  BY <1>2, ReadStatus
<1>3. CASE Exit
  BY <1>3, ExitStatusInv
<1>4. CASE Next /\ Rest /\ ~ ReadStep /\ ~ Exit
  BY <1>4, HeaderStatus, LexerStatus, GrammarStatus, LateStatus, SourceStatus
     DEF Next, HeaderStep
<1>5. QED
  BY <1>1, <1>2, <1>3, <1>4, RestSteps

(***************************************************************************)
(* As long as fewer than 256 errors are counted, of which the exit status   *)
(* is the remainder in a byte (main.cc:68), success means that nothing but  *)
(* a stream that has failed keeps an output from being complete, and two    *)
(* complete outputs mean success.                                          *)
(***************************************************************************)
THEOREM ErrorsBelow256AreTold == Spec => [](err_n < 256 => ExitTellsOfErrors)
<1>1. StatusInv => (err_n < 256 => ExitTellsOfErrors)
  <2> SUFFICES ASSUME StatusInv, err_n < 256, phase = "done"
               PROVE  /\ status = "success" => HeaderOut /\ SourceOut
                      /\ BothWhole => status = "success"
    BY DEF ExitTellsOfErrors, HeaderOut, SourceOut, BothWhole
  <2>1. /\ err_n \in Nat
        /\ (err_n = 0 => HeaderOut /\ SourceOut) /\ (BothWhole => err_n = 0)
        /\ status = "success" <=> err_n % 256 = 0
    BY DEF StatusInv, Written
  <2>2. err_n % 256 = err_n
    BY <2>1
  <2>3. QED
    BY <2>1, <2>2
<1>2. QED
  BY <1>1, ReaderStart, ReaderStepInv, StatusStart, StatusStepInv, PTL DEF Spec

-----------------------------------------------------------------------------
(* The numbers of the tokens.  While they are given, they are right as long *)
(* as there is no error.                                                    *)

AsciiNumbered ==
  \A i \in 1 .. Len(action_tokens) :
    IF action_tokens[i].ascii
    THEN /\ action_tokens[i].name \in DOMAIN ascii_mappings
         /\ ascii_mappings[action_tokens[i].name] = NEOAST_ASCII_MAX + i - 1
    ELSE action_tokens[i].name \notin DOMAIN ascii_mappings

ActionsNumbered ==
  /\ action_id = Len(action_tokens)
  /\ \A i \in 1 .. Len(action_tokens) : action_tokens[i].id = i - 1
  /\ AsciiNumbered

AllNumbered ==
  LET all == action_tokens \o grammar_tokens
  IN  /\ tokens = [i \in DOMAIN all |-> all[i].name]
      /\ \A i \in DOMAIN all : all[i].id = i - 1
      /\ Last(tokens) = "TOK_AUGMENT"
      /\ \A i \in DOMAIN action_tokens :
            IF action_tokens[i].ascii
            THEN ascii_mappings[tokens[i]] = NEOAST_ASCII_MAX + i - 1
            ELSE tokens[i] \notin DOMAIN ascii_mappings

TokenLists ==
  /\ IsSequence(action_tokens) /\ IsSequence(grammar_tokens)
  /\ \A i \in 1 .. Len(grammar_tokens) : {"name", "id"} \subseteq DOMAIN grammar_tokens[i]
  /\ DOMAIN ascii_mappings \subseteq Names(action_tokens)

NumbersInv ==
  /\ TokenLists
  /\ phase = "read" => ActionsNumbered
  /\ phase \in {"header", "round2", "ids"} /\ ~ crashed /\ err_n = 0 => ActionsNumbered
  /\ phase \in {"lexer", "grammar", "cc"} => AllNumbered

LEMMA NumbersStart == Init => NumbersInv
<1> SUFFICES ASSUME Init PROVE NumbersInv
  OBVIOUS
<1> DEFINE eof == [name |-> "EOF", id |-> 0, type |-> "", ascii |-> FALSE]
<1>1. /\ action_tokens = <<eof>> /\ grammar_tokens = <<>> /\ action_id = 1
      /\ ascii_mappings = NoFunction /\ phase = "read"
  BY DEF Init, ReaderInit
<1>2. eof.id = 0 /\ eof.ascii = FALSE
  OBVIOUS
<1> HIDE DEF eof
<1>3. action_tokens \in Seq({eof}) /\ Len(action_tokens) = 1 /\ action_tokens[1] = eof
  BY <1>1
<1>4. DOMAIN ascii_mappings = {}
  BY <1>1 DEF NoFunction
<1>5. TokenLists
  BY <1>1, <1>3, <1>4, ElementsOf, EmptySequence DEF TokenLists
<1>6. \A i \in 1 .. Len(action_tokens) : i = 1
  BY <1>3
<1>7. ActionsNumbered
  BY <1>1, <1>2, <1>3, <1>4, <1>6 DEF ActionsNumbered, AsciiNumbered
<1>8. QED
  BY <1>1, <1>5, <1>7 DEF NumbersInv

LEMMA RegisterNumbers ==
  ASSUME NumbersInv, StatusInv, RegisterAction
  PROVE  NumbersInv'
<1> DEFINE tok == [name |-> Node.value, id |-> action_id,
                   ascii |-> Node.type = "token_ascii",
                   type |-> IF Node.type = "token_type" THEN Node.key ELSE ""]
           n == Len(action_tokens)
<1>1. /\ phase = "header" /\ ~ crashed /\ phase' \in {"header", "round2"}
      /\ grammar_tokens' = grammar_tokens /\ action_id' = action_id + 1
      /\ err_n \in Nat
  BY DEF RegisterAction, At, Running, StepTo, StatusInv, Written
<1>2. TokenLists /\ (err_n = 0 => ActionsNumbered)
  BY <1>1 DEF NumbersInv
<1>3. CASE Known(Node.value)
  <2>1. /\ Report("header", 1) /\ action_tokens' = action_tokens
        /\ ascii_mappings' = ascii_mappings
    BY <1>3 DEF RegisterAction
  <2>2. ~ crashed' => err_n' = err_n + 1
    BY <1>1, <2>1, ReportFacts
  <2>3. ~ (~ crashed' /\ err_n' = 0)
    BY <1>1, <2>2
  <2>4. TokenLists'
    BY <1>1, <1>2, <2>1 DEF TokenLists, Names
  <2>5. QED
    BY <1>1, <2>3, <2>4 DEF NumbersInv
<1>4. CASE ~ Known(Node.value)
  <2>1. /\ action_tokens' = Append(action_tokens, tok)
        /\ ascii_mappings' = IF Node.type = "token_ascii"
             THEN Put(ascii_mappings, Node.value, action_id + NEOAST_ASCII_MAX)
             ELSE ascii_mappings
        /\ err_n' = err_n
    BY <1>4 DEF RegisterAction
  <2>2. /\ tok.name = Node.value /\ tok.id = action_id
        /\ tok.ascii <=> Node.type = "token_ascii"
    OBVIOUS
  <2> HIDE DEF tok
  <2>3. IsSequence(action_tokens) /\ n \in Nat /\ DOMAIN action_tokens = 1 .. n
    BY <1>2, SequenceFacts DEF TokenLists
  <2>4. /\ IsSequence(action_tokens') /\ Len(action_tokens') = n + 1
        /\ \A i \in 1 .. n : action_tokens'[i] = action_tokens[i]
        /\ action_tokens'[n + 1] = tok
    BY <2>1, <2>3, Appended
  <2>5. DOMAIN action_tokens' = 1 .. n + 1
    BY <2>4, SequenceFacts
  <2>6. \A i \in 1 .. n + 1 : i \in 1 .. n \/ i = n + 1
    BY <2>3
  <2>7. \A i \in 1 .. n : action_tokens[i].name # Node.value
    BY <1>4, <2>3 DEF Known, Names
  <2>8. Node.value \notin DOMAIN ascii_mappings
    BY <1>2, <1>4 DEF TokenLists, Known
  <2>9. Names(action_tokens') = Names(action_tokens) \cup {Node.value}
    <3>1. \A i \in 1 .. n : i \in 1 .. n + 1
      BY <2>3
    <3>2. n + 1 \in 1 .. n + 1
      BY <2>3
    <3>3. QED
      BY <2>2, <2>3, <2>4, <2>5, <2>6, <3>1, <3>2 DEF Names
  <2>10. /\ DOMAIN ascii_mappings' = IF Node.type = "token_ascii"
              THEN DOMAIN ascii_mappings \cup {Node.value} ELSE DOMAIN ascii_mappings
         /\ \A x \in DOMAIN ascii_mappings : ascii_mappings'[x] = ascii_mappings[x]
         /\ Node.type = "token_ascii" =>
              ascii_mappings'[Node.value] = action_id + NEOAST_ASCII_MAX
    BY <2>1, <2>8 DEF Put
  <2>11. TokenLists'
    BY <1>1, <1>2, <2>4, <2>9, <2>10 DEF TokenLists
  <2>12. ASSUME err_n = 0 PROVE ActionsNumbered'
    <3>1. ActionsNumbered /\ action_id = n
      BY <1>2, <2>12 DEF ActionsNumbered
    <3>2. \A i \in 1 .. n + 1 : action_tokens'[i].id = i - 1
      BY <2>2, <2>3, <2>4, <2>6, <3>1 DEF ActionsNumbered
    <3>3. ASSUME NEW i \in 1 .. n + 1
          PROVE  IF action_tokens'[i].ascii
                 THEN /\ action_tokens'[i].name \in DOMAIN ascii_mappings'
                      /\ ascii_mappings'[action_tokens'[i].name] = NEOAST_ASCII_MAX + i - 1
                 ELSE action_tokens'[i].name \notin DOMAIN ascii_mappings'
      <4>1. CASE i = n + 1
        <5>1. action_tokens'[i].name = Node.value
              /\ (action_tokens'[i].ascii <=> Node.type = "token_ascii")
          BY <2>2, <2>4, <4>1
        <5>2. action_id + NEOAST_ASCII_MAX = NEOAST_ASCII_MAX + i - 1
          BY <2>3, <3>1, <4>1 DEF NEOAST_ASCII_MAX
        <5>3. QED
          BY <2>8, <2>10, <5>1, <5>2
      <4>2. CASE i \in 1 .. n
        <5>1. action_tokens'[i] = action_tokens[i] /\ action_tokens[i].name # Node.value
          BY <2>4, <2>7, <4>2
        <5>2. CASE action_tokens[i].ascii
          <6>1. /\ action_tokens[i].name \in DOMAIN ascii_mappings
                /\ ascii_mappings[action_tokens[i].name] = NEOAST_ASCII_MAX + i - 1
            BY <3>1, <4>2, <5>2 DEF ActionsNumbered, AsciiNumbered
          <6>2. /\ action_tokens[i].name \in DOMAIN ascii_mappings'
                /\ ascii_mappings'[action_tokens[i].name] = ascii_mappings[action_tokens[i].name]
            BY <2>10, <6>1
          <6>3. QED
            BY <5>1, <5>2, <6>1, <6>2
        <5>3. CASE ~ action_tokens[i].ascii
          BY <2>10, <3>1, <4>2, <5>1, <5>3 DEF ActionsNumbered, AsciiNumbered
        <5>4. QED
          BY <5>2, <5>3
      <4>3. QED
        BY <2>6, <4>1, <4>2
    <3>4. action_id' = n + 1
      BY <1>1, <3>1
    <3>5. QED
      BY <2>4, <3>2, <3>3, <3>4 DEF ActionsNumbered, AsciiNumbered
  <2>13. QED
    BY <1>1, <2>1, <2>11, <2>12 DEF NumbersInv
<1>5. QED
  BY <1>3, <1>4

LEMMA NumberTokensNumbers ==
  ASSUME NumbersInv, StatusInv, NumberTokens
  PROVE  NumbersInv'
<1> DEFINE s == IF Known("TOK_AUGMENT") THEN grammar_tokens
                ELSE Append(grammar_tokens, GrammarToken("TOK_AUGMENT", start.type))
           n == Len(action_tokens)
           m == Len(s)
<1>1. /\ phase = "ids" /\ ~ crashed /\ err_n \in Nat /\ TokenLists
      /\ action_tokens' = action_tokens /\ ascii_mappings' = ascii_mappings
      /\ grammar_tokens' = WithIds(s)
      /\ tokens' = [i \in DOMAIN action_tokens |-> action_tokens[i].name]
                   \o [i \in DOMAIN grammar_tokens' |-> grammar_tokens'[i].name]
      /\ phase' = IF err_n' > 0 THEN "open" ELSE "lexer"
      /\ Report("nowhere", IF Known("TOK_AUGMENT") THEN 1 ELSE 0)
  BY DEF NumberTokens, Running, NumbersInv, StatusInv, Written
<1>2. /\ IsSequence(action_tokens) /\ n \in Nat /\ DOMAIN action_tokens = 1 .. n
      /\ IsSequence(grammar_tokens)
  BY <1>1, SequenceFacts DEF TokenLists
<1>3. /\ IsSequence(s) /\ m \in Nat /\ DOMAIN s = 1 .. m
      /\ \A i \in 1 .. m : {"name", "id"} \subseteq DOMAIN s[i]
      /\ ~ Known("TOK_AUGMENT") => m >= 1 /\ s[m].name = "TOK_AUGMENT"
  <2>1. CASE Known("TOK_AUGMENT")
    BY <1>1, <1>2, <2>1, SequenceFacts DEF TokenLists
  <2>2. CASE ~ Known("TOK_AUGMENT")
    <3> DEFINE g == GrammarToken("TOK_AUGMENT", start.type)
               k == Len(grammar_tokens)
    <3>1. g.name = "TOK_AUGMENT" /\ {"name", "id"} \subseteq DOMAIN g
      BY DEF GrammarToken
    <3> HIDE DEF g
    <3>2. /\ IsSequence(s) /\ m = k + 1 /\ s[k + 1] = g
          /\ \A i \in 1 .. k : s[i] = grammar_tokens[i]
      BY <1>2, <2>2, Appended DEF g
    <3>3. k \in Nat /\ DOMAIN s = 1 .. m
      BY <1>2, <3>2, SequenceFacts
    <3>4. \A i \in 1 .. m : i \in 1 .. k \/ i = k + 1
      BY <3>2, <3>3
    <3> HIDE DEF s
    <3>5. QED
      BY <1>1, <3>1, <3>2, <3>3, <3>4, SMTT(30) DEF TokenLists
  <2>3. QED
    BY <2>1, <2>2
<1> HIDE DEF s
<1> DEFINE g == WithIds(s)
<1>4. /\ DOMAIN g = 1 .. m /\ g = [i \in 1 .. m |-> g[i]]
      /\ \A i \in 1 .. m : g[i] = [s[i] EXCEPT !.id = action_id + i - 1]
  BY <1>3 DEF WithIds
<1>5. \A i \in 1 .. m : /\ {"name", "id"} \subseteq DOMAIN g[i]
                        /\ g[i].name = s[i].name /\ g[i].id = action_id + i - 1
  BY <1>3, <1>4
<1> HIDE DEF g
<1>6. IsSequence(g) /\ Len(g) = m
  BY <1>3, <1>4, SequenceOf
<1>7. TokenLists'
  BY <1>1, <1>5, <1>6 DEF TokenLists, Names, g
<1>8. ASSUME phase' = "lexer" PROVE AllNumbered'
  <2> DEFINE all == action_tokens \o g
             a == [i \in 1 .. n |-> action_tokens[i].name]
             b == [i \in 1 .. m |-> g[i].name]
  <2>1. ~ Known("TOK_AUGMENT") /\ err_n = 0
    <3>1. ~ (err_n' > 0)
      BY <1>1, <1>8
    <3>2. ~ crashed'
      BY <1>1 DEF Report, Recorded
    <3>3. CASE Known("TOK_AUGMENT")
      <4>1. err_n' = err_n + 1
        BY <1>1, <3>2, <3>3, ReportFacts
      <4>2. QED
        BY <1>1, <3>1, <4>1
    <3>4. CASE ~ Known("TOK_AUGMENT")
      <4>1. err_n' = err_n + 0
        BY <1>1, <3>2, <3>4, ReportFacts
      <4>2. QED
        BY <1>1, <3>1, <3>4, <4>1
    <3>5. QED
      BY <3>3, <3>4
  <2>2. ActionsNumbered /\ action_id = n
    BY <1>1, <2>1 DEF NumbersInv, ActionsNumbered
  <2>3. /\ IsSequence(all) /\ Len(all) = n + m
        /\ \A i \in 1 .. n : all[i] = action_tokens[i]
        /\ \A i \in 1 .. m : all[n + i] = g[i]
    BY <1>2, <1>6, Concatenated
  <2>4. DOMAIN all = 1 .. n + m
    BY <2>3, SequenceFacts
  <2>5. \A i \in 1 .. n + m : i \in 1 .. n \/ \E j \in 1 .. m : i = n + j
    <3> SUFFICES ASSUME NEW i \in 1 .. n + m, i \notin 1 .. n
                 PROVE  \E j \in 1 .. m : i = n + j
      OBVIOUS
    <3>1. i - n \in 1 .. m /\ i = n + (i - n)
      BY <1>2, <1>3
    <3>2. QED
      BY <3>1
  <2>6. /\ IsSequence(a) /\ Len(a) = n /\ IsSequence(b) /\ Len(b) = m
        /\ \A i \in 1 .. n : a[i] = action_tokens[i].name
        /\ \A i \in 1 .. m : b[i] = g[i].name
    BY <1>2, <1>3, SequenceOf
  <2>7. tokens' = a \o b
    BY <1>1, <1>2, <1>4 DEF g
  <2> HIDE DEF all, a, b
  <2>8. /\ IsSequence(tokens') /\ Len(tokens') = n + m
        /\ \A i \in 1 .. n : tokens'[i] = action_tokens[i].name
        /\ \A i \in 1 .. m : tokens'[n + i] = g[i].name
    BY <2>6, <2>7, Concatenated
  <2>9. tokens' = [i \in DOMAIN all |-> all[i].name]
    <3>1. tokens' = [i \in 1 .. n + m |-> tokens'[i]]
      BY <2>8, SequenceFacts
    <3>2. ASSUME NEW i \in 1 .. n + m PROVE tokens'[i] = all[i].name
      <4>1. CASE i \in 1 .. n
        BY <2>3, <2>8, <4>1
      <4>2. CASE i \notin 1 .. n
        <5>1. PICK j \in 1 .. m : i = n + j
          BY <2>5, <4>2
        <5>2. QED
          BY <2>3, <2>8, <5>1
      <4>3. QED
        BY <4>1, <4>2
    <3>3. QED
      BY <2>4, <3>1, <3>2
  <2>10. \A i \in 1 .. n + m : all[i].id = i - 1
    <3> TAKE i \in 1 .. n + m
    <3>1. CASE i \in 1 .. n
      BY <2>2, <2>3, <3>1 DEF ActionsNumbered
    <3>2. CASE i \notin 1 .. n
      <4>1. PICK j \in 1 .. m : i = n + j
        BY <2>5, <3>2
      <4>2. all[i].id = n + j - 1
        BY <1>5, <2>2, <2>3, <4>1
      <4>3. QED
        BY <1>2, <1>3, <4>1, <4>2
    <3>3. QED
      BY <3>1, <3>2
  <2>11. Last(tokens') = "TOK_AUGMENT"
    <3>1. m \in 1 .. m /\ s[m].name = "TOK_AUGMENT" /\ n + m >= 1
      BY <1>2, <1>3, <2>1
    <3>2. tokens'[n + m] = "TOK_AUGMENT"
      BY <1>5, <2>8, <3>1
    <3>3. QED
      BY <2>8, <3>2 DEF Last
  <2>12. \A i \in 1 .. n :
           IF action_tokens[i].ascii
           THEN ascii_mappings[tokens'[i]] = NEOAST_ASCII_MAX + i - 1
           ELSE tokens'[i] \notin DOMAIN ascii_mappings
    BY <2>2, <2>8 DEF ActionsNumbered, AsciiNumbered
  <2>13. action_tokens' \o grammar_tokens' = all
    BY <1>1 DEF all, g
  <2>14. QED
    BY <1>1, <1>2, <2>4, <2>9, <2>10, <2>11, <2>12, <2>13 DEF AllNumbered
<1>9. phase' = "open" \/ phase' = "lexer"
  BY <1>1
<1>10. QED
  BY <1>7, <1>8, <1>9 DEF NumbersInv

LEMMA NumbersStepInv ==
  ReaderInv /\ StatusInv /\ NumbersInv /\ [Next]_vars => NumbersInv'
<1> SUFFICES ASSUME ReaderInv, StatusInv, NumbersInv, [Next]_vars PROVE NumbersInv'
  OBVIOUS
<1>1. TokenLists /\ err_n \in Nat
  BY DEF NumbersInv, StatusInv, Written
<1>2. ASSUME UNCHANGED <<action_id, action_tokens, grammar_tokens, tokens, ascii_mappings>>
      PROVE  /\ TokenLists' /\ (ActionsNumbered => ActionsNumbered')
             /\ (AllNumbered => AllNumbered')
  BY <1>1, <1>2 DEF TokenLists, Names, ActionsNumbered, AsciiNumbered, AllNumbered
<1>3. CASE UNCHANGED vars
  BY <1>2, <1>3 DEF NumbersInv, vars, vars0, tokenVars
<1>4. CASE ReadStep
  <2>1. /\ UNCHANGED <<action_id, action_tokens, grammar_tokens, tokens, ascii_mappings>>
        /\ phase = "read" /\ phase' \in {"read", "header", "report"}
    BY <1>4 DEF ReadStep, tokenVars, ReaderNext, DeclarePair, HeaderLast, HeaderLink,
                HeaderEnd, DeclareLexerRule, LexerEnd, DeclareGrammar, LinkRules,
                Program, SyntaxError, Shifting, Linking, Reading
  <2>2. QED
    BY <1>2, <2>1, SMTT(30) DEF NumbersInv
<1>5. CASE RegisterAction
  BY <1>5, RegisterNumbers
<1>6. CASE RegisterGrammar
  <2>1. /\ phase = "header" /\ ~ crashed /\ phase' \in {"header", "round2"}
        /\ UNCHANGED <<action_id, action_tokens, tokens, ascii_mappings>>
        /\ \/ Report("header", 1) /\ grammar_tokens' = grammar_tokens
           \/ /\ err_n' = err_n
              /\ grammar_tokens' = Append(grammar_tokens, GrammarToken(Node.value, Node.key))
    BY <1>6 DEF RegisterGrammar, At, Running, StepTo
  <2>2. err_n' = 0 /\ ~ crashed' => err_n = 0
    BY <1>1, <2>1, ReportFacts
  <2>3. TokenLists'
    <3>1. CASE grammar_tokens' = grammar_tokens
      BY <1>1, <2>1, <3>1 DEF TokenLists, Names
    <3>2. CASE grammar_tokens' = Append(grammar_tokens, GrammarToken(Node.value, Node.key))
      <4> DEFINE g == GrammarToken(Node.value, Node.key)
                 k == Len(grammar_tokens)
      <4>1. {"name", "id"} \subseteq DOMAIN g
        BY DEF GrammarToken
      <4> HIDE DEF g
      <4>2. /\ IsSequence(grammar_tokens') /\ Len(grammar_tokens') = k + 1 /\ k \in Nat
            /\ \A i \in 1 .. k : grammar_tokens'[i] = grammar_tokens[i]
            /\ grammar_tokens'[k + 1] = g
        BY <1>1, <3>2, Appended, SequenceFacts DEF TokenLists, g
      <4>3. \A i \in 1 .. k + 1 : i \in 1 .. k \/ i = k + 1
        BY <4>2
      <4>4. QED
        BY <1>1, <2>1, <4>1, <4>2, <4>3 DEF TokenLists, Names
    <3>3. QED
      BY <2>1, <3>1, <3>2
  <2>4. ActionsNumbered => ActionsNumbered'
    BY <2>1 DEF ActionsNumbered, AsciiNumbered
  <2>5. QED
    BY <2>1, <2>2, <2>3, <2>4 DEF NumbersInv
<1>7. CASE HeaderStep /\ ~ RegisterAction /\ ~ RegisterGrammar
  <2>1. /\ phase \in {"header", "round2"} /\ ~ crashed /\ phase' \in {"header", "round2", "ids"}
        /\ UNCHANGED <<action_id, action_tokens, grammar_tokens, tokens, ascii_mappings>>
        /\ (err_n' = err_n \/ Report("header", 1) \/ Report("header", 0))
    BY <1>7 DEF HeaderStep, EnterHeader, HeaderCode, SkipDeclaration, EnterRound2,
                Precedence, AddMacro, StartOrDestructor, At, Running, StepTo,
                tokenVars, Warn
  <2>2. err_n' = 0 /\ ~ crashed' => err_n = 0
    BY <1>1, <2>1, ReportFacts
  <2>3. QED
    BY <1>2, <2>1, <2>2 DEF NumbersInv
<1>8. CASE NumberTokens
  BY <1>8, NumberTokensNumbers
<1>9. CASE LexerElement \/ EnterGrammar \/ GrammarElement \/ GrammarEnd
  <2>1. /\ phase \in {"lexer", "grammar"} /\ phase' \in {"lexer", "grammar", "cc", "open"}
        /\ UNCHANGED <<action_id, action_tokens, grammar_tokens, tokens, ascii_mappings>>
    BY <1>9 DEF LexerElement, EnterGrammar, GrammarElement, GrammarEnd, Running, tokenVars
  <2>2. QED
    BY <1>2, <2>1 DEF NumbersInv
<1>10. CASE InitCC \/ OpenOutputs \/ WriteHeader \/ WriteSource \/ Exit
  <2>1. /\ UNCHANGED <<action_id, action_tokens, grammar_tokens, tokens, ascii_mappings>>
        /\ phase' \in {"open", "write_header", "write_source", "report", "done"}
    BY <1>10 DEF InitCC, OpenOutputs, WriteHeader, WriteSource, Exit, tokenVars
  <2>2. QED
    BY <1>2, <2>1 DEF NumbersInv
<1>11. QED
  BY <1>3, <1>4, <1>5, <1>6, <1>7, <1>8, <1>9, <1>10 DEF Next, HeaderStep

(***************************************************************************)
(* The numbers of the tokens are their places in the enum, the augment     *)
(* token is the last, and the lexer's map agrees, for every file: a        *)
(* rejected token leaves a gap (codegen.cc:309), but an error as well.     *)
(***************************************************************************)
THEOREM TokensHaveTheirNumbers == Spec => []TokensAreNumbered
<1>1. NumbersInv => TokensAreNumbered
  BY DEF NumbersInv, AllNumbered, TokensAreNumbered
<1>2. QED
  BY <1>1, ReaderStart, ReaderStepInv, StatusStart, StatusStepInv, NumbersStart,
     NumbersStepInv, PTL DEF Spec

=============================================================================
