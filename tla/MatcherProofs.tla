---------------------------- MODULE MatcherProofs ----------------------------
(***************************************************************************)
(* The buffer of the matcher, for every text, every automaton and every    *)
(* size of the buffer: its positions stay inside, and it holds the text    *)
(* through shifts, enlargements and the terminator of yytext.  From that,  *)
(* the lexer of grammar files on every file: its stack of lexer states,    *)
(* its brace buffer and the rules that reach its actions; that the matcher *)
(* implements the cursor of module Scanner; and the dedents, the tab stops *)
(* and the begins of lines of the lexer with indents.                      *)
(***************************************************************************)
EXTENDS GrammarLexer, IndentLexer, SequenceTheorems, FiniteSetTheorems,
        WellFoundedInduction, TLAPS

Fields == {"buf", "max", "txt", "len", "cap", "cur", "pos", "end", "ind", "got",
           "chr", "lpb", "lno", "cno", "num", "eof", "ded", "col", "tab", "mrk"}

\* The positions of x, in its buffer; the last place of the buffer, which no
\* read fills, is as it was allocated.
Fit(x) ==
  /\ DOMAIN x = Fields
  /\ x.txt \in Nat /\ x.len \in Nat /\ x.cur \in Nat /\ x.pos \in Nat
  /\ x.end \in Nat /\ x.ind \in Nat /\ x.lpb \in Nat /\ x.num \in Nat
  /\ x.max \in Nat /\ x.max >= 2 * Block /\ x.end < x.max
  /\ x.txt + x.len <= x.end
  /\ x.txt <= x.cur /\ x.cur <= x.end
  /\ x.txt <= x.pos /\ x.pos <= x.end
  /\ x.txt <= x.ind /\ x.ind <= x.end
  /\ x.lpb <= x.txt
  /\ DOMAIN x.buf = 0 .. x.max - 1 /\ x.buf[x.max - 1] = "nul"

\* What x knows of the text when the input has delivered f characters.
At(x, i) == IF i = x.txt + x.len /\ x.chr # "nul" THEN x.chr ELSE x.buf[i]

Holds(x, f) ==
  /\ f = x.num + x.end
  /\ \A i \in 0 .. x.end - 1 : At(x, i) = text[x.num + i + 1]

\* A character that is kept in chr_ is one of the text, or there is no more
\* text that could be read to its place.
ChrOk(x, f) ==
  x.chr # "nul" => /\ x.txt + x.len < x.max - 1
                   /\ x.txt + x.len = x.end => f = Len(text)

Good(x, f) == Fit(x) /\ Holds(x, f) /\ ChrOk(x, f)

-----------------------------------------------------------------------------
LEMMA CountedFacts ==
  ASSUME NEW x, DOMAIN x = Fields
  PROVE  /\ DOMAIN Counted(x) = Fields
         /\ Counted(x).lpb = x.txt
         /\ \A f \in Fields \ {"lno", "cno", "lpb"} : Counted(x)[f] = x[f]
<1>1. PICK a, b : Counted(x) = [x EXCEPT !.lno = a, !.cno = b, !.lpb = x.txt]
  BY DEF Counted
<1>2. QED
  BY <1>1 DEF Fields

LEMMA ShiftedFacts ==
  ASSUME NEW x, Fit(x)
  PROVE  LET y == Shifted(x) IN
         /\ DOMAIN y = Fields
         /\ y.txt = 0 /\ y.lpb = 0 /\ y.end = x.end - x.txt
         /\ y.cur = x.cur - x.txt /\ y.pos = x.pos - x.txt /\ y.ind = x.ind - x.txt
         /\ y.num = x.num + x.txt /\ y.max = x.max /\ y.len = x.len
         /\ y.chr = x.chr /\ y.eof = x.eof
         /\ y.buf = [i \in 0 .. x.max - 1 |->
                       IF i < x.end - x.txt THEN x.buf[i + x.txt] ELSE x.buf[i]]
<1> DEFINE c == Counted(x)
           b == [i \in 0 .. x.max - 1 |->
                   IF i < x.end - x.txt THEN x.buf[i + x.txt] ELSE x.buf[i]]
<1>1. /\ DOMAIN c = Fields
      /\ \A f \in Fields \ {"lno", "cno", "lpb"} : c[f] = x[f]
  BY CountedFacts DEF Fit
<1>2. /\ c.cur = x.cur /\ c.ind = x.ind /\ c.pos = x.pos /\ c.end = x.end
      /\ c.num = x.num /\ c.buf = x.buf /\ c.max = x.max /\ c.len = x.len
      /\ c.chr = x.chr /\ c.eof = x.eof
  BY <1>1 DEF Fields
<1>3. DOMAIN x.buf = 0 .. x.max - 1
  BY DEF Fit
<1>4. Shifted(x) = [c EXCEPT !.cur = x.cur - x.txt, !.ind = x.ind - x.txt,
                             !.pos = x.pos - x.txt, !.end = x.end - x.txt,
                             !.num = x.num + x.txt, !.txt = 0, !.lpb = 0,
                             !.buf = b]
  BY <1>1, <1>2, <1>3 DEF Shifted, Fields
<1> HIDE DEF c, b
<1>5. QED
  BY <1>1, <1>2, <1>4 DEF Fields, b

\* The match moves to the front, and the text of the buffer with it.
LEMMA ShiftedGood ==
  ASSUME NEW x, NEW f, Good(x, f) PROVE Good(Shifted(x), f)
<1> DEFINE y == Shifted(x)
<1>1. /\ y.txt = 0 /\ y.lpb = 0 /\ y.end = x.end - x.txt
      /\ y.cur = x.cur - x.txt /\ y.pos = x.pos - x.txt /\ y.ind = x.ind - x.txt
      /\ y.num = x.num + x.txt /\ y.max = x.max /\ y.len = x.len
  BY ShiftedFacts DEF Good
<1>2. /\ DOMAIN y = Fields /\ y.chr = x.chr
      /\ y.buf = [i \in 0 .. x.max - 1 |->
                    IF i < x.end - x.txt THEN x.buf[i + x.txt] ELSE x.buf[i]]
  BY ShiftedFacts DEF Good
<1>3. /\ x.txt \in Nat /\ x.len \in Nat /\ x.cur \in Nat /\ x.pos \in Nat
      /\ x.end \in Nat /\ x.ind \in Nat /\ x.num \in Nat
      /\ x.max \in Nat /\ x.max >= 2 * Block /\ x.end < x.max
      /\ x.txt + x.len <= x.end
      /\ x.txt <= x.cur /\ x.cur <= x.end /\ x.txt <= x.pos /\ x.pos <= x.end
      /\ x.txt <= x.ind /\ x.ind <= x.end
  BY DEF Good, Fit
<1>4. DOMAIN x.buf = 0 .. x.max - 1 /\ x.buf[x.max - 1] = "nul"
  BY DEF Good, Fit
<1> HIDE DEF y
<1>5. Fit(y)
  <2>1. y.max - 1 \in 0 .. x.max - 1 /\ ~ (x.max - 1 < x.end - x.txt)
    BY <1>1, <1>3, BlockAssumption
  <2>2. y.buf[y.max - 1] = "nul" /\ DOMAIN y.buf = 0 .. y.max - 1
    BY <2>1, <1>1, <1>2, <1>4
  <2>3. /\ y.txt \in Nat /\ y.len \in Nat /\ y.cur \in Nat /\ y.pos \in Nat
        /\ y.end \in Nat /\ y.ind \in Nat /\ y.lpb \in Nat /\ y.num \in Nat
        /\ y.max \in Nat /\ y.max >= 2 * Block /\ y.end < y.max
    BY <1>1, <1>3
  <2>4. /\ y.txt + y.len <= y.end
        /\ y.txt <= y.cur /\ y.cur <= y.end /\ y.txt <= y.pos /\ y.pos <= y.end
        /\ y.txt <= y.ind /\ y.ind <= y.end /\ y.lpb <= y.txt
    BY <1>1, <1>3
  <2>5. QED
    BY <1>2, <2>2, <2>3, <2>4 DEF Fit
<1>6. Holds(y, f)
  <2>1. f = y.num + y.end
    BY <1>1, <1>3 DEF Good, Holds
  <2>2. ASSUME NEW i \in 0 .. y.end - 1
        PROVE  At(y, i) = text[y.num + i + 1]
    <3>1. /\ i + x.txt \in 0 .. x.end - 1 /\ i \in 0 .. x.max - 1
          /\ i < x.end - x.txt
          /\ y.num + i + 1 = x.num + (i + x.txt) + 1
      BY <1>1, <1>3
    <3>2. i = y.txt + y.len <=> i + x.txt = x.txt + x.len
      BY <1>1, <1>3
    <3>3. At(x, i + x.txt) = text[x.num + (i + x.txt) + 1]
      BY <3>1 DEF Good, Holds
    <3>4. y.buf[i] = x.buf[i + x.txt]
      BY <3>1, <1>2
    <3>5. QED
      BY <3>1, <3>2, <3>3, <3>4, <1>2 DEF At
  <2>3. QED
    BY <2>1, <2>2 DEF Holds
<1>7. ChrOk(y, f)
  <2>1. /\ y.txt + y.len = y.end <=> x.txt + x.len = x.end
        /\ x.txt + x.len < x.max - 1 => y.txt + y.len < y.max - 1
    BY <1>1, <1>3
  <2>2. QED
    BY <2>1, <1>2 DEF Good, ChrOk
<1>8. QED
  BY <1>5, <1>6, <1>7 DEF Good, y

\* The buffer doubles once: a block has room behind it then.
LEMMA ExpandedFacts ==
  ASSUME Fresh = "nul", NEW x, NEW f, Good(x, f)
  PROVE  LET y == Shifted(x)
             z == Expanded(x)
         IN /\ z.max = x.max * 2 /\ z.max - z.end >= Block
            /\ z.txt = y.txt /\ z.pos = y.pos /\ z.cur = y.cur /\ z.end = y.end
            /\ z.chr = x.chr /\ z.eof = x.eof /\ z.len = x.len
            /\ Good(z, f)
<1> DEFINE y == Shifted(x)
           S == {k \in {x.max * 2, x.max * 4} : k >= y.end + Block}
           b == [i \in 0 .. x.max * 2 - 1 |-> IF i < x.max THEN y.buf[i] ELSE Fresh]
           z == [y EXCEPT !.max = x.max * 2, !.buf = b]
<1>1. /\ Good(y, f) /\ y.max = x.max /\ y.chr = x.chr /\ y.eof = x.eof
      /\ y.len = x.len
  BY ShiftedGood, ShiftedFacts DEF Good
<1>2. /\ y.txt \in Nat /\ y.len \in Nat /\ y.end \in Nat /\ y.max \in Nat
      /\ y.max >= 2 * Block /\ y.end < y.max /\ y.txt + y.len <= y.end
  BY <1>1 DEF Good, Fit
<1>3. DOMAIN y = Fields /\ DOMAIN y.buf = 0 .. y.max - 1
  BY <1>1 DEF Good, Fit
<1>4. Min(S) = x.max * 2
  <2> DEFINE mx == x.max
             en == y.end
  <2>1. mx \in Nat /\ en \in Nat /\ mx >= 2 * Block /\ en < mx
    BY <1>1, <1>2
  <2>2. S = {k \in {mx * 2, mx * 4} : k >= en + Block}
    OBVIOUS
  <2> HIDE DEF y, mx, en, S
  <2>3. mx * 2 >= en + Block /\ mx * 2 <= mx * 4 /\ mx * 2 \in Nat /\ mx * 4 \in Nat
    BY <2>1, BlockAssumption
  <2>4. mx * 2 \in S /\ \A k \in S : mx * 2 <= k /\ k \in Nat
    BY <2>2, <2>3
  <2>5. Min(S) \in S /\ \A k \in S : Min(S) <= k
    BY <2>4 DEF Min
  <2>6. Min(S) = mx * 2
    BY <2>3, <2>4, <2>5
  <2>7. QED
    BY <2>6 DEF mx
<1>5. Expanded(x) = z
  BY <1>1, <1>3, <1>4 DEF Expanded, Fields
<1> HIDE DEF y
<1>6. /\ z.max = x.max * 2
      /\ z.txt = y.txt /\ z.len = y.len /\ z.cur = y.cur /\ z.pos = y.pos
      /\ z.end = y.end /\ z.ind = y.ind /\ z.lpb = y.lpb /\ z.num = y.num
  BY <1>3 DEF Fields
<1>7. DOMAIN z = Fields /\ z.buf = b /\ z.chr = y.chr /\ z.eof = y.eof
  BY <1>3 DEF Fields
<1> HIDE DEF z
<1>8. /\ z.max - z.end >= Block /\ z.max \in Nat /\ x.max \in Nat
      /\ z.max >= 2 * Block /\ z.end < z.max
      /\ z.max - 1 \in 0 .. x.max * 2 - 1 /\ ~ (z.max - 1 < x.max)
      /\ y.txt + y.len < y.max - 1 => z.txt + z.len < z.max - 1
  <2> DEFINE mx == x.max
             en == y.end
             t  == y.txt + y.len
  <2>1. /\ mx \in Nat /\ en \in Nat /\ mx >= 2 * Block /\ en < mx /\ t \in Nat
        /\ z.max = mx * 2 /\ z.end = en /\ y.max = mx /\ z.txt + z.len = t
    BY <1>1, <1>2, <1>6
  <2> HIDE DEF mx, en, t
  <2>2. QED
    BY <2>1, BlockAssumption DEF mx, t
<1>9. Fit(z)
  <2>1. DOMAIN z.buf = 0 .. z.max - 1 /\ z.buf[z.max - 1] = "nul"
    BY <1>6, <1>7, <1>8
  <2>2. QED
    BY <1>1, <1>6, <1>7, <1>8, <2>1 DEF Fit, Good
<1>10. Holds(z, f)
  <2>1. ASSUME NEW i \in 0 .. z.end - 1
        PROVE  At(z, i) = At(y, i) /\ i \in 0 .. y.end - 1
    <3>1. i \in 0 .. x.max * 2 - 1 /\ i < x.max /\ i \in 0 .. y.end - 1
      BY <1>1, <1>2, <1>6
    <3>2. z.buf[i] = y.buf[i]
      BY <3>1, <1>7
    <3>3. QED
      BY <3>1, <3>2, <1>6, <1>7 DEF At
  <2>2. QED
    BY <2>1, <1>1, <1>6 DEF Good, Holds
<1>11. ChrOk(z, f)
  BY <1>1, <1>6, <1>7, <1>8 DEF Good, ChrOk
<1>12. QED
  BY <1>1, <1>5, <1>6, <1>7, <1>8, <1>9, <1>10, <1>11 DEF Good, y

\* What asks for room gets it.
LEMMA RoomyFacts ==
  ASSUME Fresh = "nul", NEW x, NEW f, Good(x, f)
  PROVE  LET r == Roomy(x) IN
         /\ Good(r, f) /\ r.end + 1 < r.max
         /\ r.chr = x.chr /\ r.eof = x.eof /\ r.len = x.len
         /\ x.cur <= x.pos => r.cur <= r.pos
         /\ x.pos >= x.end => r.pos >= r.end
<1> DEFINE y == Shifted(x)
           z == Expanded(x)
<1>1. /\ x.txt \in Nat /\ x.cur \in Nat /\ x.pos \in Nat /\ x.end \in Nat
      /\ x.max \in Nat /\ x.max >= 2 * Block /\ x.end < x.max /\ x.txt <= x.end
      /\ x.txt <= x.cur /\ x.txt <= x.pos
  BY DEF Good, Fit
<1>2. /\ Good(y, f) /\ y.end = x.end - x.txt /\ y.cur = x.cur - x.txt
      /\ y.pos = x.pos - x.txt /\ y.max = x.max
      /\ y.len = x.len /\ y.chr = x.chr /\ y.eof = x.eof
  BY ShiftedGood, ShiftedFacts DEF Good
<1>3. /\ Good(z, f) /\ z.max = x.max * 2 /\ z.max - z.end >= Block
      /\ z.end = y.end /\ z.cur = y.cur /\ z.pos = y.pos
      /\ z.len = x.len /\ z.chr = x.chr /\ z.eof = x.eof
  BY ExpandedFacts
<1>4. /\ x.cur <= x.pos => y.cur <= y.pos
      /\ x.pos >= x.end => y.pos >= y.end
      /\ y.end \in Nat /\ x.max * 2 \in Nat
  BY <1>1, <1>2
<1>5. CASE x.end + 1 < x.max
  <2>1. Roomy(x) = x
    BY <1>1, <1>5 DEF Roomy
  <2>2. QED
    BY <2>1, <1>5
<1>6. CASE ~ (x.end + 1 < x.max) /\ x.max - x.end + x.txt >= Block
  <2>1. /\ x.end + 1 >= x.max /\ x.max - x.end < Block + 1
        /\ ~ (x.max - x.end >= Block + 1)
    BY <1>1, <1>6, BlockAssumption
  <2>2. Roomy(x) = y
    BY <2>1, <1>6 DEF Roomy, Grown
  <2>3. y.end + 1 < y.max
    BY <1>1, <1>2, <1>6, BlockAssumption
  <2>4. QED
    BY <2>2, <2>3, <1>2, <1>4
<1>7. CASE ~ (x.end + 1 < x.max) /\ ~ (x.max - x.end + x.txt >= Block)
  <2>1. /\ x.end + 1 >= x.max /\ ~ (x.max - x.end >= Block + 1)
    BY <1>1, <1>7, BlockAssumption
  <2>2. Roomy(x) = z
    BY <2>1, <1>7 DEF Roomy, Grown
  <2>3. z.end + 1 < z.max
    BY <1>3, <1>4, BlockAssumption
  <2>4. QED
    BY <2>2, <2>3, <1>3, <1>4
<1>8. QED
  BY <1>5, <1>6, <1>7

\* What the input delivers: as much as there is room for and text left.
LEMMA DeliveryFacts ==
  ASSUME ShortReads = FALSE, Fresh = "nul", Len(text) \in Nat,
         fed \in 0 .. Len(text), NEW x, Good(x, fed), Wants(x), NEW k \in Chunks(x)
  PROVE  LET r == Roomy(x) IN
         /\ k \in Nat /\ fed + k \in 0 .. Len(text) /\ r.end + k \in Nat
         /\ r.end + k < r.max
         /\ fed + k = Len(text) \/ r.end + k = r.max - 1
         /\ k = 0 => fed = Len(text)
<1> DEFINE r == Roomy(x)
           a == r.max - r.end - 1
           b == Len(text) - fed
<1>1. /\ r.end + 1 < r.max /\ r.end \in Nat /\ r.max \in Nat
  BY RoomyFacts DEF Good, Fit
<1>2. k = Min({a, b})
  BY DEF Chunks, Deliveries
<1>3. a \in Nat /\ b \in Nat /\ a # 0
  BY <1>1
<1>4. k \in {a, b} /\ k <= a /\ k <= b
  <2> HIDE DEF a, b
  <2>1. \E v \in {a, b} : \A w \in {a, b} : v <= w
    BY <1>3
  <2>2. Min({a, b}) \in {a, b} /\ \A w \in {a, b} : Min({a, b}) <= w
    BY <2>1 DEF Min
  <2>3. QED
    BY <2>2, <1>2
<1> HIDE DEF r
<1>5. QED
  BY <1>1, <1>3, <1>4 DEF r

\* Places in a buffer of n that has e characters and gets k more.
LEMMA Places ==
  ASSUME NEW e \in Nat, NEW k \in Nat, NEW n \in Nat, e + k < n
  PROVE  /\ n - 1 \in 0 .. n - 1 /\ n - 1 \notin e .. e + k - 1
         /\ \A p \in Nat : p <= e => p <= e + k
         /\ \A i \in 0 .. e + k - 1 :
              /\ i \in 0 .. n - 1
              /\ i < e => i \in 0 .. e - 1 /\ i \notin e .. e + k - 1
              /\ ~ (i < e) => i \in e .. e + k - 1 /\ k # 0
         /\ \A q \in Nat : q + e + k = q + (e + k)
OBVIOUS

LEMMA Place ==
  ASSUME NEW e \in Nat, NEW q \in Nat, NEW i \in Nat
  PROVE  q + e + 1 + i - e = q + i + 1
OBVIOUS

LEMMA ReadGood ==
  ASSUME ShortReads = FALSE, Fresh = "nul", Len(text) \in Nat,
         fed \in 0 .. Len(text), NEW x, Good(x, fed), Wants(x), NEW k \in Chunks(x)
  PROVE  LET y == Read(x, k) IN
         /\ Good(y, fed + k)
         /\ y.chr = x.chr /\ y.len = x.len
         /\ x.cur <= x.pos => y.cur <= y.pos
         /\ fed + k = Len(text) \/ y.end = y.max - 1
         /\ y.eof => fed + k = Len(text)
<1> DEFINE r == Roomy(x)
           b == [i \in 0 .. r.max - 1 |-> IF i \in r.end .. r.end + k - 1
                                          THEN text[fed + 1 + i - r.end]
                                          ELSE r.buf[i]]
           y == [r EXCEPT !.end = r.end + k, !.eof = (r.pos >= r.end + k),
                          !.buf = b]
<1>1. /\ Good(r, fed) /\ r.chr = x.chr /\ r.len = x.len
      /\ x.cur <= x.pos => r.cur <= r.pos
      /\ r.pos >= r.end
  BY RoomyFacts DEF Wants
<1>2. k \in Nat /\ r.end + k \in Nat /\ r.end + k < r.max
  BY DeliveryFacts
<1>a. /\ fed + k \in 0 .. Len(text)
      /\ fed + k = Len(text) \/ r.end + k = r.max - 1
      /\ k = 0 => fed = Len(text)
  BY DeliveryFacts
<1>3. /\ r.txt \in Nat /\ r.len \in Nat /\ r.cur \in Nat /\ r.pos \in Nat
      /\ r.end \in Nat /\ r.num \in Nat /\ r.ind \in Nat
      /\ r.max \in Nat /\ r.end < r.max
      /\ r.txt + r.len <= r.end /\ r.cur <= r.end /\ r.pos <= r.end /\ r.ind <= r.end
  BY <1>1 DEF Good, Fit
<1>b. fed = r.num + r.end
  BY <1>1 DEF Good, Holds
<1>4. DOMAIN r = Fields /\ DOMAIN r.buf = 0 .. r.max - 1 /\ r.buf[r.max - 1] = "nul"
  BY <1>1 DEF Good, Fit
<1>5. Read(x, k) = y
  BY <1>4 DEF Read, Fields
<1> HIDE DEF r
<1>6. /\ y.txt = r.txt /\ y.len = r.len /\ y.cur = r.cur /\ y.pos = r.pos
      /\ y.end = r.end + k /\ y.ind = r.ind /\ y.lpb = r.lpb /\ y.num = r.num
      /\ y.max = r.max
  BY <1>4 DEF Fields
<1>7. /\ DOMAIN y = Fields /\ y.buf = b /\ y.chr = r.chr
      /\ y.eof <=> r.pos >= r.end + k
  BY <1>4 DEF Fields
<1> HIDE DEF y
<1>8. Fit(y)
  <2>1. r.max - 1 \in 0 .. r.max - 1 /\ r.max - 1 \notin r.end .. r.end + k - 1
    BY <1>2, <1>3, Places
  <2>2. DOMAIN y.buf = 0 .. y.max - 1 /\ y.buf[y.max - 1] = "nul"
    BY <2>1, <1>4, <1>6, <1>7
  <2>3. /\ r.txt + r.len <= r.end + k /\ r.cur <= r.end + k /\ r.pos <= r.end + k
        /\ r.ind <= r.end + k
    <3>1. r.txt + r.len \in Nat
      BY <1>3
    <3>2. \A p \in Nat : p <= r.end => p <= r.end + k
      BY <1>2, <1>3, Places
    <3>3. QED
      BY <3>1, <3>2, <1>3
  <2>4. QED
    BY <2>2, <2>3, <1>1, <1>2, <1>6, <1>7 DEF Good, Fit
<1>9. Holds(y, fed + k)
  <2>1. fed + k = y.num + y.end
    <3>1. r.num + r.end + k = r.num + (r.end + k)
      BY <1>2, <1>3, Places
    <3>2. QED
      BY <3>1, <1>b, <1>6
  <2>2. ASSUME NEW i \in 0 .. y.end - 1 PROVE At(y, i) = text[y.num + i + 1]
    <3>1. i \in 0 .. r.end + k - 1 /\ i \in 0 .. r.max - 1
      <4> DEFINE e == r.end + k
                 n == r.max
      <4>1. e \in Nat /\ n \in Nat /\ e < n /\ y.end = e
        BY <1>2, <1>3, <1>6
      <4> HIDE DEF e, n, y
      <4>2. i \in 0 .. e - 1 /\ i \in 0 .. n - 1
        BY <4>1
      <4>3. (r.end + k) - 1 = r.end + k - 1
        <5>1. \A n1, n2 \in Nat : (n1 + n2) - 1 = n1 + n2 - 1
          OBVIOUS
        <5>2. QED
          BY <5>1, <1>2, <1>3, Zenon
      <4>4. QED
        BY <4>2, <4>3, Zenon DEF e, n
    <3>2. CASE i < r.end
      <4>1. i \in 0 .. r.end - 1 /\ i \notin r.end .. r.end + k - 1
        BY <3>1, <3>2, <1>2, <1>3, Places
      <4>2. y.buf[i] = r.buf[i] /\ At(r, i) = text[r.num + i + 1]
        BY <4>1, <3>1, <1>1, <1>7 DEF Good, Holds
      <4>3. QED
        BY <4>2, <1>6, <1>7 DEF At
    <3>3. CASE ~ (i < r.end)
      <4>1. /\ i \in r.end .. r.end + k - 1 /\ k # 0
            /\ fed + 1 + i - r.end = r.num + i + 1
        <5>1. i \in r.end .. r.end + k - 1 /\ k # 0
          BY <3>1, <3>3, <1>2, <1>3, Places
        <5>2. i \in Nat
          BY <3>1
        <5>3. r.num + r.end + 1 + i - r.end = r.num + i + 1
          BY <5>2, <1>3, Place
        <5>4. QED
          BY <5>1, <5>3, <1>b
      <4>2. y.buf[i] = text[r.num + i + 1]
        BY <4>1, <3>1, <1>7
      \* Nothing that is in chr_ belongs there.
      <4>3. i = r.txt + r.len => r.chr = "nul"
        <5>1. SUFFICES ASSUME i = r.txt + r.len, r.chr # "nul" PROVE FALSE
          OBVIOUS
        <5>2. r.txt + r.len = r.end
          BY <5>1, <3>1, <3>3, <1>2, <1>3
        <5>3. fed = Len(text)
          BY <5>1, <5>2, <1>1 DEF Good, ChrOk
        <5>4. QED
          BY <5>3, <4>1, <1>2, <1>a
      <4>4. QED
        BY <4>2, <4>3, <1>6, <1>7 DEF At
    <3>4. QED
      BY <3>2, <3>3
  <2>3. QED
    BY <2>1, <2>2 DEF Holds
<1>10. ChrOk(y, fed + k)
  <2>1. r.txt + r.len = r.end + k => r.txt + r.len = r.end /\ k = 0
    BY <1>2, <1>3
  <2>2. k = 0 => fed + k = Len(text)
    BY <1>a
  <2>3. QED
    BY <2>1, <2>2, <1>1, <1>6, <1>7 DEF Good, ChrOk
<1>11. y.eof => fed + k = Len(text)
  <2>1. r.pos >= r.end + k => k = 0
    BY <1>2, <1>3
  <2>2. QED
    BY <2>1, <1>a, <1>7
<1>12. QED
  BY <1>1, <1>2, <1>a, <1>5, <1>6, <1>7, <1>8, <1>9, <1>10, <1>11 DEF Good

LEMMA ReadyGood ==
  ASSUME ShortReads = FALSE, Fresh = "nul", Len(text) \in Nat,
         fed \in 0 .. Len(text), NEW x, Good(x, fed), NEW k \in Chunks(x)
  PROVE  LET y == Ready(x, k) IN
         /\ Good(y, fed + k) /\ fed + k \in 0 .. Len(text)
         /\ y.chr = x.chr /\ y.len = x.len
         /\ x.cur <= x.pos => y.cur <= y.pos
         /\ Wants(x) => fed + k = Len(text) \/ y.end = y.max - 1
         /\ ~ Wants(x) => y = x /\ k = 0
         /\ (x.eof => fed = Len(text)) => (y.eof => fed + k = Len(text))
<1>1. CASE Wants(x)
  <2>1. Ready(x, k) = Read(x, k)
    BY <1>1 DEF Ready
  <2>2. fed + k \in 0 .. Len(text)
    BY <1>1, DeliveryFacts
  <2>3. QED
    BY <1>1, <2>1, <2>2, ReadGood
<1>2. CASE ~ Wants(x)
  <2>1. Ready(x, k) = x /\ k = 0
    BY <1>2 DEF Ready, Chunks
  <2>2. fed + k = fed
    BY <2>1
  <2>3. QED
    BY <1>2, <2>1, <2>2
<1>3. QED
  BY <1>1, <1>2

-----------------------------------------------------------------------------
(***************************************************************************)
(* What is done to the matcher between two reads.                          *)
(***************************************************************************)
\* y has the buffer of x ...
SameBuffer(x, y) ==
  /\ DOMAIN y = Fields
  /\ y.buf = x.buf /\ y.max = x.max /\ y.end = x.end /\ y.num = x.num
  /\ y.chr = x.chr /\ y.eof = x.eof

\* ... and its positions in there.
Placed(y) ==
  /\ y.txt \in Nat /\ y.len \in Nat /\ y.cur \in Nat /\ y.pos \in Nat
  /\ y.ind \in Nat /\ y.lpb \in Nat
  /\ y.txt + y.len <= y.end
  /\ y.txt <= y.cur /\ y.cur <= y.end /\ y.txt <= y.pos /\ y.pos <= y.end
  /\ y.txt <= y.ind /\ y.ind <= y.end /\ y.lpb <= y.txt

LEMMA MovedGood ==
  ASSUME NEW x, NEW y, NEW f, Good(x, f), x.chr = "nul",
         SameBuffer(x, y), Placed(y)
  PROVE  Good(y, f)
<1>1. Fit(y)
  BY DEF Good, Fit, SameBuffer, Placed
<1>2. Holds(y, f) /\ ChrOk(y, f)
  BY DEF Good, Holds, ChrOk, At, SameBuffer
<1>3. QED
  BY <1>1, <1>2 DEF Good

LEMMA GoodPlaced ==
  ASSUME NEW x, NEW f, Good(x, f)
  PROVE  Placed(x) /\ SameBuffer(x, x) /\ x.end \in Nat
BY DEF Good, Fit, Placed, SameBuffer

\* The place of the terminator.
LEMMA TerminatorPlace ==
  ASSUME NEW x, NEW f, Good(x, f)
  PROVE  /\ x.txt + x.len \in 0 .. x.max - 1 /\ x.max - 1 \in 0 .. x.max - 1
         /\ x.txt + x.len # x.max - 1 => x.txt + x.len < x.max - 1
<1>1. /\ x.txt \in Nat /\ x.len \in Nat /\ x.end \in Nat /\ x.max \in Nat
      /\ x.txt + x.len <= x.end /\ x.end < x.max
  BY DEF Good, Fit
<1>2. QED
  BY <1>1

LEMMA ResetTextGood ==
  ASSUME NEW x, NEW f, Good(x, f)
  PROVE  LET y == ResetText(x) IN
         /\ Good(y, f) /\ y.chr = "nul" /\ y.eof = x.eof
         /\ y.txt = x.txt /\ y.cur = x.cur /\ y.pos = x.pos /\ y.end = x.end
         /\ y.max = x.max /\ y.lpb = x.lpb
<1>1. CASE x.chr = "nul"
  BY <1>1 DEF ResetText
<1>2. CASE x.chr # "nul"
  <2> DEFINE t == x.txt + x.len
             b == [x.buf EXCEPT ![t] = x.chr]
             y == [x EXCEPT !.buf = b, !.chr = "nul"]
  <2>1. DOMAIN x = Fields /\ DOMAIN x.buf = 0 .. x.max - 1
    BY DEF Good, Fit
  <2>2. ResetText(x) = y
    BY <1>2 DEF ResetText
  <2>3. /\ DOMAIN y = Fields /\ y.buf = b /\ y.chr = "nul"
        /\ y.txt = x.txt /\ y.len = x.len /\ y.cur = x.cur /\ y.pos = x.pos
        /\ y.end = x.end /\ y.ind = x.ind /\ y.lpb = x.lpb /\ y.num = x.num
        /\ y.max = x.max /\ y.eof = x.eof
    BY <2>1 DEF Fields
  <2> HIDE DEF y
  <2>4. t \in 0 .. x.max - 1 /\ t # x.max - 1
    <3>1. t < x.max - 1 /\ t \in 0 .. x.max - 1 /\ x.max \in Nat
      BY <1>2, TerminatorPlace DEF Good, ChrOk, Fit
    <3>2. QED
      BY <3>1
  <2>5. Fit(y)
    <3>1. x.max - 1 \in 0 .. x.max - 1
      BY TerminatorPlace
    <3>2. DOMAIN b = 0 .. x.max - 1 /\ b[x.max - 1] = "nul"
      BY <2>1, <2>4, <3>1 DEF Good, Fit
    <3> HIDE DEF b
    <3>3. QED
      BY <3>2, <2>3 DEF Good, Fit
  <2>6. Holds(y, f)
    <3>1. ASSUME NEW i \in 0 .. x.end - 1 PROVE At(y, i) = At(x, i)
      <4>1. i \in 0 .. x.max - 1
        BY DEF Good, Fit
      <4>2. y.buf[i] = IF i = t THEN x.chr ELSE x.buf[i]
        BY <4>1, <2>1, <2>3
      <4>3. QED
        BY <4>2, <2>3, <1>2 DEF At
    <3>2. QED
      BY <3>1, <2>3 DEF Good, Holds
  <2>7. ChrOk(y, f)
    BY <2>3 DEF ChrOk
  <2>8. QED
    BY <2>2, <2>3, <2>5, <2>6, <2>7 DEF Good
<1>3. QED
  BY <1>1, <1>2

LEMMA TerminatedGood ==
  ASSUME NEW x, NEW f, Good(x, f), x.chr = "nul", f = Len(text) \/ x.end = x.max - 1
  PROVE  LET y == Terminated(x) IN
         /\ Good(y, f) /\ y.eof = x.eof
         /\ y.txt = x.txt /\ y.cur = x.cur /\ y.pos = x.pos /\ y.end = x.end
         /\ y.max = x.max
<1> DEFINE t == x.txt + x.len
           b == [x.buf EXCEPT ![t] = "nul"]
           y == [x EXCEPT !.chr = x.buf[t], !.buf = b]
<1>1. DOMAIN x = Fields /\ DOMAIN x.buf = 0 .. x.max - 1 /\ x.buf[x.max - 1] = "nul"
  BY DEF Good, Fit
<1>2. Terminated(x) = y
  BY DEF Terminated
<1>3. /\ DOMAIN y = Fields /\ y.buf = b /\ y.chr = x.buf[t]
      /\ y.txt = x.txt /\ y.len = x.len /\ y.cur = x.cur /\ y.pos = x.pos
      /\ y.end = x.end /\ y.ind = x.ind /\ y.lpb = x.lpb /\ y.num = x.num
      /\ y.max = x.max /\ y.eof = x.eof
  BY <1>1 DEF Fields
<1> HIDE DEF y
<1>4. /\ t \in 0 .. x.max - 1 /\ x.max - 1 \in 0 .. x.max - 1
      /\ t # x.max - 1 => t < x.max - 1
  BY TerminatorPlace
<1>5. Fit(y)
  <2>1. DOMAIN b = 0 .. x.max - 1 /\ b[x.max - 1] = "nul"
    BY <1>1, <1>4
  <2> HIDE DEF b
  <2>2. QED
    BY <2>1, <1>3 DEF Good, Fit
<1>6. Holds(y, f)
  <2>1. ASSUME NEW i \in 0 .. x.end - 1 PROVE At(y, i) = At(x, i)
    <3>1. i \in 0 .. x.max - 1
      BY DEF Good, Fit
    <3>2. y.buf[i] = IF i = t THEN "nul" ELSE x.buf[i]
      BY <3>1, <1>1, <1>3
    <3>3. QED
      BY <3>2, <1>3 DEF At
  <2>2. QED
    BY <2>1, <1>3 DEF Good, Holds
<1>7. ChrOk(y, f)
  BY <1>1, <1>3, <1>4 DEF ChrOk
<1>8. QED
  BY <1>2, <1>3, <1>5, <1>6, <1>7 DEF Good

LEMMA CountedGood ==
  ASSUME NEW x, NEW f, Good(x, f)
  PROVE  LET y == Counted(x) IN
         /\ Good(y, f) /\ y.eof = x.eof /\ y.cur = x.cur /\ y.pos = x.pos
         /\ y.end = x.end /\ y.max = x.max
<1> DEFINE y == Counted(x)
<1>1. /\ DOMAIN y = Fields /\ y.lpb = x.txt
      /\ \A g \in Fields \ {"lno", "cno", "lpb"} : y[g] = x[g]
  BY CountedFacts DEF Good, Fit
<1> HIDE DEF y
<1>2. /\ y.buf = x.buf /\ y.txt = x.txt /\ y.len = x.len /\ y.cur = x.cur
      /\ y.pos = x.pos /\ y.end = x.end /\ y.ind = x.ind /\ y.num = x.num
      /\ y.max = x.max /\ y.eof = x.eof /\ y.chr = x.chr
  BY <1>1 DEF Fields
<1>3. Fit(y)
  BY <1>1, <1>2 DEF Good, Fit
<1>4. Holds(y, f) /\ ChrOk(y, f)
  BY <1>2 DEF Good, Holds, ChrOk, At
<1>5. QED
  BY <1>2, <1>3, <1>4 DEF Good, y

LEMMA RestoppedFacts ==
  ASSUME NEW x, DOMAIN x = Fields
  PROVE  /\ DOMAIN Restopped(x) = Fields
         /\ \A f \in Fields \ {"tab", "ded"} : Restopped(x)[f] = x[f]
<1> DEFINE a == Append(x.tab, x.col)
           n == Max({0} \cup {i \in 1 .. Len(x.tab) - 1 : x.tab[i] <= x.col})
           d == x.ded + Len(x.tab) - n
           b == [i \in 1 .. n |-> IF i = n THEN x.col ELSE x.tab[i]]
<1>1. \/ Restopped(x) = [x EXCEPT !.tab = a]
      \/ Restopped(x) = [x EXCEPT !.ded = d, !.tab = b]
      \/ Restopped(x) = x
  <2> HIDE DEF a, d, b
  <2>1. CASE (x.mrk /\ Indent(x)) \/ (x.mrk /\ Dedent(x))
    BY <2>1 DEF Restopped, a, d, b
  <2>2. CASE ~ ((x.mrk /\ Indent(x)) \/ (x.mrk /\ Dedent(x)))
    BY <2>2 DEF Restopped
  <2>3. QED
    BY <2>1, <2>2
<1> HIDE DEF a, d, b
<1>2. QED
  BY <1>1 DEF Fields

LEMMA NewlineFacts ==
  ASSUME NEW x, DOMAIN x = Fields
  PROVE  /\ DOMAIN Newline(x) = Fields
         /\ \A f \in Fields \ {"mrk", "col", "ind"} : Newline(x)[f] = x[f]
         /\ Newline(x).ind = IF x.ind + 1 < x.pos THEN x.pos - 1 ELSE x.ind
<1>1. PICK a : Newline(x) = [x EXCEPT !.mrk = TRUE, !.col = a,
                !.ind = IF x.ind + 1 < x.pos THEN x.pos - 1 ELSE x.ind]
  BY DEF Newline
<1>2. QED
  BY <1>1 DEF Fields

\* A take gives back a character that has been read.
LEMMA TakeGood ==
  ASSUME NEW x, NEW f, Good(x, f), x.chr = "nul", NEW rule, NEW c,
         c # "eof" => x.txt < x.pos
  PROVE  LET y == Take(x, rule, c) IN
         /\ Good(y, f) /\ SameBuffer(x, y) /\ y.pos = x.pos /\ y.txt = x.txt
<1> DEFINE y == Take(x, rule, c)
<1>1. DOMAIN x = Fields
  BY DEF Good, Fit
<1>2. y = [x EXCEPT !.cap = rule, !.cur = IF c = "eof" THEN x.pos ELSE x.pos - 1]
  BY DEF Take
<1>3. /\ SameBuffer(x, y)
      /\ y.txt = x.txt /\ y.len = x.len /\ y.pos = x.pos /\ y.ind = x.ind
      /\ y.lpb = x.lpb /\ y.cur = IF c = "eof" THEN x.pos ELSE x.pos - 1
  BY <1>1, <1>2 DEF Fields, SameBuffer
<1> HIDE DEF y
<1>4. /\ y.cur \in Nat /\ y.txt <= y.cur /\ y.cur <= y.end
  <2>1. x.pos \in Nat /\ x.txt \in Nat /\ x.end \in Nat /\ x.txt <= x.pos /\ x.pos <= x.end
    BY DEF Good, Fit
  <2>2. y.end = x.end
    BY <1>3 DEF SameBuffer
  <2>3. QED
    BY <2>1, <2>2, <1>3
<1>5. Placed(y)
  BY <1>3, <1>4 DEF Good, Fit, Placed, SameBuffer
<1>6. QED
  BY <1>3, <1>5, MovedGood DEF y

LEMMA NewlineGood ==
  ASSUME NEW x, NEW f, Good(x, f), x.chr = "nul"
  PROVE  LET y == Newline(x) IN
         /\ Good(y, f) /\ SameBuffer(x, y) /\ y.pos = x.pos /\ y.txt = x.txt
<1> DEFINE y == Newline(x)
<1>1. /\ DOMAIN y = Fields
      /\ \A g \in Fields \ {"mrk", "col", "ind"} : y[g] = x[g]
      /\ y.ind = IF x.ind + 1 < x.pos THEN x.pos - 1 ELSE x.ind
  BY NewlineFacts DEF Good, Fit
<1> HIDE DEF y
<1>2. /\ SameBuffer(x, y)
      /\ y.txt = x.txt /\ y.len = x.len /\ y.pos = x.pos /\ y.cur = x.cur
      /\ y.lpb = x.lpb
  BY <1>1 DEF Fields, SameBuffer
<1>3. y.ind \in Nat /\ y.txt <= y.ind /\ y.ind <= y.end
  <2>1. /\ x.pos \in Nat /\ x.txt \in Nat /\ x.end \in Nat /\ x.ind \in Nat
        /\ x.pos <= x.end /\ x.txt <= x.ind /\ x.ind <= x.end
    BY DEF Good, Fit
  <2>2. y.end = x.end
    BY <1>2 DEF SameBuffer
  <2>3. QED
    BY <2>1, <2>2, <1>1, <1>2
<1>4. Placed(y)
  BY <1>2, <1>3 DEF Good, Fit, Placed, SameBuffer
<1>5. QED
  BY <1>2, <1>4, MovedGood DEF y

LEMMA MetasGood ==
  ASSUME NEW x, NEW f, Good(x, f), x.chr = "nul", NEW p, NEW s, NEW c,
         c # "eof" => x.txt < x.pos
  PROVE  LET y == Metas(x, p, s, c) IN
         Good(y, f) /\ SameBuffer(x, y)
<1> DEFINE edges == p.meta[s]
           y == IF fsm.bol /\ \E i \in DOMAIN edges : edges[i].label \in {"DED", "IND"}
                THEN Newline(x) ELSE x
           holds == {i \in DOMAIN edges : MetaHolds(edges[i].label, y, c)}
           z == Take(y, edges[Min(holds)].rule, c)
<1>1. Good(y, f) /\ SameBuffer(x, y) /\ y.pos = x.pos /\ y.txt = x.txt
  BY NewlineGood, GoodPlaced
<1>2. Metas(x, p, s, c) = y \/ Metas(x, p, s, c) = z
  BY DEF Metas
<1> HIDE DEF y, holds
<1>3. y.chr = "nul"
  BY <1>1 DEF SameBuffer
<1>4. Good(z, f) /\ SameBuffer(y, z)
  BY <1>1, <1>3, TakeGood
<1>5. SameBuffer(x, z)
  BY <1>1, <1>4 DEF SameBuffer
<1> HIDE DEF z
<1>6. QED
  BY <1>1, <1>2, <1>4, <1>5

-----------------------------------------------------------------------------
(***************************************************************************)
(* The invariant.  A read that is not the last fills the buffer but for    *)
(* its last place, so the place behind a token is in the text, or is that  *)
(* one, or no read will ever write it.                                     *)
(***************************************************************************)
Full == fed = Len(text) \/ m.end = m.max - 1

Inv ==
  /\ Len(text) \in Nat /\ fed \in 0 .. Len(text)
  /\ Good(m, fed)
  /\ pc \in {"loop", "fsm", "scanned", "deliver", "done"}
  /\ pc \in {"fsm", "scanned", "deliver"} => m.chr = "nul"
  /\ pc \in {"loop", "deliver"} => m.cur <= m.pos
  /\ Full \/ (pc = "loop" /\ Wants(m))
  /\ m.eof => fed = Len(text)

Usual == Fresh = "nul" /\ ShortReads = FALSE

LEMMA InitInv == ASSUME Usual PROVE Init => Inv
<1> SUFFICES ASSUME Init PROVE Inv
  OBVIOUS
<1>1. Len(text) \in Nat /\ fed = 0
  BY TextAssumption DEF Init
<1>2. /\ DOMAIN m = Fields /\ m.max = 2 * Block /\ m.txt = 0 /\ m.len = 0
      /\ m.cur = 0 /\ m.pos = 0 /\ m.end = 0 /\ m.ind = 0 /\ m.chr = "nul"
      /\ m.lpb = 0 /\ m.num = 0 /\ m.eof = FALSE
      /\ m.buf = [i \in 0 .. 2 * Block - 1 |-> IF i = 0 THEN "nul" ELSE Fresh]
  BY DEF Init, NewMatcher, Fields
<1>3. 2 * Block \in Nat /\ 0 < 2 * Block /\ 2 * Block - 1 \in 0 .. 2 * Block - 1
  BY BlockAssumption
<1>4. Fit(m)
  BY <1>2, <1>3 DEF Fit, Usual
<1>5. Holds(m, fed) /\ ChrOk(m, fed)
  BY <1>1, <1>2 DEF Holds, ChrOk
<1>6. pc = "loop" /\ Wants(m)
  BY <1>2 DEF Init, Wants
<1>7. QED
  BY <1>1, <1>2, <1>4, <1>5, <1>6 DEF Inv, Good

LEMMA ScanInv == ASSUME Usual, Inv, Scan PROVE Inv'
<1>1. PICK k \in Chunks(m) : LET x == Ready(m, k) IN
        /\ fed' = fed + k /\ pc' = "fsm" /\ text' = text
        /\ m' = [[ResetText(x) EXCEPT !.len = 0, !.txt = x.cur, !.mrk = FALSE,
                                      !.ind = x.pos, !.col = 0]
                   EXCEPT !.cap = 0, !.cur = ResetText(x).pos]
  <2>1. PICK k \in Chunks(m) : LET x == Ready(m, k) IN
          /\ fed' = fed + k
          /\ Start([ResetText(x) EXCEPT !.len = 0, !.txt = x.cur,
                                        !.mrk = FALSE, !.ind = x.pos, !.col = 0],
                   x.got \in {"bob", "nl"})
    BY DEF Scan
  <2> DEFINE x == Ready(m, k)
             r == ResetText(x)
             y == [r EXCEPT !.len = 0, !.txt = x.cur, !.mrk = FALSE,
                            !.ind = x.pos, !.col = 0]
  <2>2. Good(x, fed + k)
    BY ReadyGood DEF Inv, Usual
  <2>3. DOMAIN r = Fields
    BY <2>2, ResetTextGood DEF Good, Fit
  <2> HIDE DEF r, x
  <2>4. y.pos = r.pos
    BY <2>3 DEF Fields
  <2>5. m' = [y EXCEPT !.cap = 0, !.cur = y.pos] /\ pc' = "fsm" /\ fed' = fed + k
    BY <2>1 DEF Start, r, x
  <2>6. text' = text
    BY DEF Scan
  <2> HIDE DEF y
  <2>7. m' = [y EXCEPT !.cap = 0, !.cur = r.pos]
    BY <2>4, <2>5
  <2>8. QED
    BY <2>5, <2>6, <2>7 DEF x, r, y
<1> DEFINE x == Ready(m, k)
           r == ResetText(x)
<1>2. /\ Good(x, fed + k) /\ fed + k \in 0 .. Len(text)
      /\ x.cur <= x.pos
      /\ fed + k = Len(text) \/ x.end = x.max - 1
      /\ x.eof => fed + k = Len(text)
  <2>1. Wants(m) => fed + k = Len(text) \/ x.end = x.max - 1
    BY ReadyGood DEF Inv, Usual
  <2>2. ~ Wants(m) => x = m /\ fed + k = fed /\ Full
    <3>1. fed \in Nat /\ (~ Wants(m) => Full)
      BY DEF Inv, Scan
    <3>2. ~ Wants(m) => x = m /\ k = 0
      BY ReadyGood DEF Inv, Usual
    <3>3. QED
      BY <3>1, <3>2
  <2>3. m.cur <= m.pos
    BY DEF Inv, Scan
  <2>4. /\ Good(x, fed + k) /\ fed + k \in 0 .. Len(text)
        /\ x.cur <= x.pos
        /\ x.eof => fed + k = Len(text)
    BY <2>3, ReadyGood DEF Inv, Usual
  <2>5. QED
    BY <2>1, <2>2, <2>4 DEF Full
<1> HIDE DEF x
<1>3. /\ Good(r, fed + k) /\ r.chr = "nul" /\ r.eof = x.eof
      /\ r.txt = x.txt /\ r.cur = x.cur /\ r.pos = x.pos /\ r.end = x.end
      /\ r.max = x.max /\ r.lpb = x.lpb
  BY <1>2, ResetTextGood
<1> HIDE DEF r
<1>4. m' = [[r EXCEPT !.len = 0, !.txt = x.cur, !.mrk = FALSE, !.ind = x.pos,
                      !.col = 0] EXCEPT !.cap = 0, !.cur = r.pos]
  BY <1>1 DEF x, r
<1>5. DOMAIN r = Fields
  BY <1>3 DEF Good, Fit
<1>6. /\ SameBuffer(r, m')
      /\ m'.len = 0 /\ m'.txt = x.cur /\ m'.ind = x.pos /\ m'.pos = x.pos
      /\ m'.cur = x.pos /\ m'.lpb = x.lpb
  BY <1>3, <1>4, <1>5 DEF SameBuffer, Fields
<1>7. Placed(m')
  <2>1. /\ x.txt \in Nat /\ x.cur \in Nat /\ x.pos \in Nat /\ x.end \in Nat
        /\ x.lpb \in Nat /\ x.lpb <= x.txt /\ x.txt <= x.cur /\ x.cur <= x.pos
        /\ x.pos <= x.end
    BY <1>2 DEF Good, Fit
  <2>2. m'.end = x.end
    BY <1>3, <1>6 DEF SameBuffer
  <2>3. QED
    BY <2>1, <2>2, <1>6 DEF Placed
<1>8. Good(m', fed + k)
  BY <1>3, <1>6, <1>7, MovedGood
<1>9. m'.chr = "nul" /\ m'.end = x.end /\ m'.max = x.max /\ m'.eof = x.eof
  BY <1>3, <1>6 DEF SameBuffer
<1>10. Good(m, fed)'
  BY <1>1, <1>8 DEF Good, Holds, ChrOk
<1>11. QED
  BY <1>1, <1>2, <1>9, <1>10 DEF Inv, Full

\* A read while the lexer is somewhere, which is full afterwards.
LEMMA NextReady ==
  ASSUME Usual, Inv, NEW x, Good(x, fed), NEW k \in Chunks(x),
         ~ Wants(x) => Full /\ x.end = m.end /\ x.max = m.max,
         x.eof => fed = Len(text)
  PROVE  LET y == Ready(x, k) IN
         /\ Good(y, fed + k) /\ fed + k \in 0 .. Len(text)
         /\ y.chr = x.chr /\ y.len = x.len
         /\ x.cur <= x.pos => y.cur <= y.pos
         /\ fed + k = Len(text) \/ y.end = y.max - 1
         /\ y.eof => fed + k = Len(text)
         /\ ~ Wants(x) => y = x
<1>1. /\ Good(Ready(x, k), fed + k) /\ fed + k \in 0 .. Len(text)
      /\ Ready(x, k).chr = x.chr /\ Ready(x, k).len = x.len
      /\ x.cur <= x.pos => Ready(x, k).cur <= Ready(x, k).pos
      /\ Ready(x, k).eof => fed + k = Len(text)
      /\ Wants(x) => fed + k = Len(text) \/ Ready(x, k).end = Ready(x, k).max - 1
      /\ ~ Wants(x) => Ready(x, k) = x /\ k = 0
  BY ReadyGood DEF Inv, Usual
<1>2. fed \in Nat
  BY DEF Inv
<1>3. ~ Wants(x) => fed + k = Len(text) \/ Ready(x, k).end = Ready(x, k).max - 1
  BY <1>1, <1>2 DEF Full
<1>4. QED
  BY <1>1, <1>3

\* The matcher after a step, and what is left to show of it.
LEMMA NextInv ==
  ASSUME NEW f, fed' = f, text' = text, Len(text) \in Nat,
         f \in 0 .. Len(text), Good(m', f),
         f = Len(text) \/ m'.end = m'.max - 1, m'.eof => f = Len(text),
         pc' \in {"loop", "fsm", "scanned", "deliver", "done"},
         pc' \in {"fsm", "scanned", "deliver"} => m'.chr = "nul",
         pc' \in {"loop", "deliver"} => m'.cur <= m'.pos
  PROVE  Inv'
<1>1. Good(m, fed)'
  BY DEF Good, Holds, ChrOk
<1>2. QED
  BY <1>1 DEF Inv, Full

LEMMA FinishInv == ASSUME Usual, Inv, Finish PROVE Inv'
<1>1. PICK k \in Chunks(m) : m' = Ready(m, k) /\ fed' = fed + k
  BY DEF Finish
<1>2. ~ Wants(m) => Full
  BY DEF Inv, Finish
<1>3. Good(m, fed) /\ (m.eof => fed = Len(text))
  BY DEF Inv
<1> DEFINE y == Ready(m, k)
<1>4. /\ Good(y, fed + k) /\ fed + k \in 0 .. Len(text)
      /\ fed + k = Len(text) \/ y.end = y.max - 1
      /\ y.eof => fed + k = Len(text)
  BY <1>2, <1>3, NextReady
<1>5. pc' = "done" /\ text' = text /\ Len(text) \in Nat
  BY DEF Finish, Inv
<1> HIDE DEF y
<1>6. m' = y
  BY <1>1 DEF y
<1>7. QED
  BY <1>1, <1>4, <1>5, <1>6, NextInv

LEMMA EnteredGood ==
  ASSUME Inv, pc = "fsm", NEW p, NEW s
  PROVE  LET y == Entered(m, p, s) IN
         Good(y, fed) /\ SameBuffer(m, y) /\ y.pos = m.pos /\ y.txt = m.txt
<1>1. Good(m, fed) /\ m.chr = "nul"
  BY DEF Inv
<1> DEFINE z == Take(m, p.accept[s], "eof")
<1>2. Good(z, fed) /\ SameBuffer(m, z) /\ z.pos = m.pos /\ z.txt = m.txt
  BY <1>1, TakeGood
<1>3. SameBuffer(m, m)
  BY <1>1, GoodPlaced
<1> HIDE DEF z
<1>4. Entered(m, p, s) = m \/ Entered(m, p, s) = z
  BY DEF Entered, z
<1>5. QED
  BY <1>1, <1>2, <1>3, <1>4

\* A step that reads nothing and stays in the scan.
LEMMA QuietInv ==
  ASSUME Inv, pc \in {"fsm", "scanned"}, NEW y, m' = y, Good(y, fed),
         SameBuffer(m, y), UNCHANGED <<text, fed>>, pc' \in {"fsm", "scanned"}
  PROVE  Inv'
<1>1. /\ Len(text) \in Nat /\ fed \in 0 .. Len(text) /\ Full
      /\ m.eof => fed = Len(text)
      /\ m.chr = "nul"
  BY DEF Inv
<1>2. /\ y.end = m.end /\ y.max = m.max /\ y.chr = m.chr /\ y.eof = m.eof
  BY DEF SameBuffer
<1>3. fed' = fed /\ text' = text
  OBVIOUS
<1>4. QED
  BY <1>1, <1>2, <1>3, NextInv DEF Full

LEMMA JumpHaltInv == ASSUME Inv, Jump \/ Halt PROVE Inv'
<1>1. /\ pc = "fsm" /\ pc' \in {"fsm", "scanned"}
      /\ m' = Entered(m, Current, fsm.state) /\ UNCHANGED <<text, fed>>
  BY DEF Jump, Halt
<1> DEFINE y == Entered(m, Current, fsm.state)
<1>2. Good(y, fed) /\ SameBuffer(m, y)
  BY <1>1, EnteredGood
<1> HIDE DEF y
<1>3. m' = y
  BY <1>1 DEF y
<1>4. QED
  BY <1>1, <1>2, <1>3, QuietInv

LEMMA RescanInv == ASSUME Inv, Rescan PROVE Inv'
<1> DEFINE x == Restopped(m)
           z == [x EXCEPT !.ded = x.ded + Len(x.tab), !.tab = <<>>, !.pos = x.ind]
           y == [z EXCEPT !.cap = 0, !.cur = z.pos]
<1>1. /\ pc = "scanned" /\ pc' = "fsm" /\ m' = y /\ UNCHANGED <<text, fed>>
  BY DEF Rescan, Start
<1>2. Good(m, fed) /\ m.chr = "nul"
  BY <1>1 DEF Inv
<1>3. /\ DOMAIN x = Fields
      /\ \A g \in Fields \ {"tab", "ded"} : x[g] = m[g]
  BY <1>2, RestoppedFacts DEF Good, Fit
<1> HIDE DEF x
<1>4. /\ SameBuffer(m, y)
      /\ y.txt = m.txt /\ y.len = m.len /\ y.ind = m.ind /\ y.lpb = m.lpb
      /\ y.cur = m.ind /\ y.pos = m.ind
  BY <1>3 DEF SameBuffer, Fields
<1> HIDE DEF y, z
<1>5. Placed(y)
  BY <1>2, <1>4 DEF Good, Fit, Placed, SameBuffer
<1>6. Good(y, fed)
  BY <1>2, <1>4, <1>5, MovedGood
<1>7. QED
  BY <1>1, <1>4, <1>6, QuietInv

\* What is asked of the input depends on the buffer alone.
LEMMA SameChunks ==
  ASSUME Fresh = "nul", NEW x, NEW y, NEW f, Good(x, f), Good(y, f),
         SameBuffer(x, y), y.pos = x.pos, y.txt = x.txt
  PROVE  Chunks(x) = Chunks(y) /\ (Wants(x) <=> Wants(y))
<1>1. y.max = x.max /\ y.end = x.end /\ y.eof = x.eof
  BY DEF SameBuffer
<1>2. Wants(x) <=> Wants(y)
  BY <1>1 DEF Wants
<1>3. /\ Shifted(x).end = x.end - x.txt /\ Shifted(y).end = x.end - x.txt
      /\ Shifted(x).max = x.max /\ Shifted(y).max = x.max
  <2>1. Shifted(x).end = x.end - x.txt /\ Shifted(x).max = x.max
    BY ShiftedFacts DEF Good
  <2>2. Shifted(y).end = y.end - y.txt /\ Shifted(y).max = y.max
    BY ShiftedFacts DEF Good
  <2>3. QED
    BY <2>1, <2>2, <1>1
<1>4. /\ Expanded(x).max = x.max * 2 /\ Expanded(y).max = x.max * 2
      /\ Expanded(x).end = Shifted(x).end /\ Expanded(y).end = Shifted(y).end
  BY <1>1, ExpandedFacts
<1>5. /\ x.max - x.end \in Int /\ x.max - x.end + x.txt \in Int
  <2>1. x.max \in Nat /\ x.end \in Nat /\ x.txt \in Nat
    BY DEF Good, Fit
  <2>2. QED
    BY <2>1
<1>6. /\ Grown(x).max = Grown(y).max /\ Grown(x).end = Grown(y).end
  <2>1. CASE x.max - x.end >= Block + 1
    <3>1. Grown(x) = x /\ Grown(y) = y
      BY <2>1, <1>1, <1>5, BlockAssumption DEF Grown
    <3>2. QED
      BY <3>1, <1>1
  <2>2. CASE x.max - x.end < Block + 1 /\ x.max - x.end + x.txt >= Block
    <3>1. Grown(x) = Shifted(x) /\ Grown(y) = Shifted(y)
      BY <2>2, <1>1, <1>5, BlockAssumption DEF Grown
    <3>2. QED
      BY <3>1, <1>3
  <2>3. CASE x.max - x.end < Block + 1 /\ ~ (x.max - x.end + x.txt >= Block)
    <3>1. Grown(x) = Expanded(x) /\ Grown(y) = Expanded(y)
      BY <2>3, <1>1, <1>5, BlockAssumption DEF Grown
    <3>2. QED
      BY <3>1, <1>3, <1>4
  <2>4. QED
    BY <2>1, <2>2, <2>3, <1>5, BlockAssumption
<1>7. Roomy(x).max = Roomy(y).max /\ Roomy(x).end = Roomy(y).end
  BY <1>1, <1>6 DEF Roomy
<1>8. QED
  BY <1>2, <1>7 DEF Chunks, Deliveries

LEMMA StepActionInv == ASSUME Usual, Inv, Step PROVE Inv'
<1> DEFINE e == Entered(m, Current, fsm.state)
<1>1. PICK k \in Chunks(m) :
        \E x \in {Ready(e, k)} :
        \E c \in {Char(x, Wants(m))} :
        \E y \in {Metas([x EXCEPT !.pos = IF AtEnd(x) THEN @ ELSE @ + 1],
                        Current, fsm.state, c)} :
           fed' = fed + k /\ m' = y
  BY DEF Step
<1>2. /\ pc = "fsm" /\ pc' \in {"fsm", "scanned"} /\ text' = text
  BY DEF Step
<1> DEFINE x == Ready(e, k)
           c == Char(x, Wants(m))
           z == [x EXCEPT !.pos = IF AtEnd(x) THEN x.pos ELSE x.pos + 1]
           y == Metas(z, Current, fsm.state, c)
<1>3. fed' = fed + k /\ m' = y
  BY <1>1
<1>4. /\ Good(e, fed) /\ SameBuffer(m, e) /\ e.pos = m.pos /\ e.txt = m.txt
      /\ Good(m, fed) /\ m.chr = "nul" /\ Full /\ (m.eof => fed = Len(text))
      /\ Len(text) \in Nat
  BY <1>2, EnteredGood DEF Inv
<1>5. k \in Chunks(e) /\ e.chr = "nul" /\ e.end = m.end /\ e.max = m.max
      /\ (e.eof => fed = Len(text))
  BY <1>4, SameChunks DEF SameBuffer, Usual
<1> HIDE DEF e
<1>6. /\ Good(x, fed + k) /\ fed + k \in 0 .. Len(text) /\ x.chr = "nul"
      /\ fed + k = Len(text) \/ x.end = x.max - 1
      /\ x.eof => fed + k = Len(text)
  BY <1>4, <1>5, NextReady
<1>7. c = "eof" \/ ~ AtEnd(x)
  BY DEF Char
<1> HIDE DEF x, c
<1>8. DOMAIN x = Fields
  BY <1>6 DEF Good, Fit
<1>9. /\ SameBuffer(x, z)
      /\ z.txt = x.txt /\ z.len = x.len /\ z.cur = x.cur /\ z.ind = x.ind
      /\ z.lpb = x.lpb /\ z.pos = IF AtEnd(x) THEN x.pos ELSE x.pos + 1
  BY <1>8 DEF SameBuffer, Fields
<1> HIDE DEF z
<1>10. /\ z.pos \in Nat /\ z.txt <= z.pos /\ z.pos <= z.end
       /\ c # "eof" => z.txt < z.pos
  <2>1. x.pos \in Nat /\ x.txt \in Nat /\ x.end \in Nat /\ x.txt <= x.pos /\ x.pos <= x.end
    BY <1>6 DEF Good, Fit
  <2>2. z.end = x.end
    BY <1>9 DEF SameBuffer
  <2>3. AtEnd(x) <=> x.pos >= x.end
    BY DEF AtEnd
  <2>4. QED
    BY <2>1, <2>2, <2>3, <1>7, <1>9
<1>11. Placed(z)
  BY <1>6, <1>9, <1>10 DEF Good, Fit, Placed, SameBuffer
<1>12. Good(z, fed + k) /\ z.chr = "nul"
  BY <1>6, <1>9, <1>11, MovedGood DEF SameBuffer
<1>13. Good(y, fed + k) /\ SameBuffer(z, y)
  BY <1>10, <1>12, MetasGood
<1> HIDE DEF y
<1>14. y.end = x.end /\ y.max = x.max /\ y.eof = x.eof /\ y.chr = "nul"
  BY <1>9, <1>12, <1>13 DEF SameBuffer
<1>15. QED
  BY <1>2, <1>3, <1>4, <1>6, <1>13, <1>14, NextInv

LEMMA SetCurrentFacts ==
  ASSUME NEW x, NEW f, Good(x, f), x.chr = "nul"
  PROVE  LET y == SetCurrent(x) IN
         Good(y, f) /\ SameBuffer(x, y) /\ y.cur = x.cur /\ y.pos = x.cur
<1> DEFINE y == SetCurrent(x)
           g == IF x.cur > 0 THEN x.buf[x.cur - 1] ELSE "unk"
<1>1. y = [x EXCEPT !.pos = x.cur, !.got = g]
  BY DEF SetCurrent
<1>2. DOMAIN x = Fields
  BY DEF Good, Fit
<1> HIDE DEF y, g
<1>3. /\ SameBuffer(x, y)
      /\ y.txt = x.txt /\ y.len = x.len /\ y.cur = x.cur /\ y.ind = x.ind
      /\ y.lpb = x.lpb /\ y.pos = x.cur
  BY <1>1, <1>2 DEF SameBuffer, Fields
<1>4. Placed(y)
  BY <1>3 DEF Good, Fit, Placed, SameBuffer
<1>5. QED
  BY <1>3, <1>4, MovedGood DEF y

LEMMA ScanEndInv == ASSUME Usual, Inv, ScanEnd PROVE Inv'
<1> DEFINE x == Restopped(m)
           y == [x EXCEPT !.ded = IF x.ded > 0 THEN x.ded - 1 ELSE x.ded,
                          !.cur = IF x.cap = 0 THEN x.txt ELSE x.cur,
                          !.len = (IF x.cap = 0 THEN x.txt ELSE x.cur) - x.txt]
           w == [y EXCEPT !.pos = y.cur]
<1>1. /\ pc = "scanned" /\ pc' = "deliver" /\ text' = text
      /\ \/ \E k \in Chunks(w) :
              /\ m' = [SetCurrent(Ready(w, k)) EXCEPT !.cap = 0]
              /\ fed' = fed + k
         \/ /\ m' = IF y.len = 0 /\ y.cur = y.end THEN y ELSE SetCurrent(y)
            /\ fed' = fed
  BY DEF ScanEnd
<1>2. /\ Good(m, fed) /\ m.chr = "nul" /\ Full /\ (m.eof => fed = Len(text))
      /\ Len(text) \in Nat /\ fed \in 0 .. Len(text)
  BY <1>1 DEF Inv
<1>3. /\ DOMAIN x = Fields
      /\ \A g \in Fields \ {"tab", "ded"} : x[g] = m[g]
  BY <1>2, RestoppedFacts DEF Good, Fit
<1> HIDE DEF x
<1>4. x.cap = m.cap /\ x.txt = m.txt /\ x.cur = m.cur
  BY <1>3 DEF Fields
<1>5. /\ SameBuffer(m, y)
      /\ y.txt = m.txt /\ y.ind = m.ind /\ y.lpb = m.lpb /\ y.pos = m.pos
      /\ y.cur = IF m.cap = 0 THEN m.txt ELSE m.cur
      /\ y.len = (IF m.cap = 0 THEN m.txt ELSE m.cur) - m.txt
  BY <1>3, <1>4 DEF SameBuffer, Fields
<1> HIDE DEF y
<1>6. /\ y.cur \in Nat /\ y.len \in Nat /\ y.txt <= y.cur /\ y.cur <= y.end
      /\ y.txt + y.len <= y.end
      /\ y.len = 0 /\ y.cur = y.end => y.cur <= y.pos
  <2>1. /\ m.txt \in Nat /\ m.cur \in Nat /\ m.end \in Nat /\ m.pos \in Nat
        /\ m.txt <= m.cur /\ m.cur <= m.end /\ m.txt <= m.pos
    BY <1>2 DEF Good, Fit
  <2>2. y.end = m.end
    BY <1>5 DEF SameBuffer
  <2>3. CASE m.cap = 0
    BY <2>1, <2>2, <2>3, <1>5
  <2>4. CASE m.cap # 0
    BY <2>1, <2>2, <2>4, <1>5
  <2>5. QED
    BY <2>3, <2>4
<1>7. Placed(y)
  BY <1>2, <1>5, <1>6 DEF Good, Fit, Placed, SameBuffer
<1>8. Good(y, fed) /\ y.chr = "nul"
  BY <1>2, <1>5, <1>7, MovedGood DEF SameBuffer
<1>9. y.end = m.end /\ y.max = m.max /\ y.eof = m.eof
  BY <1>5 DEF SameBuffer
\* The match is rejected: the lexer looks for more text.
<1>10. ASSUME NEW k \in Chunks(w), fed' = fed + k,
              m' = [SetCurrent(Ready(w, k)) EXCEPT !.cap = 0]
       PROVE  Inv'
  <2> DEFINE z == Ready(w, k)
             v == SetCurrent(z)
  <2>1. DOMAIN y = Fields
    BY <1>8 DEF Good, Fit
  <2>2. /\ SameBuffer(y, w)
        /\ w.txt = y.txt /\ w.len = y.len /\ w.cur = y.cur /\ w.ind = y.ind
        /\ w.lpb = y.lpb /\ w.pos = y.cur
    BY <2>1 DEF SameBuffer, Fields
  <2> HIDE DEF w
  <2>3. Placed(w)
    BY <1>6, <1>7, <2>2 DEF Placed, SameBuffer
  <2>4. /\ Good(w, fed) /\ w.chr = "nul" /\ w.end = m.end /\ w.max = m.max
        /\ w.eof = m.eof
    BY <1>8, <1>9, <2>2, <2>3, MovedGood DEF SameBuffer
  <2>5. /\ Good(z, fed + k) /\ fed + k \in 0 .. Len(text) /\ z.chr = "nul"
        /\ fed + k = Len(text) \/ z.end = z.max - 1
        /\ z.eof => fed + k = Len(text)
    BY <1>2, <2>4, NextReady
  <2> HIDE DEF z
  <2>6. Good(v, fed + k) /\ SameBuffer(z, v) /\ v.cur = z.cur /\ v.pos = z.cur
    BY <2>5, SetCurrentFacts
  <2>7. DOMAIN v = Fields /\ m' = [v EXCEPT !.cap = 0]
    BY <2>6, <1>10 DEF Good, Fit, z
  <2> HIDE DEF v
  <2>8. /\ SameBuffer(v, m')
        /\ m'.txt = v.txt /\ m'.len = v.len /\ m'.cur = v.cur /\ m'.ind = v.ind
        /\ m'.lpb = v.lpb /\ m'.pos = v.pos
    BY <2>7 DEF SameBuffer, Fields
  <2>9. v.chr = "nul" /\ v.end = z.end /\ v.max = z.max /\ v.eof = z.eof
    BY <2>5, <2>6 DEF SameBuffer
  <2>10. Placed(m')
    BY <2>6, <2>8, GoodPlaced DEF Placed, SameBuffer
  <2>11. Good(m', fed + k)
    BY <2>6, <2>8, <2>9, <2>10, MovedGood
  <2>12. m'.chr = "nul" /\ m'.end = z.end /\ m'.max = z.max /\ m'.eof = z.eof
    BY <2>8, <2>9 DEF SameBuffer
  <2>13. m'.cur <= m'.pos
    <3>1. z.cur \in Nat
      BY <2>5 DEF Good, Fit
    <3>2. QED
      BY <3>1, <2>6, <2>8
  <2>14. QED
    BY <1>1, <1>2, <1>10, <2>5, <2>11, <2>12, <2>13, NextInv
\* The match is taken.
<1>11. ASSUME NEW v, m' = v, fed' = fed, Good(v, fed), SameBuffer(y, v),
              v.cur <= v.pos
       PROVE  Inv'
  <2>1. v.chr = "nul" /\ v.end = m.end /\ v.max = m.max /\ v.eof = m.eof
    BY <1>8, <1>9, <1>11 DEF SameBuffer
  <2>2. QED
    BY <1>1, <1>2, <1>11, <2>1, NextInv DEF Full
<1>12. /\ Good(SetCurrent(y), fed) /\ SameBuffer(y, SetCurrent(y))
       /\ SetCurrent(y).cur <= SetCurrent(y).pos
  <2>1. /\ Good(SetCurrent(y), fed) /\ SameBuffer(y, SetCurrent(y))
        /\ SetCurrent(y).cur = y.cur /\ SetCurrent(y).pos = y.cur
    BY <1>8, SetCurrentFacts
  <2>2. QED
    BY <2>1, <1>6
<1>13. SameBuffer(y, y)
  BY <1>8, GoodPlaced
<1> HIDE DEF w
<1>14. QED
  BY <1>1, <1>6, <1>8, <1>10, <1>11, <1>12, <1>13

LEMMA DeliverInv == ASSUME Inv, Deliver PROVE Inv'
<1> DEFINE t == Terminated(m)
           x == Counted(t)
<1>1. /\ pc = "deliver" /\ pc' \in {"loop", "done"} /\ m' = x
      /\ UNCHANGED <<text, fed>>
  BY DEF Deliver
<1>2. /\ Good(m, fed) /\ m.chr = "nul" /\ Full /\ (m.eof => fed = Len(text))
      /\ Len(text) \in Nat /\ fed \in 0 .. Len(text) /\ m.cur <= m.pos
  BY <1>1 DEF Inv
<1>3. /\ Good(t, fed) /\ t.eof = m.eof /\ t.cur = m.cur /\ t.pos = m.pos
      /\ t.end = m.end /\ t.max = m.max
  BY <1>2, TerminatedGood DEF Full
<1> HIDE DEF t
<1>4. /\ Good(x, fed) /\ x.eof = t.eof /\ x.cur = t.cur /\ x.pos = t.pos
      /\ x.end = t.end /\ x.max = t.max
  BY <1>3, CountedGood
<1> HIDE DEF x
<1>5. fed' = fed /\ text' = text
  BY <1>1
<1>6. QED
  BY <1>1, <1>2, <1>3, <1>4, <1>5, NextInv DEF Full

LEMMA StepInv == ASSUME Usual PROVE Inv /\ [Next]_vars => Inv'
<1> SUFFICES ASSUME Inv, [Next]_vars PROVE Inv'
  OBVIOUS
<1>1. CASE Next
  <2>1. CASE Done
    BY <2>1 DEF Done, vars, Inv, Full, Wants, Good, Holds, ChrOk
  <2>2. QED
    BY <1>1, <2>1, ScanInv, FinishInv, JumpHaltInv, StepActionInv, RescanInv,
       ScanEndInv, DeliverInv
    DEF Next
<1>2. CASE UNCHANGED vars
  BY <1>2 DEF vars, Inv, Full, Wants, Good, Holds, ChrOk
<1>3. QED
  BY <1>1, <1>2

-----------------------------------------------------------------------------
(***************************************************************************)
(* The buffer is the text, for every text and every automaton: a shift or  *)
(* an enlargement in the middle of a token, the terminator of yytext and   *)
(* the read that may go to its place lose and double no character.         *)
(* Assumed: memory nobody has written is zero, and the input delivers all  *)
(* that is asked for while it has any.                                     *)
(***************************************************************************)
THEOREM BufferHoldsText ==
  ASSUME Fresh = "nul", ShortReads = FALSE PROVE Spec => []BufferIsText
<1>1. Usual
  BY DEF Usual
<1>2. Inv => BufferIsText
  BY DEF Inv, Good, Holds, At, BufferIsText, Content
<1>3. QED
  BY <1>1, <1>2, InitInv, StepInv, PTL DEF Spec

\* No position of the matcher leaves what has been read, nor what has been
\* read the buffer; an empty read, which ends the lexer for good, is taken for
\* the end only when all of the text has been read.
PositionsInside ==
  /\ DOMAIN m.buf = 0 .. m.max - 1 /\ m.end < m.max
  /\ {m.txt, m.txt + m.len, m.cur, m.pos, m.ind, m.lpb} \subseteq 0 .. m.end

EndIsTheEnd == m.eof => fed = Len(text)

(***************************************************************************)
(* The same for the positions that index the buffer, and for eof_.         *)
(***************************************************************************)
THEOREM MatcherStaysInside ==
  ASSUME Fresh = "nul", ShortReads = FALSE
  PROVE  Spec => [](PositionsInside /\ EndIsTheEnd)
<1>1. Usual
  BY DEF Usual
<1>2. Inv => PositionsInside /\ EndIsTheEnd
  <2> SUFFICES ASSUME Inv PROVE PositionsInside /\ EndIsTheEnd
    OBVIOUS
  <2>1. /\ m.txt \in Nat /\ m.len \in Nat /\ m.cur \in Nat /\ m.pos \in Nat
        /\ m.end \in Nat /\ m.ind \in Nat /\ m.lpb \in Nat
        /\ m.txt + m.len <= m.end /\ m.cur <= m.end /\ m.pos <= m.end
        /\ m.ind <= m.end /\ m.lpb <= m.txt /\ m.end < m.max
        /\ DOMAIN m.buf = 0 .. m.max - 1
    BY DEF Inv, Good, Fit
  <2>2. {m.txt, m.txt + m.len, m.cur, m.pos, m.ind, m.lpb} \subseteq 0 .. m.end
    BY <2>1
  <2>3. QED
    BY <2>1, <2>2 DEF PositionsInside, EndIsTheEnd, Inv
<1>3. QED
  BY <1>1, <1>2, InitInv, StepInv, PTL DEF Spec

-----------------------------------------------------------------------------
(***************************************************************************)
(* The lexer of grammar files: the stack of its states.                    *)
(***************************************************************************)
Top(k)    == k[Len(k)]
Stack(k)  == \E s \in Sections, t \in Inside : k = s \o t
Braced(k) == "S_MATCH_BRACE" \in {k[i] : i \in DOMAIN k}
Front(k)  == SubSeq(k, 1, Len(k) - 1)

Names == {"LEX_STATE_DEFAULT", "S_LL_RULES", "S_LL_STATE", "S_GG_RULES",
          "S_MATCH_BRACE", "S_COMMENT"}

LEMMA Appended ==
  ASSUME NEW a \in Names, NEW b \in Names, NEW c \in Names
  PROVE  /\ Append(<<>>, a) = <<a>>
         /\ Append(<<a>>, b) = <<a, b>>
         /\ Append(<<a, b>>, c) = <<a, b, c>>
<1>1. /\ <<>> \in Seq(Names) /\ <<a>> \in Seq(Names) /\ <<a, b>> \in Seq(Names)
      /\ <<a, b, c>> \in Seq(Names)
  OBVIOUS
<1>2. Append(<<>>, a) = <<a>>
  BY <1>1, SeqEqual
<1>3. Append(<<a>>, b) = <<a, b>>
  <2> DEFINE l == Append(<<a>>, b)
             r == <<a, b>>
  <2>1. /\ l \in Seq(Names) /\ r \in Seq(Names) /\ Len(l) = 2 /\ Len(r) = 2
        /\ l[1] = a /\ l[2] = b /\ r[1] = a /\ r[2] = b
    BY <1>1
  <2> HIDE DEF l, r
  <2>2. \A i \in 1 .. Len(l) : i = 1 \/ i = 2
    BY <2>1
  <2>3. QED
    BY <2>1, <2>2, SeqEqual DEF l, r
<1>4. Append(<<a, b>>, c) = <<a, b, c>>
  <2> DEFINE l == Append(<<a, b>>, c)
             r == <<a, b, c>>
  <2>1. /\ l \in Seq(Names) /\ r \in Seq(Names) /\ Len(l) = 3 /\ Len(r) = 3
        /\ l[1] = a /\ l[2] = b /\ l[3] = c /\ r[1] = a /\ r[2] = b /\ r[3] = c
    BY <1>1
  <2> HIDE DEF l, r
  <2>2. \A i \in 1 .. Len(l) : i = 1 \/ i = 2 \/ i = 3
    BY <2>1
  <2>3. QED
    BY <2>1, <2>2, SeqEqual DEF l, r
<1>5. QED
  BY <1>2, <1>3, <1>4

LEMMA Appending ==
  ASSUME NEW S, NEW s \in Seq(S), NEW t \in Seq(S), NEW x \in S
  PROVE  /\ Append(s \o t, x) = s \o Append(t, x)
         /\ Append(s, x) \in Seq(S) /\ Top(Append(s, x)) = x
         /\ Append(s, x) # <<>> /\ Front(Append(s, x)) = s
         /\ s \o <<>> = s
         /\ Braced(Append(s, x)) <=> Braced(s) \/ x = "S_MATCH_BRACE"
<1>1. Append(s \o t, x) = s \o Append(t, x)
  OBVIOUS
<1>2. /\ Append(s, x) \in Seq(S) /\ Top(Append(s, x)) = x
      /\ Append(s, x) # <<>> /\ Front(Append(s, x)) = s /\ s \o <<>> = s
  BY DEF Top, Front
<1>3. /\ DOMAIN Append(s, x) = 1 .. Len(s) + 1 /\ DOMAIN s = 1 .. Len(s)
      /\ Append(s, x)[Len(s) + 1] = x /\ Len(s) \in Nat
      /\ \A i \in 1 .. Len(s) : Append(s, x)[i] = s[i]
  OBVIOUS
<1>4. Braced(Append(s, x)) <=> Braced(s) \/ x = "S_MATCH_BRACE"
  <2>1. 1 .. Len(s) + 1 = 1 .. Len(s) \cup {Len(s) + 1}
    BY <1>3
  <2>2. QED
    BY <2>1, <1>3, Zenon DEF Braced
<1>5. QED
  BY <1>1, <1>2, <1>4

\* The sections, from the one another is entered from.
LEMMA SectionFacts ==
  /\ <<"LEX_STATE_DEFAULT">> \in Seq(Names)
  /\ Sections = {<<"LEX_STATE_DEFAULT">>,
                 Append(<<"LEX_STATE_DEFAULT">>, "S_LL_RULES"),
                 Append(Append(<<"LEX_STATE_DEFAULT">>, "S_LL_RULES"), "S_LL_STATE"),
                 Append(<<"LEX_STATE_DEFAULT">>, "S_GG_RULES")}
  /\ Inside = {<<>>, Append(<<>>, "S_MATCH_BRACE"), Append(<<>>, "S_COMMENT"),
               Append(Append(<<>>, "S_MATCH_BRACE"), "S_COMMENT")}
<1>1. <<"LEX_STATE_DEFAULT">> \in Seq(Names)
  BY DEF Names
<1>2. /\ Append(<<"LEX_STATE_DEFAULT">>, "S_LL_RULES")
           = <<"LEX_STATE_DEFAULT", "S_LL_RULES">>
      /\ Append(<<"LEX_STATE_DEFAULT", "S_LL_RULES">>, "S_LL_STATE")
           = <<"LEX_STATE_DEFAULT", "S_LL_RULES", "S_LL_STATE">>
      /\ Append(<<"LEX_STATE_DEFAULT">>, "S_GG_RULES")
           = <<"LEX_STATE_DEFAULT", "S_GG_RULES">>
      /\ Append(<<>>, "S_MATCH_BRACE") = <<"S_MATCH_BRACE">>
      /\ Append(<<>>, "S_COMMENT") = <<"S_COMMENT">>
      /\ Append(<<"S_MATCH_BRACE">>, "S_COMMENT") = <<"S_MATCH_BRACE", "S_COMMENT">>
  <2>1. \A a \in Names, b \in Names, c \in Names :
          /\ Append(<<>>, a) = <<a>>
          /\ Append(<<a>>, b) = <<a, b>>
          /\ Append(<<a, b>>, c) = <<a, b, c>>
    BY Appended
  <2>2. QED
    BY <2>1, Zenon DEF Names
<1>3. QED
  BY <1>1, <1>2, Zenon DEF Sections, Inside

\* A name on top of some.
LEMMA Pushed ==
  ASSUME NEW s \in Seq(Names), NEW x \in Names
  PROVE  /\ Append(s, x) \in Seq(Names) /\ Top(Append(s, x)) = x
         /\ Append(s, x) # <<>> /\ Front(Append(s, x)) = s
         /\ x # "S_MATCH_BRACE" => (Braced(Append(s, x)) <=> Braced(s))
         /\ x = "S_MATCH_BRACE" => Braced(Append(s, x))
<1>1. /\ Append(s, x) \in Seq(Names) /\ Top(Append(s, x)) = x
      /\ Append(s, x) # <<>> /\ Front(Append(s, x)) = s
      /\ Braced(Append(s, x)) <=> Braced(s) \/ x = "S_MATCH_BRACE"
  BY Appending
<1>2. QED
  BY <1>1, Zenon

LEMMA PushedOn ==
  ASSUME NEW r \in Seq(Names), NEW s \in Seq(Names), NEW x \in Names
  PROVE  Append(r \o s, x) = r \o Append(s, x)
OBVIOUS

LEMMA EachSection ==
  ASSUME NEW s \in Sections
  PROVE  /\ s \in Seq(Names) /\ s # <<>> /\ ~ Braced(s)
         /\ Top(s) \in {"LEX_STATE_DEFAULT", "S_LL_RULES", "S_LL_STATE", "S_GG_RULES"}
         /\ Top(s) = "LEX_STATE_DEFAULT" =>
              Append(s, "S_LL_RULES") \in Sections /\ Append(s, "S_GG_RULES") \in Sections
         /\ Top(s) = "S_LL_RULES" => Append(s, "S_LL_STATE") \in Sections
         /\ Top(s) # "LEX_STATE_DEFAULT" => Front(s) \in Sections
<1> DEFINE d == <<"LEX_STATE_DEFAULT">>
           l == Append(d, "S_LL_RULES")
           r == Append(l, "S_LL_STATE")
           g == Append(d, "S_GG_RULES")
<1>1. /\ d \in Seq(Names) /\ d # <<>> /\ ~ Braced(d) /\ Top(d) = "LEX_STATE_DEFAULT"
  <2>1. DOMAIN d = {1} /\ d[1] = "LEX_STATE_DEFAULT"
    OBVIOUS
  <2>2. ~ Braced(d)
    BY <2>1 DEF Braced
  <2>3. Top(d) = "LEX_STATE_DEFAULT" /\ d # <<>>
    BY DEF Top
  <2>4. QED
    BY <2>2, <2>3, SectionFacts
<1>2. Sections = {d, l, r, g}
  BY SectionFacts
<1> HIDE DEF d
<1>3. /\ l \in Seq(Names) /\ Top(l) = "S_LL_RULES" /\ l # <<>> /\ Front(l) = d
      /\ ~ Braced(l)
  BY <1>1, Pushed DEF Names
<1>4. /\ g \in Seq(Names) /\ Top(g) = "S_GG_RULES" /\ g # <<>> /\ Front(g) = d
      /\ ~ Braced(g)
  BY <1>1, Pushed DEF Names
<1> HIDE DEF l, g
<1>5. /\ r \in Seq(Names) /\ Top(r) = "S_LL_STATE" /\ r # <<>> /\ Front(r) = l
      /\ ~ Braced(r)
  BY <1>3, Pushed DEF Names
<1>6. CASE s = d
  BY <1>1, <1>2, <1>6, Zenon DEF l, g
<1>7. CASE s = l
  BY <1>3, <1>2, <1>7, Zenon
<1>8. CASE s = r
  BY <1>5, <1>2, <1>8, Zenon
<1>9. CASE s = g
  BY <1>4, <1>2, <1>9, Zenon
<1>10. QED
  BY <1>2, <1>6, <1>7, <1>8, <1>9, Zenon

LEMMA EachInside ==
  ASSUME NEW t \in Inside
  PROVE  /\ t \in Seq(Names)
         /\ t = <<>> => /\ Append(t, "S_MATCH_BRACE") \in Inside
                        /\ Append(t, "S_COMMENT") \in Inside /\ ~ Braced(t)
         /\ t # <<>> => /\ Top(t) \in {"S_MATCH_BRACE", "S_COMMENT"}
                        /\ Front(t) \in Inside
                        /\ t = Append(Front(t), Top(t))
         /\ t # <<>> /\ Top(t) = "S_MATCH_BRACE" =>
              /\ Append(t, "S_COMMENT") \in Inside /\ Front(t) = <<>>
              /\ Braced(t)
         /\ t # <<>> /\ Top(t) = "S_COMMENT" => (Braced(t) <=> Braced(Front(t)))
<1> DEFINE e == <<>>
           b == Append(e, "S_MATCH_BRACE")
           c == Append(e, "S_COMMENT")
           d == Append(b, "S_COMMENT")
<1>1. e \in Seq(Names) /\ ~ Braced(e)
  BY DEF Braced
<1>2. Inside = {e, b, c, d}
  BY SectionFacts
<1> HIDE DEF e
<1>3. /\ b \in Seq(Names) /\ Top(b) = "S_MATCH_BRACE" /\ b # <<>> /\ Front(b) = e
      /\ Braced(b)
  BY <1>1, Pushed DEF Names
<1>4. /\ c \in Seq(Names) /\ Top(c) = "S_COMMENT" /\ c # <<>> /\ Front(c) = e
      /\ ~ Braced(c)
  BY <1>1, Pushed DEF Names
<1> HIDE DEF b
<1>5. /\ d \in Seq(Names) /\ Top(d) = "S_COMMENT" /\ d # <<>> /\ Front(d) = b
      /\ Braced(d)
  BY <1>3, Pushed DEF Names
<1> HIDE DEF c, d
<1>6. CASE t = e
  BY <1>1, <1>2, <1>6, Zenon DEF b, c, e
<1>7. CASE t = b
  BY <1>1, <1>3, <1>2, <1>7, Zenon DEF d, b, e
<1>8. CASE t = c
  BY <1>1, <1>4, <1>2, <1>8, Zenon DEF c
<1>9. CASE t = d
  BY <1>3, <1>5, <1>2, <1>9, Zenon DEF d
<1>10. QED
  BY <1>2, <1>6, <1>7, <1>8, <1>9, Zenon

\* A piece on top of a section.
LEMMA OnTop ==
  ASSUME NEW s \in Sections, NEW t \in Inside
  PROVE  /\ s \o t \in Seq(Names)
         /\ t = <<>> => s \o t = s
         /\ t # <<>> => Top(s \o t) = Top(t) /\ Front(s \o t) = s \o Front(t)
         /\ Braced(s \o t) <=> Braced(t)
<1>1. s \in Seq(Names) /\ s # <<>> /\ t \in Seq(Names) /\ ~ Braced(s)
  BY EachSection, EachInside
<1>2. s \o t \in Seq(Names) /\ (t = <<>> => s \o t = s)
  BY <1>1
<1>3. t # <<>> => Top(s \o t) = Top(t) /\ Front(s \o t) = s \o Front(t)
  <2>1. ASSUME t # <<>> PROVE Top(s \o t) = Top(t) /\ Front(s \o t) = s \o Front(t)
    <3> DEFINE f == Front(t)
               x == Top(t)
    <3>1. t = Append(f, x) /\ f \in Inside /\ x \in Names
      BY <2>1, EachInside DEF Names
    <3>2. f \in Seq(Names)
      BY <3>1, EachInside
    <3> HIDE DEF f, x
    <3>3. s \o t = Append(s \o f, x) /\ s \o f \in Seq(Names)
      BY <1>1, <3>1, <3>2, PushedOn
    <3> DEFINE q == s \o f
    <3> HIDE DEF q
    <3>4. Top(Append(q, x)) = x /\ Front(Append(q, x)) = q
      BY <3>1, <3>3, Pushed DEF q
    <3>5. QED
      BY <3>3, <3>4 DEF f, x, q
  <2>2. QED
    BY <2>1
<1>4. Braced(s \o t) <=> Braced(t)
  <2>1. /\ DOMAIN (s \o t) = 1 .. Len(s) + Len(t) /\ Len(s) \in Nat /\ Len(t) \in Nat
        /\ DOMAIN s = 1 .. Len(s) /\ DOMAIN t = 1 .. Len(t)
        /\ \A i \in 1 .. Len(s) : (s \o t)[i] = s[i]
        /\ \A i \in 1 .. Len(t) : (s \o t)[Len(s) + i] = t[i]
    BY <1>1
  <2>2. ASSUME NEW i \in 1 .. Len(s) + Len(t)
        PROVE  i \in 1 .. Len(s) \/ \E j \in 1 .. Len(t) : i = Len(s) + j
    <3>1. CASE i <= Len(s)
      BY <2>1, <3>1
    <3>2. CASE i > Len(s)
      <4>1. i - Len(s) \in 1 .. Len(t) /\ i = Len(s) + (i - Len(s))
        BY <2>1, <3>2
      <4>2. QED
        BY <4>1
    <3>3. QED
      BY <2>1, <3>1, <3>2
  <2>3. \A j \in 1 .. Len(t) : Len(s) + j \in 1 .. Len(s) + Len(t)
    BY <2>1
  <2> DEFINE q == s \o t
  <2> HIDE DEF q
  <2>4. ASSUME Braced(q) PROVE Braced(t)
    <3>1. PICK i \in 1 .. Len(s) + Len(t) : q[i] = "S_MATCH_BRACE"
      BY <2>1, <2>4 DEF Braced, q
    <3>2. i \notin 1 .. Len(s)
      BY <1>1, <2>1, <3>1 DEF Braced, q
    <3>3. PICK j \in 1 .. Len(t) : i = Len(s) + j
      BY <2>2, <3>2
    <3>4. t[j] = "S_MATCH_BRACE"
      BY <2>1, <3>1, <3>3 DEF q
    <3>5. QED
      BY <2>1, <3>4 DEF Braced
  <2>5. ASSUME Braced(t) PROVE Braced(q)
    <3>1. PICK j \in 1 .. Len(t) : t[j] = "S_MATCH_BRACE"
      BY <2>1, <2>5 DEF Braced
    <3>2. q[Len(s) + j] = "S_MATCH_BRACE" /\ Len(s) + j \in 1 .. Len(s) + Len(t)
      BY <2>1, <2>3, <3>1 DEF q
    <3>3. QED
      BY <2>1, <3>2 DEF Braced, q
  <2>6. QED
    BY <2>4, <2>5 DEF q
<1>5. QED
  BY <1>2, <1>3, <1>4

\* What may be entered from where, and where it comes back to.
LEMMA StackPush ==
  ASSUME NEW k, Stack(k), NEW x,
         \/ /\ Top(k) = "LEX_STATE_DEFAULT" /\ x \in {"S_LL_RULES", "S_GG_RULES"}
         \/ Top(k) = "S_LL_RULES" /\ x = "S_LL_STATE"
         \/ /\ Top(k) \notin {"S_MATCH_BRACE", "S_COMMENT"}
            /\ x \in {"S_MATCH_BRACE", "S_COMMENT"}
         \/ Top(k) = "S_MATCH_BRACE" /\ x = "S_COMMENT"
  PROVE  /\ Stack(Append(k, x))
         /\ x # "S_MATCH_BRACE" => (Braced(Append(k, x)) <=> Braced(k))
<1>1. PICK s \in Sections, t \in Inside : k = s \o t
  BY DEF Stack
<1>2. /\ s \in Seq(Names) /\ t \in Seq(Names) /\ k \in Seq(Names) /\ x \in Names
      /\ t = <<>> => k = s
      /\ t # <<>> => Top(k) = Top(t)
  BY <1>1, EachSection, EachInside, OnTop DEF Names
<1>3. x # "S_MATCH_BRACE" => (Braced(Append(k, x)) <=> Braced(k))
  BY <1>2, Pushed
<1>4. Append(k, x) = s \o Append(t, x)
  BY <1>1, <1>2, PushedOn
<1>5. CASE x \in {"S_MATCH_BRACE", "S_COMMENT"}
  <2>1. CASE t = <<>>
    <3>1. Append(t, x) \in Inside
      BY <1>5, <2>1, EachInside
    <3>2. QED
      BY <1>3, <1>4, <3>1 DEF Stack
  <2>2. CASE t # <<>>
    <3>1. Top(k) = Top(t) /\ Top(t) \in {"S_MATCH_BRACE", "S_COMMENT"}
      BY <1>2, <2>2, EachInside
    <3>2. Top(t) = "S_MATCH_BRACE" /\ x = "S_COMMENT"
      BY <1>5, <3>1
    <3>3. Append(t, x) \in Inside
      BY <2>2, <3>2, EachInside
    <3>4. QED
      BY <1>3, <1>4, <3>3 DEF Stack
  <2>3. QED
    BY <2>1, <2>2
<1>6. CASE x \notin {"S_MATCH_BRACE", "S_COMMENT"}
  <2>1. t = <<>>
    BY <1>2, <1>6, EachInside
  <2>2. Append(s, x) \in Sections
    BY <1>2, <1>6, <2>1, EachSection
  <2>3. Append(k, x) = Append(s, x) \o t
    BY <1>2, <2>1, <2>2, OnTop
  <2>4. QED
    BY <1>3, <2>2, <2>3 DEF Stack
<1>7. QED
  BY <1>5, <1>6

LEMMA StackPop ==
  ASSUME NEW k, Stack(k), Top(k) # "LEX_STATE_DEFAULT"
  PROVE  /\ Stack(Front(k))
         /\ Top(k) = "S_COMMENT" => (Braced(Front(k)) <=> Braced(k))
         /\ Top(k) # "S_COMMENT" => ~ Braced(Front(k))
<1>1. PICK s \in Sections, t \in Inside : k = s \o t
  BY DEF Stack
<1>2. CASE t = <<>>
  <2>1. k = s /\ Front(s) \in Sections /\ ~ Braced(s)
    BY <1>1, <1>2, OnTop, EachSection
  <2>2. <<>> \in Inside /\ Front(s) \o <<>> = Front(s) /\ ~ Braced(Front(s))
    BY <1>2, <2>1, OnTop, EachSection
  <2>3. Top(k) # "S_COMMENT"
    BY <2>1, EachSection
  <2>4. Stack(Front(k))
    BY <2>1, <2>2 DEF Stack
  <2>5. QED
    BY <2>1, <2>2, <2>3, <2>4
<1>3. CASE t # <<>>
  <2>1. /\ Top(k) = Top(t) /\ Front(k) = s \o Front(t) /\ Front(t) \in Inside
        /\ Top(t) \in {"S_MATCH_BRACE", "S_COMMENT"}
        /\ Braced(k) <=> Braced(t)
    BY <1>1, <1>3, OnTop, EachInside
  <2>2. Stack(Front(k)) /\ (Braced(Front(k)) <=> Braced(Front(t)))
    <3>1. Stack(Front(k))
      BY <2>1, Zenon DEF Stack
    <3> DEFINE f == Front(t)
    <3> HIDE DEF f
    <3>2. f \in Inside /\ Front(k) = s \o f
      BY <2>1 DEF f
    <3>3. Braced(s \o f) <=> Braced(f)
      BY <3>2, OnTop
    <3>4. QED
      BY <3>1, <3>2, <3>3 DEF f
  <2>3. Top(t) = "S_COMMENT" => (Braced(Front(t)) <=> Braced(t))
    BY <1>3, EachInside
  <2>4. Top(t) = "S_MATCH_BRACE" => ~ Braced(Front(t))
    BY <1>3, <2>1, EachInside
  <2>5. QED
    BY <2>1, <2>2, <2>3, <2>4
<1>4. QED
  BY <1>2, <1>3

LEMMA StackTop ==
  ASSUME NEW k, Stack(k)
  PROVE  Top(k) \in Names /\ (Top(k) = "S_MATCH_BRACE" => Braced(k))
<1>1. PICK s \in Sections, t \in Inside : k = s \o t
  BY DEF Stack
<1>2. CASE t = <<>>
  BY <1>1, <1>2, OnTop, EachSection DEF Names
<1>3. CASE t # <<>>
  BY <1>1, <1>3, OnTop, EachInside DEF Names
<1>4. QED
  BY <1>2, <1>3

-----------------------------------------------------------------------------
(***************************************************************************)
(* What its actions do to the stack and to the brace buffer.               *)
(***************************************************************************)
UserFields == {"stack", "counter", "size", "held", "unchecked", "returned"}

Marks == {text[i] : i \in DOMAIN text} \cup {"{", "}"}

Room(u) == u.counter > 0 /\ (~ u.unchecked => Len(u.held) < u.size)

UserOk(u) ==
  /\ DOMAIN u = UserFields
  /\ Stack(u.stack)
  /\ u.counter \in Nat /\ u.size \in Nat /\ u.held \in Seq(Marks)
  /\ u.unchecked \in BOOLEAN
  /\ Braced(u.stack) => Room(u)

LEMMA ReturnOk ==
  ASSUME NEW u, UserOk(u), NEW a, NEW b
  PROVE  UserOk(Return(u, a, b)) /\ Return(u, a, b).stack = u.stack
<1> DEFINE v == Return(u, a, b)
<1>1. v = [u EXCEPT !.returned = [token |-> a, value |-> b]]
  BY DEF Return
<1>2. /\ DOMAIN v = UserFields /\ v.stack = u.stack /\ v.counter = u.counter
      /\ v.size = u.size /\ v.held = u.held /\ v.unchecked = u.unchecked
  BY <1>1 DEF UserOk, UserFields
<1> HIDE DEF v
<1>3. QED
  BY <1>2 DEF UserOk, Room, v

LEMMA PushOk ==
  ASSUME NEW u, UserOk(u), NEW x,
         \/ /\ MetaState(u) = "LEX_STATE_DEFAULT"
            /\ x \in {"S_LL_RULES", "S_GG_RULES"}
         \/ MetaState(u) = "S_LL_RULES" /\ x = "S_LL_STATE"
         \/ MetaState(u) # "S_COMMENT" /\ x = "S_COMMENT"
  PROVE  UserOk(Push(u, x))
<1> DEFINE v == Push(u, x)
<1>1. v = [u EXCEPT !.stack = Append(u.stack, x)]
  BY DEF Push
<1>2. /\ DOMAIN v = UserFields /\ v.stack = Append(u.stack, x)
      /\ v.counter = u.counter /\ v.size = u.size /\ v.held = u.held
      /\ v.unchecked = u.unchecked
  BY <1>1 DEF UserOk, UserFields
<1> HIDE DEF v
<1>3. Stack(u.stack) /\ MetaState(u) = Top(u.stack) /\ x # "S_MATCH_BRACE"
  BY DEF UserOk, MetaState, Top
<1>4. Stack(v.stack) /\ (Braced(v.stack) <=> Braced(u.stack))
  BY <1>2, <1>3, StackPush
<1>5. QED
  BY <1>2, <1>4 DEF UserOk, Room, v

LEMMA PopOk ==
  ASSUME NEW u, UserOk(u), MetaState(u) # "LEX_STATE_DEFAULT"
  PROVE  UserOk(Pop(u))
<1> DEFINE v == Pop(u)
<1>1. v = [u EXCEPT !.stack = Front(u.stack)]
  BY DEF Pop, Front
<1>2. /\ DOMAIN v = UserFields /\ v.stack = Front(u.stack)
      /\ v.counter = u.counter /\ v.size = u.size /\ v.held = u.held
      /\ v.unchecked = u.unchecked
  BY <1>1 DEF UserOk, UserFields
<1> HIDE DEF v
<1>3. Stack(u.stack) /\ MetaState(u) = Top(u.stack)
  BY DEF UserOk, MetaState, Top
<1>4. Stack(v.stack) /\ (Braced(v.stack) => Braced(u.stack))
  BY <1>2, <1>3, StackPop
<1>5. QED
  BY <1>2, <1>4 DEF UserOk, Room, v

LEMMA OpenBraceOk ==
  ASSUME NEW u, UserOk(u), MetaState(u) \notin {"S_MATCH_BRACE", "S_COMMENT"}
  PROVE  UserOk(OpenBrace(u))
<1> DEFINE p == Push(u, "S_MATCH_BRACE")
           v == OpenBrace(u)
<1>1. p = [u EXCEPT !.stack = Append(u.stack, "S_MATCH_BRACE")]
  BY DEF Push
<1>2. DOMAIN p = UserFields /\ p.stack = Append(u.stack, "S_MATCH_BRACE")
  BY <1>1 DEF UserOk, UserFields
<1>3. v = [p EXCEPT !.counter = 1, !.size = BraceBlock, !.held = <<>>,
                    !.unchecked = FALSE]
  BY DEF OpenBrace
<1> HIDE DEF p
<1>4. /\ DOMAIN v = UserFields /\ v.stack = p.stack /\ v.counter = 1
      /\ v.size = BraceBlock /\ v.held = <<>> /\ v.unchecked = FALSE
  BY <1>2, <1>3 DEF UserFields
<1> HIDE DEF v
<1>5. Stack(u.stack) /\ MetaState(u) = Top(u.stack)
  BY DEF UserOk, MetaState, Top
<1>6. Stack(v.stack)
  BY <1>2, <1>4, <1>5, StackPush
<1>7. Room(v) /\ v.held \in Seq(Marks) /\ v.counter \in Nat /\ v.size \in Nat
  BY <1>4, BraceAssumption DEF Room
<1>8. QED
  BY <1>4, <1>6, <1>7 DEF UserOk, v

\* The buffer doubles: a piece that is not longer than it has room then, with
\* the terminator.
LEMMA AddToBraceOk ==
  ASSUME NEW u, UserOk(u), NEW t \in Seq(Marks), MetaState(u) = "S_MATCH_BRACE"
  PROVE  UserOk(AddToBrace(u, t))
<1> DEFINE v == AddToBrace(u, t)
           n == Len(t)
           h == Len(u.held)
<1>1. v = [u EXCEPT !.size = IF n + h >= u.size THEN 2 * u.size ELSE u.size,
                    !.held = u.held \o t,
                    !.unchecked = u.unchecked \/ n > u.size]
  BY DEF AddToBrace
<1>2. /\ DOMAIN v = UserFields /\ v.stack = u.stack /\ v.counter = u.counter
      /\ v.size = (IF n + h >= u.size THEN 2 * u.size ELSE u.size)
      /\ v.held = u.held \o t
      /\ v.unchecked = (u.unchecked \/ n > u.size)
  BY <1>1 DEF UserOk, UserFields
<1> HIDE DEF v
<1>3. /\ Stack(u.stack) /\ MetaState(u) = Top(u.stack) /\ u.held \in Seq(Marks)
      /\ u.counter \in Nat /\ u.size \in Nat /\ u.unchecked \in BOOLEAN
      /\ Braced(u.stack) => Room(u)
  BY DEF UserOk, MetaState, Top
<1>4. Room(u)
  BY <1>3, StackTop
<1>5. n \in Nat /\ h \in Nat /\ v.held \in Seq(Marks) /\ Len(v.held) = h + n
  BY <1>2, <1>3
<1>6. v.unchecked \in BOOLEAN /\ v.size \in Nat
  BY <1>2, <1>3
<1> HIDE DEF n, h
<1>7. ~ v.unchecked => Len(v.held) < v.size
  <2>1. ASSUME ~ v.unchecked PROVE Len(v.held) < v.size
    <3>1. ~ u.unchecked /\ ~ (n > u.size)
      BY <1>2, <2>1
    <3>2. h < u.size
      BY <1>4, <3>1 DEF Room, h
    <3>3. QED
      BY <1>2, <1>3, <1>5, <3>1, <3>2
  <2>2. QED
    BY <2>1
<1>8. Room(v)
  BY <1>2, <1>4, <1>7 DEF Room
<1>9. QED
  BY <1>2, <1>3, <1>5, <1>6, <1>8 DEF UserOk, v

LEMMA NestedBraceOk ==
  ASSUME NEW u, UserOk(u), NEW c \in Marks, NEW n \in Nat, n > 0
  PROVE  UserOk(NestedBrace(u, c, n))
<1> DEFINE v == NestedBrace(u, c, n)
<1>1. v = [u EXCEPT !.counter = n, !.held = Append(u.held, c), !.unchecked = TRUE]
  BY DEF NestedBrace
<1>2. /\ DOMAIN v = UserFields /\ v.stack = u.stack /\ v.counter = n
      /\ v.size = u.size /\ v.held = Append(u.held, c) /\ v.unchecked = TRUE
  BY <1>1 DEF UserOk, UserFields
<1> HIDE DEF v
<1>3. u.held \in Seq(Marks)
  BY DEF UserOk
<1>4. v.held \in Seq(Marks)
  BY <1>2, <1>3
<1>5. QED
  BY <1>2, <1>4 DEF UserOk, Room, v

LEMMA CloseBraceOk ==
  ASSUME NEW u, UserOk(u), MetaState(u) = "S_MATCH_BRACE"
  PROVE  UserOk(CloseBrace(u))
<1>1. u.counter \in Nat /\ Stack(u.stack) /\ MetaState(u) = Top(u.stack)
  BY DEF UserOk, MetaState, Top
<1>2. CASE u.counter - 1 <= 0
  <2> DEFINE p == Pop(u)
             v == [p EXCEPT !.counter = 0]
  <2>1. p = [u EXCEPT !.stack = Front(u.stack)]
    BY DEF Pop, Front
  <2>2. DOMAIN p = UserFields /\ p.stack = Front(u.stack)
    BY <2>1 DEF UserOk, UserFields
  <2>3. UserOk(p)
    BY PopOk
  <2> HIDE DEF p
  <2>4. /\ DOMAIN v = UserFields /\ v.stack = p.stack /\ v.counter = 0
        /\ v.size = p.size /\ v.held = p.held /\ v.unchecked = p.unchecked
    BY <2>2 DEF UserFields
  <2>5. CloseBrace(u) = Return(v, "ACTION", u.held)
    BY <1>2 DEF CloseBrace, p
  <2> HIDE DEF v
  <2>6. ~ Braced(v.stack)
    BY <1>1, <2>2, <2>4, StackPop
  <2>7. UserOk(v)
    BY <2>3, <2>4, <2>6 DEF UserOk
  <2>8. QED
    BY <2>5, <2>7, ReturnOk
<1>3. CASE ~ (u.counter - 1 <= 0)
  <2>1. u.counter - 1 \in Nat /\ u.counter - 1 > 0
    BY <1>1, <1>3
  <2>2. CloseBrace(u) = NestedBrace(u, "}", u.counter - 1)
    BY <1>3 DEF CloseBrace
  <2>3. "}" \in Marks
    BY Zenon DEF Marks
  <2>4. ASSUME NEW c \in Marks PROVE UserOk(NestedBrace(u, c, u.counter - 1))
    BY <2>1, NestedBraceOk
  <2>5. QED
    BY <2>2, <2>3, <2>4, Zenon
<1>4. QED
  BY <1>2, <1>3

LEMMA DefaultActionOk ==
  ASSUME NEW u, UserOk(u), MetaState(u) = "LEX_STATE_DEFAULT",
         NEW rule \in 1 .. 24, NEW t
  PROVE  UserOk(DefaultAction(u, rule, t))
<1> DEFINE v == DefaultAction(u, rule, t)
<1>1. CASE rule = 1 \/ rule = 2
  <2>1. rule = 1 => v = u
    BY DEF DefaultAction
  <2>2. rule = 2 => v = u
    BY DEF DefaultAction
  <2>3. QED
    BY <1>1, <2>1, <2>2
<1>2. CASE rule = 3
  <2>1. v = Push(u, "S_COMMENT")
    BY <1>2 DEF DefaultAction
  <2>2. QED
    BY <2>1, PushOk
<1>3. CASE rule = 6
  <2>1. v = Return(Push(u, "S_LL_RULES"), "LL", <<>>)
    BY <1>3 DEF DefaultAction
  <2>2. QED
    BY <2>1, PushOk, ReturnOk
<1>4. CASE rule = 7
  <2>1. v = Return(Push(u, "S_GG_RULES"), "GG", <<>>)
    BY <1>4 DEF DefaultAction
  <2>2. QED
    BY <2>1, PushOk, ReturnOk
<1>5. CASE rule = 24
  <2>1. v = OpenBrace(u)
    BY <1>5 DEF DefaultAction
  <2>2. QED
    BY <2>1, OpenBraceOk
<1>6. CASE rule = 4 \/ rule = 5 \/ rule = 22 \/ rule = 23
  <2>1. /\ rule = 4 => v = Return(u, "LITERAL", Inner(t))
        /\ rule = 5 => v = Return(u, "ASCII", HandleAscii(t))
    BY DEF DefaultAction
  <2>2. /\ rule = 22 => v = Return(u, "MACRO", MacroValue(t))
        /\ rule = 23 => v = Return(u, "IDENTIFIER", t)
    BY DEF DefaultAction
  <2>3. QED
    BY <1>6, <2>1, <2>2, ReturnOk
<1>7. CASE rule \in {8, 9, 10}
  <2>1. v = Return(u, t[1], <<>>)
    BY <1>7 DEF DefaultAction
  <2>2. QED
    BY <2>1, ReturnOk
<1>8. CASE rule >= 11 /\ rule <= 21
  <2>1. v = Return(u, t[2], <<>>)
    BY <1>8 DEF DefaultAction
  <2>2. QED
    BY <2>1, ReturnOk
<1>9. QED
  BY <1>1, <1>2, <1>3, <1>4, <1>5, <1>6, <1>7, <1>8

LEMMA LexerRulesActionOk ==
  ASSUME NEW u, UserOk(u), MetaState(u) = "S_LL_RULES", NEW rule \in 1 .. 8, NEW t
  PROVE  UserOk(LexerRulesAction(u, rule, t))
<1> DEFINE v == LexerRulesAction(u, rule, t)
<1>1. CASE rule \in {1, 2, 3}
  <2>1. v = u
    BY <1>1 DEF LexerRulesAction
  <2>2. QED
    BY <2>1
<1>2. CASE rule = 4
  <2>1. v = Push(u, "S_COMMENT")
    BY <1>2 DEF LexerRulesAction
  <2>2. QED
    BY <2>1, PushOk
<1>3. CASE rule = 5
  <2>1. v = Return(Pop(u), "LL", <<>>)
    BY <1>3 DEF LexerRulesAction
  <2>2. QED
    BY <2>1, PopOk, ReturnOk
<1>4. CASE rule = 6
  <2>1. v = Return(Push(u, "S_LL_STATE"), "LEX_STATE", StateName(t))
    BY <1>4 DEF LexerRulesAction
  <2>2. QED
    BY <2>1, PushOk, ReturnOk
<1>5. CASE rule = 7
  <2>1. v = Return(u, "LITERAL", Inner(t))
    BY <1>5 DEF LexerRulesAction
  <2>2. QED
    BY <2>1, ReturnOk
<1>6. CASE rule = 8
  <2>1. v = OpenBrace(u)
    BY <1>6 DEF LexerRulesAction
  <2>2. QED
    BY <2>1, OpenBraceOk
<1>7. QED
  BY <1>1, <1>2, <1>3, <1>4, <1>5, <1>6

LEMMA StateRulesActionOk ==
  ASSUME NEW u, UserOk(u), MetaState(u) = "S_LL_STATE", NEW rule \in 1 .. 6, NEW t
  PROVE  UserOk(StateRulesAction(u, rule, t))
<1> DEFINE v == StateRulesAction(u, rule, t)
<1>1. CASE rule \in {1, 2}
  <2>1. v = u
    BY <1>1 DEF StateRulesAction
  <2>2. QED
    BY <2>1
<1>2. CASE rule = 3
  <2>1. v = Push(u, "S_COMMENT")
    BY <1>2 DEF StateRulesAction
  <2>2. QED
    BY <2>1, PushOk
<1>3. CASE rule = 4
  <2>1. v = Return(u, "LITERAL", Inner(t))
    BY <1>3 DEF StateRulesAction
  <2>2. QED
    BY <2>1, ReturnOk
<1>4. CASE rule = 5
  <2>1. v = OpenBrace(u)
    BY <1>4 DEF StateRulesAction
  <2>2. QED
    BY <2>1, OpenBraceOk
<1>5. CASE rule = 6
  <2>1. v = Return(Pop(u), "END_STATE", <<>>)
    BY <1>5 DEF StateRulesAction
  <2>2. QED
    BY <2>1, PopOk, ReturnOk
<1>6. QED
  BY <1>1, <1>2, <1>3, <1>4, <1>5

LEMMA GrammarActionOk ==
  ASSUME NEW u, UserOk(u), MetaState(u) = "S_GG_RULES", NEW rule \in 1 .. 10, NEW t
  PROVE  UserOk(GrammarAction(u, rule, t))
<1> DEFINE v == GrammarAction(u, rule, t)
<1>1. CASE rule \in {1, 2}
  <2>1. v = u
    BY <1>1 DEF GrammarAction
  <2>2. QED
    BY <2>1
<1>2. CASE rule = 4
  <2>1. v = Push(u, "S_COMMENT")
    BY <1>2 DEF GrammarAction
  <2>2. QED
    BY <2>1, PushOk
<1>3. CASE rule = 5
  <2>1. v = Return(Pop(u), "GG", <<>>)
    BY <1>3 DEF GrammarAction
  <2>2. QED
    BY <2>1, PopOk, ReturnOk
<1>4. CASE rule = 10
  <2>1. v = OpenBrace(u)
    BY <1>4 DEF GrammarAction
  <2>2. QED
    BY <2>1, OpenBraceOk
<1>5. CASE rule \in {3, 6, 7, 8, 9}
  <2>1. /\ rule = 3 => v = Return(u, "ASCII", HandleAscii(t))
        /\ rule = 6 => v = Return(u, "IDENTIFIER", t)
        /\ rule \in {7, 8, 9} => v = Return(u, t[1], <<>>)
    BY DEF GrammarAction
  <2>2. QED
    BY <1>5, <2>1, ReturnOk
<1>6. QED
  BY <1>1, <1>2, <1>3, <1>4, <1>5

LEMMA BraceActionOk ==
  ASSUME NEW u, UserOk(u), MetaState(u) = "S_MATCH_BRACE", NEW rule \in 1 .. 8,
         NEW t \in Seq(Marks)
  PROVE  UserOk(BraceAction(u, rule, t))
<1> DEFINE v == BraceAction(u, rule, t)
<1>1. rule = 1 \/ rule \in 2 .. 6 \/ rule = 7 \/ rule = 8
  OBVIOUS
<1>2. /\ rule = 1 => rule \notin 2 .. 6 /\ rule # 7 /\ rule # 8
      /\ rule \in 2 .. 6 => rule # 1 /\ rule # 7 /\ rule # 8
      /\ rule = 7 => rule # 1 /\ rule \notin 2 .. 6 /\ rule # 8
      /\ rule = 8 => rule # 1 /\ rule \notin 2 .. 6 /\ rule # 7
  OBVIOUS
<1>3. CASE rule = 1
  <2>1. v = Push(u, "S_COMMENT")
    BY <1>2, <1>3, Zenon DEF BraceAction
  <2>2. QED
    BY <2>1, PushOk
<1>4. CASE rule \in 2 .. 6
  <2>1. v = AddToBrace(u, t)
    BY <1>2, <1>4, Zenon DEF BraceAction
  <2>2. QED
    BY <2>1, AddToBraceOk
<1>5. CASE rule = 7
  <2>1. v = NestedBrace(u, "{", u.counter + 1)
    BY <1>2, <1>5, Zenon DEF BraceAction
  <2>2. u.counter + 1 \in Nat /\ u.counter + 1 > 0
    BY DEF UserOk
  <2>3. "{" \in Marks
    BY Zenon DEF Marks
  <2>4. ASSUME NEW c \in Marks PROVE UserOk(NestedBrace(u, c, u.counter + 1))
    BY <2>2, NestedBraceOk
  <2>5. QED
    BY <2>1, <2>3, <2>4, Zenon
<1>6. CASE rule = 8
  <2>1. v = CloseBrace(u)
    BY <1>2, <1>6, Zenon DEF BraceAction
  <2>2. QED
    BY <2>1, CloseBraceOk
<1>7. QED
  BY <1>1, <1>3, <1>4, <1>5, <1>6

LEMMA CommentActionOk ==
  ASSUME NEW u, UserOk(u), MetaState(u) = "S_COMMENT", NEW rule, NEW t
  PROVE  UserOk(CommentAction(u, rule, t))
BY PopOk DEF CommentAction

\* Every action of every state keeps the stack a stack and the room of the
\* brace buffer.
LEMMA MetaActionOk ==
  ASSUME NEW u, UserOk(u), NEW rule \in RulesOf[MetaState(u)], NEW t \in Seq(Marks)
  PROVE  UserOk(MetaAction(u, rule, t))
<1> DEFINE s == MetaState(u)
           v == MetaAction(u, rule, t)
<1>1. s \in Names
  BY StackTop DEF UserOk, MetaState, Top
<1>2. CASE s = "LEX_STATE_DEFAULT"
  <2>1. v = DefaultAction(u, rule, t)
    BY <1>2, Zenon DEF MetaAction
  <2>2. rule \in 1 .. 24
    BY <1>2 DEF RulesOf
  <2>3. QED
    BY <1>2, <2>1, <2>2, DefaultActionOk
<1>3. CASE s = "S_LL_RULES"
  <2>1. v = LexerRulesAction(u, rule, t)
    BY <1>3 DEF MetaAction
  <2>2. rule \in 1 .. 8
    BY <1>3 DEF RulesOf
  <2>3. QED
    BY <1>3, <2>1, <2>2, LexerRulesActionOk
<1>4. CASE s = "S_LL_STATE"
  <2>1. v = StateRulesAction(u, rule, t)
    BY <1>4 DEF MetaAction
  <2>2. rule \in 1 .. 6
    BY <1>4 DEF RulesOf
  <2>3. QED
    BY <1>4, <2>1, <2>2, StateRulesActionOk
<1>5. CASE s = "S_GG_RULES"
  <2>1. v = GrammarAction(u, rule, t)
    BY <1>5 DEF MetaAction
  <2>2. rule \in 1 .. 10
    BY <1>5 DEF RulesOf
  <2>3. QED
    BY <1>5, <2>1, <2>2, GrammarActionOk
<1>6. CASE s = "S_MATCH_BRACE"
  <2>1. v = BraceAction(u, rule, t)
    BY <1>6 DEF MetaAction
  <2>2. rule \in 1 .. 8
    BY <1>6 DEF RulesOf
  <2>3. QED
    BY <1>6, <2>1, <2>2, BraceActionOk
<1>7. CASE s = "S_COMMENT"
  <2>1. v = CommentAction(u, rule, t)
    BY <1>7 DEF MetaAction
  <2>2. QED
    BY <1>7, <2>1, CommentActionOk
<1>8. QED
  BY <1>1, <1>2, <1>3, <1>4, <1>5, <1>6, <1>7 DEF Names

-----------------------------------------------------------------------------
(***************************************************************************)
(* The rule a scan has taken is one of the lexer state's: what is read and *)
(* moved in between leaves it alone.                                       *)
(***************************************************************************)
LEMMA ReadyKeepsCap ==
  ASSUME NEW x, DOMAIN x = Fields, NEW k
  PROVE  DOMAIN Ready(x, k) = Fields /\ Ready(x, k).cap = x.cap
<1> DEFINE c == Counted(x)
           s == Shifted(x)
           e == Expanded(x)
           r == Roomy(x)
           y == Read(x, k)
<1>1. DOMAIN c = Fields /\ c.cap = x.cap
  BY CountedFacts DEF Fields
<1> HIDE DEF c
<1>2. DOMAIN s = Fields /\ s.cap = x.cap
  <2>1. DOMAIN s = DOMAIN c /\ s.cap = c.cap
    BY <1>1 DEF Shifted, c, Fields
  <2>2. QED
    BY <1>1, <2>1
<1> HIDE DEF s
<1>3. DOMAIN e = Fields /\ e.cap = x.cap
  <2>1. \E a, b : e = [s EXCEPT !.max = a, !.buf = b]
    BY Zenon DEF Expanded, s
  <2>2. PICK a, b : e = [s EXCEPT !.max = a, !.buf = b]
    BY <2>1
  <2> HIDE DEF e
  <2>3. QED
    BY <1>2, <2>2 DEF Fields
<1> HIDE DEF e
<1>4. DOMAIN Grown(x) = Fields /\ Grown(x).cap = x.cap
  BY <1>2, <1>3 DEF Grown, s, e
<1>5. DOMAIN r = Fields /\ r.cap = x.cap
  BY <1>4 DEF Roomy
<1> HIDE DEF r
<1>6. DOMAIN y = Fields /\ y.cap = x.cap
  <2>1. \E a, b, c1 : y = [r EXCEPT !.end = a, !.eof = b, !.buf = c1]
    BY Zenon DEF Read, r
  <2>2. PICK a, b, c1 : y = [r EXCEPT !.end = a, !.eof = b, !.buf = c1]
    BY <2>1
  <2> HIDE DEF y
  <2>3. QED
    BY <1>5, <2>2 DEF Fields
<1>7. QED
  BY <1>6 DEF Ready

LEMMA EnteredCap ==
  ASSUME DOMAIN m = Fields, NEW p, NEW s
  PROVE  /\ DOMAIN Entered(m, p, s) = Fields
         /\ Entered(m, p, s).cap \in {m.cap, p.accept[s]}
<1>1. \/ Entered(m, p, s) = m
      \/ Entered(m, p, s) = [m EXCEPT !.cap = p.accept[s], !.cur = m.pos]
  BY DEF Entered, Take
<1>2. QED
  BY <1>1 DEF Fields

LEMMA StartFacts ==
  ASSUME NEW x, DOMAIN x = Fields, NEW b, Start(x, b)
  PROVE  m'.cap = 0 /\ fsm'.state = Current.start /\ "state" \in DOMAIN fsm'
BY DEF Start, Fields

LEMMA SetCurrentCap ==
  ASSUME NEW x, DOMAIN x = Fields
  PROVE  DOMAIN SetCurrent(x) = Fields /\ SetCurrent(x).cap = x.cap
BY DEF SetCurrent, Fields

LEMMA TerminatedFields ==
  ASSUME NEW x, DOMAIN x = Fields
  PROVE  /\ DOMAIN Terminated(x) = Fields
         /\ Terminated(x).cap = x.cap
BY DEF Terminated, Fields

\* What a grammar file's lexer is made of, and nothing else is assumed of the
\* constants of the matcher.
IsGrammarLexer ==
  /\ Pattern = MetaPattern /\ FirstUser = MetaUser
  /\ \A u : StateOf(u) = MetaState(u)
  /\ \A u, rule, t : Act(u, rule, t) = MetaAction(u, rule, t)

Scanning == pc \in {"fsm", "scanned", "deliver"}

RuleKnown == Scanning => m.cap \in RulesOf[MetaState(user)] \cup {0}

InPattern ==
  pc = "fsm" => /\ "state" \in DOMAIN fsm
                /\ fsm.state \in DOMAIN MetaPattern[MetaState(user)].edge

LexerInv ==
  /\ DOMAIN text = 1 .. Len(text)
  /\ UserOk(user)
  /\ RuleKnown
  /\ InPattern

LEMMA Served ==
  ASSUME IsGrammarLexer, UserOk(user)
  PROVE  /\ Current = MetaPattern[MetaState(user)]
         /\ Serves(Current, RulesOf[MetaState(user)])
<1>1. MetaState(user) \in Names
  BY StackTop DEF UserOk, MetaState, Top
<1>2. DOMAIN RulesOf = Names
  BY DEF RulesOf, Names
<1>3. Current = MetaPattern[MetaState(user)]
  BY DEF IsGrammarLexer, Current
<1>4. QED
  BY <1>1, <1>2, <1>3, PatternAssumption

\* A step that leaves text and user alone.
LEMMA LexerNext ==
  ASSUME LexerInv, text' = text, user' = user,
         pc' \in {"scanned", "deliver", "fsm"} =>
           m'.cap \in RulesOf[MetaState(user)] \cup {0},
         pc' = "fsm" => /\ "state" \in DOMAIN fsm'
                        /\ fsm'.state \in DOMAIN MetaPattern[MetaState(user)].edge
  PROVE  LexerInv'
<1>1. UserOk(user)'
  BY DEF LexerInv, UserOk, Marks
<1>2. MetaState(user)' = MetaState(user)
  BY DEF MetaState
<1>3. RuleKnown'
  BY <1>2 DEF RuleKnown, Scanning
<1>4. InPattern'
  BY <1>2 DEF InPattern
<1>5. QED
  BY <1>1, <1>3, <1>4 DEF LexerInv

LEMMA LexerInit == ASSUME IsGrammarLexer, Init PROVE LexerInv
<1>1. DOMAIN text = 1 .. Len(text)
  <2>1. text \in Seq({text[i] : i \in DOMAIN text})
    BY TextAssumption DEF Init
  <2> DEFINE S == {text[i] : i \in DOMAIN text}
  <2> HIDE DEF S
  <2>2. text \in Seq(S)
    BY <2>1 DEF S
  <2>3. QED
    BY <2>2
<1>2. user = MetaUser /\ pc = "loop"
  BY DEF Init, IsGrammarLexer
<1>3. /\ DOMAIN user = UserFields /\ user.stack = <<"LEX_STATE_DEFAULT">>
      /\ user.counter = 0 /\ user.size = 0 /\ user.held = <<>>
      /\ user.unchecked = FALSE
  BY <1>2 DEF MetaUser, UserFields
<1> DEFINE d == <<"LEX_STATE_DEFAULT">>
<1>4. d \in Sections /\ <<>> \in Inside
  BY Zenon DEF Sections, Inside
<1> HIDE DEF d
<1>5. d \o <<>> = d /\ ~ Braced(d)
  BY <1>4, OnTop, EachSection
<1>6. user.stack = d
  BY <1>3 DEF d
<1>7. Stack(user.stack) /\ ~ Braced(user.stack)
  BY <1>4, <1>5, <1>6 DEF Stack
<1>8. UserOk(user)
  <2>1. /\ user.counter \in Nat /\ user.size \in Nat /\ user.held \in Seq(Marks)
        /\ user.unchecked \in BOOLEAN
    <3>1. user.counter = 0 /\ user.size = 0 /\ user.unchecked = FALSE
      BY <1>3, Zenon
    <3>2. <<>> \in Seq(Marks)
      OBVIOUS
    <3>3. user.held \in Seq(Marks)
      BY <1>3, <3>2, Zenon
    <3>4. 0 \in Nat /\ FALSE \in BOOLEAN
      OBVIOUS
    <3>5. QED
      BY <3>1, <3>3, <3>4, Zenon
  <2>2. QED
    BY <1>3, <1>7, <2>1, Zenon DEF UserOk
<1>9. QED
  BY <1>1, <1>2, <1>8 DEF LexerInv, RuleKnown, InPattern, Scanning

LEMMA LexerScan ==
  ASSUME Usual, IsGrammarLexer, Inv, LexerInv, Scan PROVE LexerInv'
<1>1. PICK k \in Chunks(m) : LET x == Ready(m, k) IN
        Start([ResetText(x) EXCEPT !.len = 0, !.txt = x.cur, !.mrk = FALSE,
                                   !.ind = x.pos, !.col = 0],
              x.got \in {"bob", "nl"})
  BY DEF Scan
<1> DEFINE x == Ready(m, k)
           r == ResetText(x)
           y == [r EXCEPT !.len = 0, !.txt = x.cur, !.mrk = FALSE,
                          !.ind = x.pos, !.col = 0]
<1>2. Good(x, fed + k)
  BY ReadyGood DEF Inv, Usual
<1>3. DOMAIN r = Fields
  BY <1>2, ResetTextGood DEF Good, Fit
<1>4. Start(y, x.got \in {"bob", "nl"})
  BY <1>1
<1> HIDE DEF x, r
<1>5. DOMAIN y = Fields
  BY <1>3
<1> HIDE DEF y
<1>6. m'.cap = 0 /\ fsm'.state = Current.start /\ "state" \in DOMAIN fsm'
  BY <1>4, <1>5, StartFacts
<1>7. text' = text /\ user' = user
  BY DEF Scan
<1>8. Current.start \in DOMAIN MetaPattern[MetaState(user)].edge
  BY Served DEF LexerInv, Serves
<1>9. QED
  BY <1>6, <1>7, <1>8, LexerNext

LEMMA LexerRescan ==
  ASSUME IsGrammarLexer, Inv, LexerInv, Rescan PROVE LexerInv'
<1> DEFINE x == Restopped(m)
           y == [x EXCEPT !.ded = x.ded + Len(x.tab), !.tab = <<>>, !.pos = x.ind]
<1>1. Start(y, FALSE)
  BY DEF Rescan
<1>2. DOMAIN x = Fields
  BY RestoppedFacts DEF Inv, Good, Fit
<1> HIDE DEF x
<1>3. DOMAIN y = Fields
  BY <1>2
<1> HIDE DEF y
<1>4. m'.cap = 0 /\ fsm'.state = Current.start /\ "state" \in DOMAIN fsm'
  BY <1>1, <1>3, StartFacts
<1>5. text' = text /\ user' = user
  BY DEF Rescan
<1>6. Current.start \in DOMAIN MetaPattern[MetaState(user)].edge
  BY Served DEF LexerInv, Serves
<1>7. QED
  BY <1>4, <1>5, <1>6, LexerNext

\* The automaton enters a state: its rule is one of the lexer state's.
LEMMA LexerEntered ==
  ASSUME IsGrammarLexer, Inv, LexerInv, pc = "fsm"
  PROVE  LET e == Entered(m, Current, fsm.state) IN
         /\ DOMAIN e = Fields
         /\ e.cap \in RulesOf[MetaState(user)] \cup {0}
<1>1. DOMAIN m = Fields
  BY DEF Inv, Good, Fit
<1>2. m.cap \in RulesOf[MetaState(user)] \cup {0}
  BY DEF LexerInv, RuleKnown, Scanning
<1>3. Current.accept[fsm.state] \in RulesOf[MetaState(user)] \cup {0}
  <2>1. fsm.state \in DOMAIN Current.edge
    BY Served DEF LexerInv, InPattern
  <2>2. QED
    BY <2>1, Served DEF LexerInv, Serves
<1>4. QED
  BY <1>1, <1>2, <1>3, EnteredCap

LEMMA LexerHalt ==
  ASSUME IsGrammarLexer, Inv, LexerInv, Halt PROVE LexerInv'
<1>1. /\ pc = "fsm" /\ pc' = "scanned" /\ text' = text /\ user' = user
      /\ m' = Entered(m, Current, fsm.state)
  BY DEF Halt
<1>2. m'.cap \in RulesOf[MetaState(user)] \cup {0}
  BY <1>1, LexerEntered
<1>3. QED
  BY <1>1, <1>2, LexerNext

\* No grammar file is about indentation.
LEMMA LexerJump ==
  ASSUME IsGrammarLexer, LexerInv PROVE ~ Jump
<1> SUFFICES ASSUME Jump PROVE FALSE
  OBVIOUS
<1>1. pc = "fsm" /\ Current.dent[fsm.state] # "none"
  BY DEF Jump
<1>2. fsm.state \in DOMAIN Current.edge
  BY <1>1, Served DEF LexerInv, InPattern
<1>3. QED
  BY <1>1, <1>2, Served DEF LexerInv, Serves

LEMMA LexerStep ==
  ASSUME Usual, IsGrammarLexer, Inv, LexerInv, Step PROVE LexerInv'
<1> DEFINE s == fsm.state
           e == Entered(m, Current, s)
<1>1. PICK k \in Chunks(m) :
        \E x \in {Ready(e, k)} :
        \E c \in {Char(x, Wants(m))} :
        \E y \in {Metas([x EXCEPT !.pos = IF AtEnd(x) THEN @ ELSE @ + 1],
                        Current, s, c)} :
           /\ m' = y
           /\ IF c \in DOMAIN Current.edge[s]
              THEN /\ fsm' = [fsm EXCEPT !.state = Current.edge[s][c]]
                   /\ UNCHANGED pc
              ELSE pc' = "scanned" /\ UNCHANGED fsm
  BY DEF Step
<1>2. pc = "fsm" /\ text' = text /\ user' = user
  BY DEF Step
<1> DEFINE x == Ready(e, k)
           c == Char(x, Wants(m))
           z == [x EXCEPT !.pos = IF AtEnd(x) THEN x.pos ELSE x.pos + 1]
           y == Metas(z, Current, s, c)
<1>3. /\ m' = y
      /\ \/ /\ c \in DOMAIN Current.edge[s]
            /\ fsm' = [fsm EXCEPT !.state = Current.edge[s][c]]
            /\ pc' = pc
         \/ pc' = "scanned"
  BY <1>1
<1>4. /\ DOMAIN e = Fields
      /\ e.cap \in RulesOf[MetaState(user)] \cup {0}
  BY <1>2, LexerEntered
<1>5. /\ s \in DOMAIN Current.edge /\ Current.meta[s] = <<>>
      /\ \A a \in DOMAIN Current.edge[s] : Current.edge[s][a] \in DOMAIN Current.edge
  BY <1>2, Served DEF LexerInv, Serves, InPattern
<1> HIDE DEF e
<1>6. DOMAIN x = Fields /\ x.cap = e.cap
  BY <1>4, ReadyKeepsCap
<1> HIDE DEF x, c
<1>7. DOMAIN z = Fields /\ z.cap = x.cap
  BY <1>6 DEF Fields
<1> HIDE DEF z
<1>8. y = z
  <2> DEFINE edges == Current.meta[s]
  <2>1. DOMAIN edges = {} /\ edges = <<>>
    BY <1>5
  <2> HIDE DEF edges
  <2>2. {i \in DOMAIN edges : MetaHolds(edges[i].label, z, c)} = {}
    BY <2>1
  <2>3. ~ (fsm.bol /\ \E i \in DOMAIN edges : edges[i].label \in {"DED", "IND"})
    BY <2>1
  <2>4. QED
    BY <2>2, <2>3, Zenon DEF Metas, edges
<1> HIDE DEF y
<1>9. m'.cap \in RulesOf[MetaState(user)] \cup {0}
  BY <1>3, <1>4, <1>6, <1>7, <1>8
<1>10. CASE pc' = "scanned"
  BY <1>2, <1>9, <1>10, LexerNext
<1>11. CASE c \in DOMAIN Current.edge[s] /\ fsm'.state = Current.edge[s][c]
            /\ pc' = "fsm" /\ "state" \in DOMAIN fsm'
  <2>1. fsm'.state \in DOMAIN MetaPattern[MetaState(user)].edge
    BY <1>5, <1>11, Served DEF LexerInv
  <2>2. m'.cap \in RulesOf[MetaState(user)] \cup {0} /\ text' = text /\ user' = user
    BY <1>2, <1>9
  <2>3. pc' = "fsm" /\ "state" \in DOMAIN fsm'
    BY <1>11
  <2>4. QED
    BY <2>1, <2>2, <2>3, LexerNext, Zenon
<1>12. "state" \in DOMAIN fsm
  BY <1>2 DEF LexerInv, InPattern
<1>13. QED
  BY <1>2, <1>3, <1>10, <1>11, <1>12

LEMMA LexerScanEnd ==
  ASSUME Inv, LexerInv, ScanEnd PROVE LexerInv'
<1> DEFINE x == Restopped(m)
           y == [x EXCEPT !.ded = IF x.ded > 0 THEN x.ded - 1 ELSE x.ded,
                          !.cur = IF x.cap = 0 THEN x.txt ELSE x.cur,
                          !.len = (IF x.cap = 0 THEN x.txt ELSE x.cur) - x.txt]
           w == [y EXCEPT !.pos = y.cur]
<1>1. /\ pc = "scanned" /\ pc' = "deliver" /\ text' = text /\ user' = user
      /\ \/ \E k : m' = [SetCurrent(Ready(w, k)) EXCEPT !.cap = 0]
         \/ m' = y
         \/ m' = SetCurrent(y)
  BY DEF ScanEnd
<1>2. DOMAIN x = Fields /\ x.cap = m.cap
  <2>1. /\ DOMAIN x = Fields
        /\ \A g \in Fields \ {"tab", "ded"} : x[g] = m[g]
    BY RestoppedFacts DEF Inv, Good, Fit
  <2> HIDE DEF x
  <2>2. QED
    BY <2>1 DEF Fields
<1> HIDE DEF x
<1>3. DOMAIN y = Fields /\ y.cap = m.cap
  BY <1>2 DEF Fields
<1> HIDE DEF y
<1>4. DOMAIN w = Fields
  BY <1>3
<1> HIDE DEF w
<1>5. m'.cap \in {0, m.cap}
  <2>1. ASSUME NEW k, m' = [SetCurrent(Ready(w, k)) EXCEPT !.cap = 0]
        PROVE  m'.cap = 0
    <3> DEFINE z == Ready(w, k)
               v == SetCurrent(z)
    <3>1. DOMAIN z = Fields
      BY <1>4, ReadyKeepsCap
    <3> HIDE DEF z
    <3>2. DOMAIN v = Fields
      BY <3>1, SetCurrentCap
    <3> HIDE DEF v
    <3>3. m' = [v EXCEPT !.cap = 0]
      BY <2>1 DEF v, z
    <3>4. QED
      BY <3>2, <3>3 DEF Fields
  <2>2. m' = y \/ m' = SetCurrent(y) => m'.cap = m.cap
    BY <1>3, SetCurrentCap
  <2>3. QED
    BY <1>1, <2>1, <2>2
<1>6. m.cap \in RulesOf[MetaState(user)] \cup {0}
  BY <1>1 DEF LexerInv, RuleKnown, Scanning
<1>7. QED
  BY <1>1, <1>5, <1>6, LexerNext

\* The text given to an action is a piece of the file.
LEMMA PartOfText ==
  ASSUME NEW x, NEW f \in Nat, Fit(x), Holds(x, f), f <= Len(text),
         DOMAIN text = 1 .. Len(text), Len(text) \in Nat
  PROVE  [i \in 1 .. x.len |-> x.buf[x.txt + i - 1]] \in Seq(Marks)
<1>1. /\ x.txt \in Nat /\ x.len \in Nat /\ x.num \in Nat /\ x.end \in Nat
      /\ x.txt + x.len <= x.end /\ f = x.num + x.end
  BY DEF Fit, Holds
<1>2. ASSUME NEW i \in 1 .. x.len PROVE x.buf[x.txt + i - 1] \in Marks
  <2> DEFINE j == x.txt + i - 1
  <2>1. /\ j \in 0 .. x.end - 1 /\ j # x.txt + x.len
        /\ x.num + j + 1 \in 1 .. Len(text)
    <3> DEFINE a == x.txt
               n == x.len
               e == x.end
    <3>1. a \in Nat /\ n \in Nat /\ e \in Nat /\ a + n <= e /\ i \in 1 .. n
      BY <1>1
    <3>2. j = a + i - 1
      OBVIOUS
    <3> HIDE DEF a, n, e, j
    <3>3. j \in 0 .. e - 1 /\ j # a + n
      BY <3>1, <3>2
    <3> DEFINE u == x.num
               z == Len(text)
    <3>a. u \in Nat /\ z \in Nat /\ u + e <= z
      BY <1>1 DEF e
    <3> HIDE DEF u, z
    <3>b. u + j + 1 \in 1 .. z
      BY <3>1, <3>3, <3>a
    <3>4. x.num + j + 1 \in 1 .. Len(text)
      BY <3>b, Zenon DEF u, z
    <3>5. QED
      BY <3>3, <3>4 DEF a, n, e
  <2> HIDE DEF j
  <2>2. x.buf[j] = text[x.num + j + 1]
    BY <2>1 DEF Holds, At
  <2>3. text[x.num + j + 1] \in {text[a] : a \in DOMAIN text}
    BY <2>1
  <2>4. x.buf[j] \in Marks
    BY <2>2, <2>3, Zenon DEF Marks
  <2>5. QED
    BY <2>4 DEF j
<1>3. QED
  BY <1>1, <1>2

LEMMA LexerDeliver ==
  ASSUME IsGrammarLexer, Inv, LexerInv, Deliver PROVE LexerInv'
<1> DEFINE t == Terminated(m)
           x == Counted(t)
           part == [i \in 1 .. x.len |-> x.buf[x.txt + i - 1]]
<1>1. /\ pc = "deliver" /\ pc' \in {"loop", "done"} /\ text' = text
      /\ user' = IF x.cap > 0 THEN Act(user, x.cap, part) ELSE user
  BY DEF Deliver
<1>2. /\ Good(m, fed) /\ m.chr = "nul" /\ Full
      /\ Len(text) \in Nat /\ fed \in 0 .. Len(text)
  BY <1>1 DEF Inv
<1>3. Good(t, fed) /\ DOMAIN t = Fields /\ t.cap = m.cap
  BY <1>2, TerminatedGood, TerminatedFields DEF Full, Good, Fit
<1> HIDE DEF t
<1>4. Good(x, fed)
  BY <1>3, CountedGood
<1>5. x.cap = m.cap
  BY <1>3, CountedFacts DEF Fields
<1> HIDE DEF x
<1>6. m.cap \in RulesOf[MetaState(user)] \cup {0}
  BY <1>1 DEF LexerInv, RuleKnown, Scanning
<1>7. part \in Seq(Marks)
  BY <1>2, <1>4, PartOfText DEF Good, LexerInv
<1> HIDE DEF part
<1>8. UserOk(user')
  <2>1. CASE x.cap > 0
    <3>1. user' = MetaAction(user, m.cap, part)
      BY <1>1, <1>5, <2>1 DEF IsGrammarLexer
    <3>2. m.cap \in RulesOf[MetaState(user)]
      BY <1>5, <1>6, <2>1
    <3>3. QED
      BY <1>7, <3>1, <3>2, MetaActionOk DEF LexerInv
  <2>2. CASE ~ (x.cap > 0)
    BY <1>1, <2>2 DEF LexerInv
  <2>3. QED
    BY <2>1, <2>2
<1>9. UserOk(user)'
  BY <1>1, <1>8 DEF UserOk, Marks
<1>10. RuleKnown' /\ InPattern'
  BY <1>1 DEF RuleKnown, InPattern, Scanning
<1>11. QED
  BY <1>1, <1>9, <1>10 DEF LexerInv

LEMMA LexerStepInv ==
  ASSUME Usual, IsGrammarLexer, Inv, LexerInv, [Next]_vars PROVE LexerInv'
<1>1. ASSUME text' = text, user' = user, m' = m, fsm' = fsm, pc' = pc
      PROVE  LexerInv'
  BY <1>1 DEF LexerInv, RuleKnown, InPattern, Scanning, UserOk, Marks, MetaState
<1>2. CASE Finish
  <2>1. text' = text /\ user' = user /\ pc' = "done"
    BY <1>2 DEF Finish
  <2>2. QED
    BY <2>1, LexerNext
<1>3. CASE Done \/ UNCHANGED vars
  BY <1>1, <1>3 DEF Done, vars
<1>4. QED
  BY <1>2, <1>3, LexerScan, LexerRescan, LexerHalt, LexerJump, LexerStep,
     LexerScanEnd, LexerDeliver
  DEF Next

-----------------------------------------------------------------------------
(***************************************************************************)
(* On every grammar file the invariant of the buffer and that of the       *)
(* lexer hold together.                                                    *)
(***************************************************************************)
LEMMA LexerSafe ==
  ASSUME Fresh = "nul", ShortReads = FALSE, IsGrammarLexer
  PROVE  Spec => []LexerInv
<1>1. Usual
  BY DEF Usual
<1>2. Init => Inv /\ LexerInv
  BY <1>1, InitInv, LexerInit
<1>3. Inv /\ LexerInv /\ [Next]_vars => Inv' /\ LexerInv'
  BY <1>1, StepInv, LexerStepInv
<1>4. QED
  BY <1>2, <1>3, PTL DEF Spec

(***************************************************************************)
(* For every grammar file and every size of the buffer: the sections of    *)
(* the file do not nest, so that a comment and an action are left for the  *)
(* section they were found in.                                             *)
(***************************************************************************)
THEOREM SectionsNeverNest ==
  ASSUME Fresh = "nul", ShortReads = FALSE, IsGrammarLexer
  PROVE  Spec => []SectionsDoNotNest
<1>1. LexerInv => SectionsDoNotNest
  BY DEF LexerInv, UserOk, Stack, SectionsDoNotNest
<1>2. QED
  BY <1>1, LexerSafe, PTL

(***************************************************************************)
(* For every grammar file and every size of the two buffers: no text that  *)
(* is added to an action reaches past the brace buffer, but for a nested   *)
(* brace or a piece that is longer than the buffer itself.                 *)
(***************************************************************************)
THEOREM BraceBufferHasRoom ==
  ASSUME Fresh = "nul", ShortReads = FALSE, IsGrammarLexer
  PROVE  Spec => []BraceHasRoom
<1>1. LexerInv => BraceHasRoom
  BY DEF LexerInv, UserOk, Room, Braced, BraceHasRoom, InBrace
<1>2. QED
  BY <1>1, LexerSafe, PTL

\* matcher_init allocates 32 places for lexing_state; NEOAST_STACK_PUSH and
\* NEOAST_STACK_POP look at neither end of it, and the token loop reads its top.
LexingStateFits == Len(user.stack) >= 1 /\ Len(user.stack) <= 5

(***************************************************************************)
(* No grammar file, however deep its comments and actions seem to nest,    *)
(* makes the lexer push more than four states on its first or pop that.    *)
(***************************************************************************)
THEOREM FiveStatesSuffice ==
  ASSUME Fresh = "nul", ShortReads = FALSE, IsGrammarLexer
  PROVE  Spec => []LexingStateFits
<1>1. SectionsDoNotNest => LexingStateFits
  <2> SUFFICES ASSUME NEW s \in Sections, NEW t \in Inside, user.stack = s \o t
               PROVE  LexingStateFits
    BY DEF SectionsDoNotNest
  <2>1. s \in Seq(Names) /\ t \in Seq(Names)
    BY EachSection, EachInside
  <2>2. Len(s) >= 1 /\ Len(s) <= 3
    <3>1. /\ Len(<<"LEX_STATE_DEFAULT">>) = 1
          /\ Len(<<"LEX_STATE_DEFAULT", "S_LL_RULES">>) = 2
          /\ Len(<<"LEX_STATE_DEFAULT", "S_GG_RULES">>) = 2
          /\ Len(<<"LEX_STATE_DEFAULT", "S_LL_RULES", "S_LL_STATE">>) = 3
      OBVIOUS
    <3>2. Len(s) \in {1, 2, 3}
      BY <3>1, Zenon DEF Sections
    <3>3. \A n \in {1, 2, 3} : n >= 1 /\ n <= 3
      OBVIOUS
    <3>4. QED
      BY <3>2, <3>3, Zenon
  <2>3. Len(t) <= 2
    BY DEF Inside
  <2>4. Len(user.stack) = Len(s) + Len(t) /\ Len(s) \in Nat /\ Len(t) \in Nat
    BY <2>1
  <2>5. QED
    BY <2>2, <2>3, <2>4 DEF LexingStateFits
<1>2. QED
  BY <1>1, SectionsNeverNest, PTL

\* What matcher_scan leaves in cap_ is a case of the switch of the state the
\* lexer is in, or 0: the default of the switch, which reports an error at a
\* text that has been matched, is never for a rule.
EveryRuleHasACase == RuleKnown

(***************************************************************************)
(* The switch of a lexer state knows every rule that its automaton takes,  *)
(* and the automaton never leaves its labels.                              *)
(***************************************************************************)
THEOREM SwitchKnowsRule ==
  ASSUME Fresh = "nul", ShortReads = FALSE, IsGrammarLexer
  PROVE  Spec => [](EveryRuleHasACase /\ InPattern)
<1>1. LexerInv => EveryRuleHasACase /\ InPattern
  BY DEF LexerInv, EveryRuleHasACase
<1>2. QED
  BY <1>1, LexerSafe, PTL

-----------------------------------------------------------------------------
(***************************************************************************)
(* The cursor of module Scanner, which counts by recursion.                *)
(***************************************************************************)
LEMMA LeastNat ==
  ASSUME NEW T, T \subseteq Nat, T # {}
  PROVE  \E x \in T : \A y \in T : x <= y
<1> DEFINE R == {z \in Nat \X Nat : z[1] < z[2]}
<1>1. IsWellFoundedOn(R, Nat)
  BY ONLY NatLessThanWellFounded DEF OpToRel
<1>2. PICK x \in T : \A y \in T : ~ (<<y, x>> \in R)
  <2> HIDE DEF R
  <2>1. QED
    BY <1>1, WFMin
<1>3. \A a, b \in Nat : ~ (<<b, a>> \in R) => a <= b
  <2> TAKE a, b \in Nat
  <2>1. b < a => <<b, a>> \in R
    OBVIOUS
  <2>2. ~ (b < a) => a <= b
    OBVIOUS
  <2>3. QED
    BY <2>1, <2>2
<1> HIDE DEF R
<1>4. QED
  BY <1>2, <1>3

LEMMA UpTo ==
  ASSUME NEW T, NEW n \in Nat, 0 \in T,
         \A i \in Nat : i < n /\ i \in T => i + 1 \in T
  PROVE  \A i \in 0 .. n : i \in T
<1> DEFINE S == {i \in 0 .. n : i \notin T}
<1> SUFFICES ASSUME S # {} PROVE FALSE
  OBVIOUS
<1>1. PICK x \in S : \A y \in S : x <= y
  <2>1. S \subseteq Nat
    OBVIOUS
  <2> HIDE DEF S
  <2>2. QED
    BY <2>1, LeastNat
<1>2. x \in 0 .. n /\ x \notin T /\ x # 0
  BY <1>1
<1>3. PICK z \in Nat : x = z + 1
  <2>1. x - 1 \in Nat /\ x = (x - 1) + 1
    BY <1>2
  <2>2. QED
    BY <2>1
<1>4. z \in T
  <2>1. z \in 0 .. n /\ ~ (x <= z)
    BY <1>2, <1>3
  <2>2. QED
    BY <1>1, <2>1
<1>5. z < n
  BY <1>2, <1>3
<1>6. QED
  BY <1>2, <1>3, <1>4, <1>5

\* There is a function that goes on from its last value.
GoesOn(F, V, n) == \A i \in 1 .. n : \A v \in V : F[i][v] \in V
Unrolls(g, F, V, n, e) ==
  /\ g \in [0 .. n -> V]
  /\ g[0] = e
  /\ \A i \in 1 .. n : g[i] = F[i][g[i - 1]]

LEMMA Recursion ==
  ASSUME NEW V, NEW n \in Nat, NEW e \in V, NEW F, GoesOn(F, V, n)
  PROVE  \E g : Unrolls(g, F, V, n, e)
<1> USE DEF GoesOn, Unrolls
<1> DEFINE G(k) == {g \in [0 .. k -> V] :
                      g[0] = e /\ \A i \in 1 .. k : g[i] = F[i][g[i - 1]]}
           T == {k \in 0 .. n : G(k) # {}}
<1>1. 0 \in T
  <2>1. [i \in 0 .. 0 |-> e] \in G(0)
    OBVIOUS
  <2> HIDE DEF G
  <2>2. QED
    BY <2>1
<1>2. ASSUME NEW k \in Nat, k < n, k \in T PROVE k + 1 \in T
  <2>1. PICK g \in [0 .. k -> V] :
          g[0] = e /\ \A i \in 1 .. k : g[i] = F[i][g[i - 1]]
    BY <1>2
  <2>2. PICK l \in Nat : l = k + 1
    BY <1>2
  <2>3. /\ l \in 1 .. n /\ l \in 0 .. n /\ l - 1 = k /\ k \in 0 .. k
        /\ \A i \in 0 .. l : i # l => i \in 0 .. k
        /\ \A i \in 1 .. l : i # l => i \in 1 .. k /\ i - 1 # l /\ i - 1 \in 0 .. l
        /\ 0 # l /\ 0 \in 0 .. l /\ l \in 0 .. l /\ k # l /\ k \in 0 .. l
    BY <1>2, <2>2
  <2> DEFINE h == [i \in 0 .. l |-> IF i = l THEN F[l][g[k]] ELSE g[i]]
  <2>4. F[l][g[k]] \in V
    BY <2>1, <2>3
  <2>5. h \in [0 .. l -> V]
    BY <2>1, <2>3, <2>4
  <2>6. h[0] = e
    BY <2>1, <2>3
  <2>7. ASSUME NEW i \in 1 .. l PROVE h[i] = F[i][h[i - 1]]
    <3>1. CASE i = l
      <4>1. h[i] = F[l][g[k]] /\ h[k] = g[k] /\ i - 1 = k
        BY <2>3, <3>1
      <4> HIDE DEF h
      <4>2. QED
        BY <4>1, <3>1
    <3>2. CASE i # l
      <4>1. i \in 1 .. k /\ i - 1 # l /\ i - 1 \in 0 .. l /\ i \in 0 .. l
        BY <2>3, <3>2
      <4>2. h[i] = g[i] /\ h[i - 1] = g[i - 1]
        BY <4>1, <3>2
      <4> HIDE DEF h
      <4>3. QED
        BY <4>1, <4>2, <2>1
    <3>3. QED
      BY <3>1, <3>2
  <2> HIDE DEF h
  <2>8. h \in G(l)
    BY <2>5, <2>6, <2>7
  <2> HIDE DEF G
  <2>9. QED
    BY <2>2, <2>3, <2>8
<1> HIDE DEF G
<1>3. n \in 0 .. n
  OBVIOUS
<1>4. n \in T
  <2> HIDE DEF T
  <2>1. QED
    BY <1>1, <1>2, <1>3, UpTo
<1>5. QED
  BY <1>4 DEF G

\* The column behind a character, from the one in front of it.
Column(c, k) ==
  CASE c = "nl" -> 0 [] c = "tab" -> NextTab(k) [] c = "cont" -> k [] OTHER -> k + 1

LEMMA TabStops ==
  \A k \in Nat : NextTab(k) = (k \div TabSize + 1) * TabSize /\ NextTab(k) \in Nat
<1> TAKE k \in Nat
<1>1. TabSize \in Nat /\ TabSize > 0
  BY TabAssumption
<1>2. \A n1, n2 \in Nat : n2 > 0 =>
        /\ n1 % n2 \in 0 .. n2 - 1 /\ n1 \div n2 \in Nat
        /\ n1 = (n1 \div n2) * n2 + (n1 % n2)
  BY ONLY TRUE
<1> DEFINE q == k \div TabSize
           r == k % TabSize
<1>3. r \in 0 .. TabSize - 1 /\ q \in Nat /\ k = q * TabSize + r
  BY <1>1, <1>2
<1> HIDE DEF q, r
<1>4. \A n1, n2, n3, n4 \in Nat :
        n3 \in 0 .. n2 - 1 /\ n1 = n4 * n2 + n3 =>
          n1 + (n2 - n3) = (n4 + 1) * n2 /\ n1 + (n2 - n3) \in Nat
  BY ONLY TRUE
<1>5. r \in Nat
  BY <1>1, <1>3
<1>6. k + (TabSize - r) = (q + 1) * TabSize /\ k + (TabSize - r) \in Nat
  BY <1>1, <1>3, <1>4, <1>5
<1>7. QED
  BY <1>6 DEF NextTab, q, r

LEMMA ColumnFacts ==
  ASSUME Len(text) \in Nat
  PROVE  /\ Cursor!ColumnAt(text, 0) = 0
         /\ \A i \in 0 .. Len(text) : Cursor!ColumnAt(text, i) \in Nat
         /\ \A i \in 1 .. Len(text) :
              Cursor!ColumnAt(text, i) = Column(text[i], Cursor!ColumnAt(text, i - 1))
<1> DEFINE n == Len(text)
           F == [i \in 1 .. n |-> [k \in Nat |-> Column(text[i], k)]]
           E(h) == [i \in 0 .. n |->
                      CASE i = 0            -> 0
                        [] text[i] = "nl"   -> 0
                        [] text[i] = "tab"  -> (h[i - 1] \div TabSize + 1) * TabSize
                        [] text[i] = "cont" -> h[i - 1]
                        [] OTHER            -> h[i - 1] + 1]
           C == Cursor!Columns(text)
<1>1. \A i \in 1 .. n : \A k \in Nat : F[i][k] \in Nat
  BY TabStops DEF Column
<1>2. ASSUME NEW g \in [0 .. n -> Nat], g[0] = 0,
             \A i \in 1 .. n : g[i] = Column(text[i], g[i - 1])
      PROVE  g = E(g)
  <2>1. ASSUME NEW i \in 0 .. n, i # 0 PROVE g[i] = E(g)[i]
    <3>1. i \in 1 .. n /\ i - 1 \in 0 .. n
      BY <2>1
    <3>2. g[i - 1] \in Nat
      BY <3>1
    <3>3. g[i] = Column(text[i], g[i - 1])
      BY <3>1, <1>2
    <3>4. NextTab(g[i - 1]) = (g[i - 1] \div TabSize + 1) * TabSize
      BY <3>2, TabStops
    <3>5. QED
      BY <2>1, <3>3, <3>4 DEF Column
  <2>2. g[0] = E(g)[0]
    BY <1>2
  <2>3. QED
    BY <2>1, <2>2
<1>3. \E g : g = E(g)
  <2>1. 0 \in Nat /\ n \in Nat
    OBVIOUS
  <2> HIDE DEF n, F
  <2>a. GoesOn(F, Nat, n)
    BY <1>1 DEF GoesOn
  <2> HIDE DEF E
  <2>b. \E g : Unrolls(g, F, Nat, n, 0)
    BY <2>1, <2>a, Recursion
  <2>2. PICK g : Unrolls(g, F, Nat, n, 0)
    BY <2>b
  <2>c. /\ g \in [0 .. n -> Nat] /\ g[0] = 0
        /\ \A i \in 1 .. n : g[i] = F[i][g[i - 1]]
    BY <2>2 DEF Unrolls
  <2> USE DEF E
  <2>3. \A i \in 1 .. n : g[i] = Column(text[i], g[i - 1])
    <3> TAKE i \in 1 .. n
    <3>1. i - 1 \in 0 .. n
      BY <2>1
    <3>2. QED
      BY <3>1, <2>c DEF F
  <2>4. QED
    BY <1>2, <2>c, <2>3
<1>4. C = E(C)
  <2>1. C = CHOOSE h : h = E(h)
    BY DEF Cursor!Columns
  <2> HIDE DEF E, C
  <2>2. QED
    BY <1>3, <2>1
<1> HIDE DEF C, F
<1>5. /\ C[0] = 0
      /\ \A i \in 1 .. n : C[i - 1] \in Nat =>
           C[i] = Column(text[i], C[i - 1]) /\ C[i] \in Nat
  <2>1. C[0] = 0
    BY <1>4
  <2>2. ASSUME NEW i \in 1 .. n, C[i - 1] \in Nat
        PROVE  C[i] = Column(text[i], C[i - 1]) /\ C[i] \in Nat
    <3>1. C[i] = CASE i = 0            -> 0
                   [] text[i] = "nl"   -> 0
                   [] text[i] = "tab"  -> (C[i - 1] \div TabSize + 1) * TabSize
                   [] text[i] = "cont" -> C[i - 1]
                   [] OTHER            -> C[i - 1] + 1
      <4>1. i \in 0 .. n
        OBVIOUS
      <4>2. QED
        BY <1>4, <4>1
    <3>2. NextTab(C[i - 1]) = (C[i - 1] \div TabSize + 1) * TabSize
          /\ NextTab(C[i - 1]) \in Nat
      BY <2>2, TabStops
    <3>3. i # 0
      OBVIOUS
    <3>4. QED
      BY <2>2, <3>1, <3>2, <3>3 DEF Column
  <2>3. QED
    BY <2>1, <2>2
<1> HIDE DEF E
<1>6. \A i \in 0 .. n : C[i] \in Nat
  <2> DEFINE T == {i \in 0 .. n : C[i] \in Nat}
  <2>1. 0 \in T
    BY <1>5
  <2>2. ASSUME NEW i \in Nat, i < n, i \in T PROVE i + 1 \in T
    <3>1. i + 1 \in 1 .. n /\ i + 1 \in 0 .. n /\ (i + 1) - 1 = i
      BY <2>2
    <3>2. QED
      BY <1>5, <2>2, <3>1
  <2> HIDE DEF T
  <2>3. \A i \in 0 .. n : i \in T
    BY <2>1, <2>2, UpTo
  <2>4. QED
    BY <2>3 DEF T
<1>7. \A i \in 1 .. n : i - 1 \in 0 .. n
  OBVIOUS
<1>8. QED
  BY <1>5, <1>6, <1>7 DEF Cursor!ColumnAt, C

LEMMA LineFacts ==
  ASSUME Len(text) \in Nat
  PROVE  /\ Cursor!LineAt(text, 0) = 1
         /\ \A i \in 0 .. Len(text) : Cursor!LineAt(text, i) \in Nat
         /\ \A i \in 1 .. Len(text) :
              Cursor!LineAt(text, i) = Cursor!LineAt(text, i - 1)
                                         + (IF text[i] = "nl" THEN 1 ELSE 0)
<1> DEFINE N(a) == {i \in 1 .. a : text[i] = "nl"}
<1>1. ASSUME NEW a \in Nat PROVE IsFiniteSet(N(a)) /\ Cardinality(N(a)) \in Nat
  <2>1. IsFiniteSet(1 .. a)
    BY FS_Interval
  <2>2. N(a) \in SUBSET (1 .. a)
    OBVIOUS
  <2> HIDE DEF N
  <2>3. QED
    BY <2>1, <2>2, FS_Subset, FS_CardinalityType
<1>2. Cardinality(N(0)) = 0
  <2>1. N(0) = {}
    OBVIOUS
  <2>2. QED
    BY <2>1, FS_EmptySet
<1>3. ASSUME NEW i \in 1 .. Len(text)
      PROVE  Cardinality(N(i)) = Cardinality(N(i - 1))
                                   + (IF text[i] = "nl" THEN 1 ELSE 0)
  <2>1. i - 1 \in Nat /\ 1 .. i = (1 .. (i - 1)) \cup {i} /\ i \notin 1 .. (i - 1)
    OBVIOUS
  <2>2. IsFiniteSet(N(i - 1)) /\ Cardinality(N(i - 1)) \in Nat /\ i \notin N(i - 1)
    BY <1>1, <2>1
  <2>3. CASE text[i] = "nl"
    <3>1. N(i) = N(i - 1) \cup {i}
      BY <2>1, <2>3
    <3> HIDE DEF N
    <3>2. Cardinality(N(i)) = Cardinality(N(i - 1)) + 1
      BY <2>2, <3>1, FS_AddElement
    <3>3. QED
      BY <2>3, <3>2
  <2>4. CASE text[i] # "nl"
    <3>1. N(i) = N(i - 1)
      BY <2>1, <2>4
    <3> HIDE DEF N
    <3>2. QED
      BY <2>2, <2>4, <3>1
  <2>5. QED
    BY <2>3, <2>4
<1>4. ASSUME NEW a PROVE Cursor!LineAt(text, a) = 1 + Cardinality(N(a))
  BY Zenon DEF Cursor!LineAt, Cursor!Cardinality, Cardinality
<1> HIDE DEF N
<1>5. \A i \in 1 .. Len(text) : i - 1 \in Nat /\ i \in Nat
  OBVIOUS
<1>6. ASSUME NEW i \in 1 .. Len(text)
      PROVE  Cursor!LineAt(text, i) = Cursor!LineAt(text, i - 1)
                                        + (IF text[i] = "nl" THEN 1 ELSE 0)
  <2>1. Cardinality(N(i - 1)) \in Nat
    BY <1>1, <1>5
  <2>2. QED
    BY <1>3, <1>4, <2>1
<1>7. /\ Cursor!LineAt(text, 0) = 1
      /\ \A i \in 0 .. Len(text) : Cursor!LineAt(text, i) \in Nat
  <2>1. Cursor!LineAt(text, 0) = 1
    BY <1>2, <1>4
  <2>2. ASSUME NEW i \in 0 .. Len(text) PROVE Cursor!LineAt(text, i) \in Nat
    <3>1. i \in Nat
      OBVIOUS
    <3>2. Cardinality(N(i)) \in Nat
      BY <1>1, <3>1
    <3>3. QED
      BY <1>4, <3>2
  <2>3. QED
    BY <2>1, <2>2
<1>8. QED
  BY <1>6, <1>7

LEMMA ReachedFacts ==
  ASSUME NEW p, Serves(p, Nat), Len(text) \in Nat, NEW a \in 0 .. Len(text)
  PROVE  LET R == Cursor!Reached(p, text, a) IN
         /\ R[0] = {p.start}
         /\ \A n \in 1 .. Len(text) - a :
              R[n] = {p.edge[s][text[a + n]] :
                        s \in {q \in R[n - 1] : text[a + n] \in DOMAIN p.edge[q]}}
<1> DEFINE Q == DOMAIN p.edge
           V == SUBSET Q
           l == Len(text) - a
           Over(c, S) == {p.edge[s][c] : s \in {q \in S : c \in DOMAIN p.edge[q]}}
           F == [n \in 1 .. l |-> [S \in V |-> Over(text[a + n], S)]]
           E(h) == [n \in 0 .. l |-> IF n = 0 THEN {p.start}
                                     ELSE Over(text[a + n], h[n - 1])]
           R == Cursor!Reached(p, text, a)
<1>1. l \in Nat
  OBVIOUS
<1>2. \A c : \A S \in V : Over(c, S) \in V
  <2> TAKE c
  <2> TAKE S \in V
  <2> SUFFICES ASSUME NEW s \in S, c \in DOMAIN p.edge[s] PROVE p.edge[s][c] \in Q
    OBVIOUS
  <2>1. s \in DOMAIN p.edge
    OBVIOUS
  <2>2. QED
    BY <2>1 DEF Serves
<1>3. {p.start} \in V
  BY DEF Serves
<1>4. R = CHOOSE h : h = E(h)
  BY DEF Cursor!Reached
<1> HIDE DEF l, Over, V, R
<1>5. GoesOn(F, V, l)
  BY <1>2 DEF GoesOn
<1>6. \E g : g = E(g)
  <2> HIDE DEF F
  <2>1. PICK g : Unrolls(g, F, V, l, {p.start})
    BY <1>1, <1>3, <1>5, Recursion
  <2>2. /\ g \in [0 .. l -> V] /\ g[0] = {p.start}
        /\ \A n \in 1 .. l : g[n] = F[n][g[n - 1]]
    BY <2>1 DEF Unrolls
  <2>3. ASSUME NEW n \in 0 .. l, n # 0 PROVE g[n] = Over(text[a + n], g[n - 1])
    <3>1. n \in 1 .. l /\ n - 1 \in 0 .. l
      BY <1>1, <2>3
    <3>2. g[n - 1] \in V
      BY <2>2, <3>1
    <3>3. QED
      BY <2>2, <3>1, <3>2 DEF F
  <2>4. g = E(g)
    BY <2>2, <2>3
  <2>5. QED
    BY <2>4
<1>7. R = E(R)
  <2> HIDE DEF E
  <2>1. QED
    BY <1>4, <1>6
<1>8. R[0] = {p.start} /\ \A n \in 1 .. l : R[n] = Over(text[a + n], R[n - 1])
  <2>1. 0 \in 0 .. l /\ \A n \in 1 .. l : n \in 0 .. l /\ n # 0
    BY <1>1
  <2>2. QED
    BY <1>7, <2>1
<1>9. QED
  BY <1>8 DEF l, Over, R

LEMMA ReachedNext ==
  ASSUME NEW p, Serves(p, Nat), Len(text) \in Nat, NEW a \in 0 .. Len(text),
         NEW n \in 1 .. Len(text) - a
  PROVE  LET R == Cursor!Reached(p, text, a)
             c == text[a + n]
         IN  /\ \A s : R[n - 1] = {s} /\ c \in DOMAIN p.edge[s] =>
                         R[n] = {p.edge[s][c]}
             /\ \A s : R[n - 1] = {s} /\ c \notin DOMAIN p.edge[s] => R[n] = {}
             /\ R[n - 1] = {} => R[n] = {}
<1> DEFINE R == Cursor!Reached(p, text, a)
           c == text[a + n]
<1>1. R[n] = {p.edge[s][c] : s \in {q \in R[n - 1] : c \in DOMAIN p.edge[q]}}
  BY ReachedFacts
<1> HIDE DEF R, c
<1>2. QED
  BY <1>1 DEF R, c

\* Where the automaton has halted it does not go on.
LEMMA DeadEnd ==
  ASSUME NEW p, Serves(p, Nat), Len(text) \in Nat, NEW a \in 0 .. Len(text),
         NEW n \in 1 .. Len(text) - a, Cursor!Reached(p, text, a)[n] = {}
  PROVE  \A j \in n .. Len(text) - a : Cursor!Reached(p, text, a)[j] = {}
<1> DEFINE l == Len(text) - a
           R == Cursor!Reached(p, text, a)
           T == {i \in Nat : n + i <= l => R[n + i] = {}}
<1>1. l \in Nat /\ n \in 1 .. l
  OBVIOUS
<1>2. R[n] = {}
  OBVIOUS
<1>3. \A j \in 1 .. l : R[j - 1] = {} => R[j] = {}
  BY ReachedNext
<1> HIDE DEF R, l
<1>4. 0 \in T
  BY <1>1, <1>2
<1>5. ASSUME NEW i \in Nat, i < l, i \in T PROVE i + 1 \in T
  <2>1. SUFFICES ASSUME n + (i + 1) <= l PROVE R[n + (i + 1)] = {}
    OBVIOUS
  <2>2. R[n + i] = {}
    BY <1>1, <1>5, <2>1
  <2>3. PICK j \in Nat : j = n + (i + 1)
    BY <1>1
  <2>4. j \in 1 .. l /\ j - 1 = n + i
    BY <1>1, <2>1, <2>3
  <2>5. QED
    BY <1>3, <2>2, <2>3, <2>4
<1>6. \A i \in 0 .. l : i \in T
  <2> HIDE DEF T
  <2>1. QED
    BY <1>1, <1>4, <1>5, UpTo
<1>7. ASSUME NEW j \in n .. l PROVE R[j] = {}
  <2>1. PICK i \in 0 .. l : j = n + i
    <3>1. j - n \in 0 .. l /\ j = n + (j - n)
      BY <1>1
    <3>2. QED
      BY <3>1
  <2>2. n + i <= l
    BY <2>1
  <2>3. QED
    BY <1>6, <2>1, <2>2
<1>8. QED
  BY <1>7 DEF R, l

-----------------------------------------------------------------------------
(***************************************************************************)
(* lno_ and cno_ are the line and the column at lpb_.                      *)
(***************************************************************************)
Counts(x) ==
  /\ x.lno = Cursor!LineAt(text, x.num + x.lpb)
  /\ x.cno = Cursor!ColumnAt(text, x.num + x.lpb)

\* Line and column behind character c, when n and k are those in front of it.
Behind(c, n, k) ==
  CASE c = "nl" -> <<n + 1, 0>> [] c = "tab" -> <<n, NextTab(k)>>
    [] c = "cont" -> <<n, k>> [] OTHER -> <<n, k + 1>>

LEMMA CountedText ==
  ASSUME NEW x, NEW f \in Nat, Good(x, f), Len(text) \in Nat, f <= Len(text), Counts(x)
  PROVE  Counts(Counted(x))
<1> DEFINE L(i) == Cursor!LineAt(text, x.num + i)
           K(i) == Cursor!ColumnAt(text, x.num + i)
           S == x.lpb .. x.txt
           g == [i \in S |-> <<L(i), K(i)>>]
           E(h) == [i \in S |->
                      IF i = x.lpb THEN <<x.lno, x.cno>>
                      ELSE Behind(x.buf[i - 1], h[i - 1][1], h[i - 1][2])]
           h == CHOOSE h : h = E(h)
<1>1. /\ x.lpb \in Nat /\ x.txt \in Nat /\ x.lpb <= x.txt /\ x.num \in Nat
      /\ x.len \in Nat /\ x.end \in Nat /\ x.txt + x.len <= x.end
      /\ f = x.num + x.end
  BY DEF Good, Fit, Holds
<1>2. x.lpb \in S /\ x.txt \in S
  BY <1>1
<1>3. ASSUME NEW i \in S, i # x.lpb
      PROVE  /\ i - 1 \in S /\ L(i) \in Nat /\ K(i) \in Nat
             /\ L(i - 1) \in Nat /\ K(i - 1) \in Nat
             /\ L(i) = L(i - 1) + (IF x.buf[i - 1] = "nl" THEN 1 ELSE 0)
             /\ K(i) = Column(x.buf[i - 1], K(i - 1))
  <2> DEFINE l == Len(text)
  <2>1. PICK j \in Nat : i = j + 1
    <3>1. i - 1 \in Nat /\ i = (i - 1) + 1
      BY <1>1, <1>3
    <3>2. QED
      BY <3>1
  <2>2. /\ j \in S /\ j \in 0 .. x.end - 1 /\ j < x.txt + x.len /\ i - 1 = j
        /\ x.num + i = (x.num + j) + 1
        /\ x.num + j \in 0 .. l /\ x.num + i \in 1 .. l /\ x.num + i \in 0 .. l
        /\ (x.num + i) - 1 = x.num + j
    <3> DEFINE n1 == x.lpb
               n2 == x.txt
               n3 == x.num
               n4 == x.len
               n5 == x.end
    <3>1. /\ n1 \in Nat /\ n2 \in Nat /\ n3 \in Nat /\ n4 \in Nat /\ n5 \in Nat
          /\ l \in Nat /\ i = j + 1 /\ j \in Nat
          /\ n1 < j + 1 /\ j + 1 <= n2 /\ n2 + n4 <= n5 /\ n3 + n5 <= l
      BY <1>1, <1>3, <2>1
    <3> HIDE DEF n1, n2, n3, n4, n5, l
    <3>2. /\ j \in n1 .. n2 /\ j \in 0 .. n5 - 1 /\ j < n2 + n4 /\ i - 1 = j
          /\ n3 + i = (n3 + j) + 1
          /\ n3 + j \in 0 .. l /\ n3 + i \in 1 .. l /\ n3 + i \in 0 .. l
          /\ (n3 + i) - 1 = n3 + j
      BY ONLY <3>1
    <3>3. QED
      BY <3>2 DEF n1, n2, n3, n4, n5
  <2>3. x.buf[j] = text[x.num + i]
    <3>1. x.buf[j] = text[x.num + j + 1]
      BY <2>2, <1>1 DEF Good, Holds, At
    <3>2. x.num + j + 1 = x.num + i
      BY <2>2
    <3>3. QED
      BY <3>1, <3>2
  <2>4. PICK q \in 1 .. l : q = x.num + i /\ q - 1 = x.num + j
    BY <2>2
  <2>5. /\ Cursor!LineAt(text, q) \in Nat /\ Cursor!LineAt(text, q - 1) \in Nat
        /\ Cursor!LineAt(text, q) = Cursor!LineAt(text, q - 1)
                                      + (IF text[q] = "nl" THEN 1 ELSE 0)
    <3>1. q \in 0 .. l /\ q - 1 \in 0 .. l
      OBVIOUS
    <3>2. QED
      BY <3>1, LineFacts
  <2>6. /\ Cursor!ColumnAt(text, q) \in Nat /\ Cursor!ColumnAt(text, q - 1) \in Nat
        /\ Cursor!ColumnAt(text, q) = Column(text[q], Cursor!ColumnAt(text, q - 1))
    <3>1. q \in 0 .. l /\ q - 1 \in 0 .. l
      OBVIOUS
    <3>2. QED
      BY <3>1, ColumnFacts
  <2>7. QED
    BY <2>2, <2>3, <2>4, <2>5, <2>6
<1>4. x.lno = L(x.lpb) /\ x.cno = K(x.lpb)
  BY DEF Counts
<1>5. Counted(x) = [x EXCEPT !.lno = h[x.txt][1], !.cno = h[x.txt][2], !.lpb = x.txt]
  BY DEF Counted, Behind
<1> HIDE DEF L, K
<1>6. g = E(g)
  <2>1. ASSUME NEW i \in S, i # x.lpb PROVE g[i] = E(g)[i]
    <3>1. g[i] = <<L(i), K(i)>> /\ g[i - 1][1] = L(i - 1) /\ g[i - 1][2] = K(i - 1)
      BY <1>3, <2>1
    <3> HIDE DEF g
    <3>2. E(g)[i] = Behind(x.buf[i - 1], L(i - 1), K(i - 1))
      BY <2>1, <3>1
    <3> HIDE DEF E
    <3>3. QED
      BY <1>3, <2>1, <3>1, <3>2 DEF Column, Behind
  <2>2. g[x.lpb] = E(g)[x.lpb]
    BY <1>2, <1>4
  <2>3. g = [i \in S |-> g[i]] /\ E(g) = [i \in S |-> E(g)[i]]
    OBVIOUS
  <2> HIDE DEF g, E
  <2>4. QED
    BY <2>1, <2>2, <2>3
<1>7. h = E(h)
  <2>1. \E v : v = E(v)
    BY <1>6
  <2> HIDE DEF E
  <2>2. QED
    BY <2>1
<1> HIDE DEF h, g
<1>8. \A i \in S : h[i] = <<L(i), K(i)>>
  <2> DEFINE n == x.txt - x.lpb
             T == {j \in 0 .. n : h[x.lpb + j] = <<L(x.lpb + j), K(x.lpb + j)>>}
  <2>1. n \in Nat
    BY <1>1
  <2>2. 0 \in T
    BY <1>1, <1>2, <1>4, <1>7
  <2>3. ASSUME NEW j \in Nat, j < n, j \in T PROVE j + 1 \in T
    <3>1. PICK i \in Nat : i = x.lpb + (j + 1)
      BY <1>1
    <3>2. i \in S /\ i # x.lpb /\ i - 1 = x.lpb + j /\ j + 1 \in 0 .. n
      <4> DEFINE n1 == x.lpb
                 n2 == x.txt
      <4>1. n1 \in Nat /\ n2 \in Nat /\ j \in Nat /\ n1 <= n2 /\ j < n2 - n1
        BY <1>1, <2>3
      <4>2. i = n1 + (j + 1)
        BY <3>1
      <4> HIDE DEF n1, n2
      <4>3. /\ i \in n1 .. n2 /\ i # n1 /\ i - 1 = n1 + j
            /\ j + 1 \in 0 .. n2 - n1
        BY ONLY <4>1, <4>2
      <4>4. QED
        BY <4>3 DEF n1, n2
    <3>3. h[i - 1] = <<L(i - 1), K(i - 1)>>
      BY <2>3, <3>2
    <3>4. h[i - 1][1] = L(i - 1) /\ h[i - 1][2] = K(i - 1)
      BY <3>3
    <3>5. h[i] = <<L(i), K(i)>>
      <4>1. h[i] = Behind(x.buf[i - 1], L(i - 1), K(i - 1))
        BY <1>7, <3>2, <3>4
      <4> HIDE DEF E
      <4>2. QED
        BY <1>3, <3>2, <4>1 DEF Column, Behind
    <3>6. QED
      BY <3>1, <3>2, <3>5
  <2>4. \A j \in 0 .. n : j \in T
    <3> HIDE DEF T, n
    <3>1. QED
      BY <2>1, <2>2, <2>3, UpTo
  <2>5. ASSUME NEW i \in S PROVE h[i] = <<L(i), K(i)>>
    <3>1. PICK j \in 0 .. n : i = x.lpb + j
      <4>1. i - x.lpb \in 0 .. n /\ i = x.lpb + (i - x.lpb)
        BY <1>1
      <4>2. QED
        BY <4>1
    <3>2. QED
      BY <2>4, <3>1
  <2>6. QED
    BY <2>5
<1> HIDE DEF E
<1>9. h[x.txt][1] = L(x.txt) /\ h[x.txt][2] = K(x.txt)
  BY <1>2, <1>8
<1>10. DOMAIN x = Fields
  BY DEF Good, Fit
<1>11. QED
  BY <1>5, <1>9, <1>10 DEF Counts, Fields, L, K

\* y is x with its positions moved, at the same places of the text.
Carried(x, y) ==
  /\ DOMAIN y = Fields
  /\ y.num + y.txt = x.num + x.txt /\ y.num + y.pos = x.num + x.pos
  /\ y.num + y.cur = x.num + x.cur /\ y.num + y.ind = x.num + x.ind
  /\ y.cap = x.cap /\ y.len = x.len /\ y.ded = x.ded /\ y.mrk = x.mrk
  /\ y.tab = x.tab /\ y.got = x.got /\ y.col = x.col

\* y is x but for what its buffer holds.
SamePlaces(x, y) ==
  /\ DOMAIN y = Fields
  /\ \A f \in Fields \ {"buf", "chr", "max", "end", "eof"} : y[f] = x[f]

LEMMA SamePlacesCarry ==
  ASSUME NEW x, NEW y, NEW z, DOMAIN y = Fields, SamePlaces(y, z)
  PROVE  /\ Carried(x, y) => Carried(x, z)
         /\ Counts(y) => Counts(z)
<1>1. /\ z.txt = y.txt /\ z.pos = y.pos /\ z.cur = y.cur /\ z.ind = y.ind
      /\ z.num = y.num /\ z.lpb = y.lpb /\ z.lno = y.lno /\ z.cno = y.cno
      /\ z.cap = y.cap /\ z.len = y.len /\ z.ded = y.ded /\ z.mrk = y.mrk
      /\ z.tab = y.tab /\ z.got = y.got /\ z.col = y.col /\ DOMAIN z = Fields
  BY DEF SamePlaces, Fields
<1>2. QED
  BY <1>1 DEF Carried, Counts

LEMMA ShiftedCarries ==
  ASSUME NEW x, NEW f \in Nat, Good(x, f), Len(text) \in Nat, f <= Len(text)
  PROVE  /\ Carried(x, Shifted(x))
         /\ Counts(x) => Counts(Shifted(x))
<1> DEFINE c == Counted(x)
           s == Shifted(x)
<1>1. /\ DOMAIN c = Fields
      /\ \A g \in Fields \ {"lno", "cno", "lpb"} : c[g] = x[g]
      /\ c.lpb = x.txt
  BY CountedFacts DEF Good, Fit
<1>2. Counts(x) => Counts(c)
  BY CountedText
<1>3. \E b : s = [c EXCEPT !.cur = @ - x.txt, !.ind = @ - x.txt, !.pos = @ - x.txt,
                           !.end = @ - x.txt, !.num = @ + x.txt, !.txt = 0,
                           !.lpb = 0, !.buf = b]
  BY Zenon DEF Shifted
<1> HIDE DEF c, s
<1>4. PICK b : s = [c EXCEPT !.cur = @ - x.txt, !.ind = @ - x.txt, !.pos = @ - x.txt,
                             !.end = @ - x.txt, !.num = @ + x.txt, !.txt = 0,
                             !.lpb = 0, !.buf = b]
  BY <1>3
<1>5. /\ c.cur = x.cur /\ c.ind = x.ind /\ c.pos = x.pos /\ c.num = x.num
      /\ c.cap = x.cap /\ c.len = x.len /\ c.ded = x.ded /\ c.mrk = x.mrk
      /\ c.tab = x.tab /\ c.got = x.got /\ c.col = x.col
  BY <1>1 DEF Fields
<1>6. /\ DOMAIN s = Fields
      /\ s.cur = c.cur - x.txt /\ s.ind = c.ind - x.txt /\ s.pos = c.pos - x.txt
      /\ s.num = c.num + x.txt /\ s.txt = 0 /\ s.lpb = 0
      /\ s.cap = c.cap /\ s.len = c.len /\ s.ded = c.ded /\ s.mrk = c.mrk
      /\ s.tab = c.tab /\ s.got = c.got /\ s.col = c.col
      /\ s.lno = c.lno /\ s.cno = c.cno
  BY <1>1, <1>4 DEF Fields
<1>7. /\ x.txt \in Nat /\ x.cur \in Nat /\ x.pos \in Nat /\ x.ind \in Nat
      /\ x.num \in Nat
  BY DEF Good, Fit
<1>8. Carried(x, s)
  BY <1>5, <1>6, <1>7 DEF Carried
<1>9. Counts(c) => Counts(s)
  <2>1. s.num + s.lpb = c.num + c.lpb
    BY <1>1, <1>5, <1>6, <1>7
  <2>2. QED
    BY <1>6, <2>1 DEF Counts
<1>10. QED
  BY <1>2, <1>8, <1>9 DEF s

\* A read moves what it knows, and counts the lines it moves over.
LEMMA ReadyCarries ==
  ASSUME NEW x, NEW f \in Nat, Good(x, f), Len(text) \in Nat, f <= Len(text), NEW k
  PROVE  /\ Carried(x, Ready(x, k))
         /\ Counts(x) => Counts(Ready(x, k))
<1> DEFINE s == Shifted(x)
           e == Expanded(x)
           r == Roomy(x)
           y == Read(x, k)
<1>1. Carried(x, s) /\ (Counts(x) => Counts(s)) /\ DOMAIN s = Fields
  BY ShiftedCarries DEF Carried
<1>2. Carried(x, x) /\ DOMAIN x = Fields
  BY DEF Good, Fit, Carried
<1>3. SamePlaces(s, e)
  <2>1. \E a, b : e = [s EXCEPT !.max = a, !.buf = b]
    BY Zenon DEF Expanded
  <2> HIDE DEF s, e
  <2>2. PICK a, b : e = [s EXCEPT !.max = a, !.buf = b]
    BY <2>1
  <2>3. QED
    BY <1>1, <2>2 DEF SamePlaces, Fields
<1>4. Carried(x, e) /\ (Counts(x) => Counts(e))
  <2> HIDE DEF s, e
  <2>1. QED
    BY <1>1, <1>3, SamePlacesCarry
<1>5. r \in {x, s, e}
  <2> HIDE DEF s, e
  <2>1. QED
    BY DEF Roomy, Grown, s, e
<1>6. Carried(x, r) /\ (Counts(x) => Counts(r)) /\ DOMAIN r = Fields
  <2> HIDE DEF s, e, r
  <2>1. QED
    BY <1>1, <1>2, <1>4, <1>5 DEF Carried
<1>7. SamePlaces(r, y)
  <2>1. \E a, b, c : y = [r EXCEPT !.end = a, !.eof = b, !.buf = c]
    BY Zenon DEF Read
  <2> HIDE DEF r, y
  <2>2. PICK a, b, c : y = [r EXCEPT !.end = a, !.eof = b, !.buf = c]
    BY <2>1
  <2>3. QED
    BY <1>6, <2>2 DEF SamePlaces, Fields
<1>8. Carried(x, y) /\ (Counts(x) => Counts(y))
  <2> HIDE DEF r, y
  <2>1. QED
    BY <1>6, <1>7, SamePlacesCarry
<1> HIDE DEF y
<1>9. QED
  BY <1>2, <1>8 DEF Ready, y

-----------------------------------------------------------------------------
(***************************************************************************)
(* Matcher and cursor.  A scan that began at a has looked at the texts of  *)
(* fewer than n characters from there: cap is the rule of the longest one  *)
(* that the automaton accepts, and cur its end.                            *)
(***************************************************************************)
Accepts(p, a, j) == \E s \in Cursor!Reached(p, text, a)[j] : p.accept[s] > 0
Takes(p, a, k, rule) ==
  rule > 0 /\ \E s : Cursor!Reached(p, text, a)[k] = {s} /\ p.accept[s] = rule

Best(p, a, n, rule, cur) ==
  \/ /\ rule = 0 /\ cur = a
     /\ \A j \in 0 .. n - 1 : ~ Accepts(p, a, j)
  \/ \E k \in 0 .. n - 1 :
       /\ cur = a + k /\ Takes(p, a, k, rule)
       /\ \A j \in k + 1 .. n - 1 : ~ Accepts(p, a, j)

\* The automaton is in a state, behind n characters.
Running(p, x, s) ==
  LET a == x.num + x.txt IN
  \E n \in 0 .. Len(text) - a :
    /\ x.num + x.pos = a + n /\ s \in DOMAIN p.edge
    /\ Cursor!Reached(p, text, a)[n] = {s}
    /\ Best(p, a, n, x.cap, x.num + x.cur)

\* It has halted.
Halted(p, x) ==
  LET a == x.num + x.txt IN
  \E n \in 0 .. Len(text) - a :
    /\ Best(p, a, n + 1, x.cap, x.num + x.cur)
    /\ \A j \in n + 1 .. Len(text) - a : Cursor!Reached(p, text, a)[j] = {}

\* The match is known.
Matched(p, x) ==
  LET a == x.num + x.txt IN
  /\ x.pos = x.cur /\ x.cur = x.txt + x.len
  /\ x.len \in 0 .. Len(text) - a
  /\ IF x.cap = 0 THEN x.len = 0 ELSE x.len > 0 /\ Takes(p, a, x.len, x.cap)
  /\ \A j \in x.len + 1 .. Len(text) - a : ~ Accepts(p, a, j)

\* The matcher in between: no automaton looks at the margin.
Plain(x) == Counts(x) /\ x.ded = 0 /\ x.mrk = FALSE

CursorInv ==
  /\ DOMAIN text = 1 .. Len(text)
  /\ \A i \in 1 .. Len(text) : AsChar(text[i]) = text[i]
  /\ Plain(m)
  /\ DOMAIN fsm = {"state", "bol", "nul"} /\ fsm.nul = FALSE
  /\ pc # "done" => token.kind \in {"none", "rule"}
  /\ pc = "loop" => m.pos = m.cur
  /\ Scanning => m.num + m.txt < fed
  /\ pc = "fsm" => Running(Current, m, fsm.state)
  /\ pc = "scanned" => Halted(Current, m)
  /\ pc = "deliver" => Matched(Current, m)

\* A step of the matcher inside a scan is none of the cursor.
LEMMA CursorStays ==
  ASSUME NEW y, m' = y, NEW f, fed' = f, CursorInv, text' = text, user' = user,
         token' = token, pc \in {"loop", "fsm", "scanned"},
         pc' \in {"fsm", "scanned", "deliver"},
         y.num + y.txt = Consumed, y.num + y.txt < f,
         Plain(y), DOMAIN fsm' = {"state", "bol", "nul"}, fsm'.nul = FALSE,
         pc' = "fsm" => Running(Current, y, fsm'.state),
         pc' = "scanned" => Halted(Current, y),
         pc' = "deliver" => Matched(Current, y)
  PROVE  CursorInv' /\ UNCHANGED Cursor!vars
<1>1. Current' = Current
  BY DEF Current
<1>2. CursorInv'
  <2>1. Plain(m)'
    BY DEF Plain, Counts
  <2>2. pc' = "fsm" => Running(Current, m, fsm.state)'
    BY <1>1 DEF Running, Best, Takes, Accepts
  <2>3. pc' = "scanned" => Halted(Current, m)'
    BY <1>1 DEF Halted, Best, Takes, Accepts
  <2>4. pc' = "deliver" => Matched(Current, m)'
    BY <1>1 DEF Matched, Takes, Accepts
  <2>5. /\ (DOMAIN text = 1 .. Len(text))'
        /\ (\A i \in 1 .. Len(text) : AsChar(text[i]) = text[i])'
    BY DEF CursorInv
  <2>6. Scanning' => (m.num + m.txt < fed)'
    OBVIOUS
  <2>7. (token.kind \in {"none", "rule"})' /\ pc' # "loop" /\ pc' # "done"
    BY DEF CursorInv
  <2>8. QED
    BY <2>1, <2>2, <2>3, <2>4, <2>5, <2>6, <2>7 DEF CursorInv
<1>3. Consumed' = Consumed
  BY DEF Consumed
<1>4. QED
  BY <1>2, <1>3 DEF Cursor!vars

LEMMA CursorPlaces ==
  ASSUME Inv, CursorInv
  PROVE  /\ DOMAIN m = Fields /\ Good(m, fed)
         /\ m.num \in Nat /\ m.txt \in Nat /\ m.pos \in Nat /\ m.cur \in Nat
         /\ m.end \in Nat /\ fed \in Nat /\ fed <= Len(text) /\ Len(text) \in Nat
         /\ fed = m.num + m.end
BY DEF Inv, Good, Fit, Holds

\* A scan begins behind the last match.
LEMMA CursorScan ==
  ASSUME Usual, Inv, CursorInv, Serves(Current, Nat), Scan
  PROVE  CursorInv' /\ UNCHANGED Cursor!vars
<1>1. PICK k \in Chunks(m) : LET x == Ready(m, k) IN
        /\ fed' = fed + k /\ ~ AtEnd(x)
        /\ Start([ResetText(x) EXCEPT !.len = 0, !.txt = x.cur, !.mrk = FALSE,
                                      !.ind = x.pos, !.col = 0],
                 x.got \in {"bob", "nl"})
  BY DEF Scan
<1> DEFINE x == Ready(m, k)
           r == ResetText(x)
           y == [r EXCEPT !.len = 0, !.txt = x.cur, !.mrk = FALSE,
                          !.ind = x.pos, !.col = 0]
           z == [y EXCEPT !.cap = 0, !.cur = r.pos]
<1>2. pc = "loop" /\ UNCHANGED <<text, user, token>>
  BY DEF Scan
<1>3. Good(x, fed + k) /\ fed + k \in 0 .. Len(text) /\ Len(text) \in Nat
  BY ReadyGood DEF Inv, Usual
<1>4. Carried(m, x) /\ (Counts(m) => Counts(x)) /\ DOMAIN x = Fields
  BY CursorPlaces, ReadyCarries DEF Carried
<1>5. /\ x.num \in Nat /\ x.txt \in Nat /\ x.pos \in Nat /\ x.cur \in Nat
      /\ x.end \in Nat /\ fed + k = x.num + x.end
  BY <1>3 DEF Good, Fit, Holds
<1>6. x.pos < x.end
  BY <1>1, <1>5 DEF AtEnd
<1>7. SamePlaces(x, r) /\ DOMAIN r = Fields
  <2>1. \/ r = x
        \/ \E b : r = [x EXCEPT !.buf = b, !.chr = "nul"]
    BY Zenon DEF ResetText
  <2> HIDE DEF x, r
  <2>2. QED
    BY <1>4, <2>1 DEF SamePlaces, Fields
<1>8. m' = [y EXCEPT !.cap = 0, !.cur = y.pos]
      /\ fsm' = [state |-> Current.start, bol |-> x.got \in {"bob", "nl"}, nul |-> FALSE]
      /\ pc' = "fsm" /\ fed' = fed + k
  BY <1>1 DEF Start
<1> HIDE DEF x, r
<1>9. DOMAIN y = Fields /\ y.pos = r.pos
  BY <1>7 DEF Fields
<1>10. m' = z
  <2> HIDE DEF y
  <2>1. QED
    BY <1>8, <1>9
<1>11. /\ z.num = r.num /\ z.txt = x.cur /\ z.pos = r.pos /\ z.cur = r.pos
       /\ z.lpb = r.lpb /\ z.lno = r.lno /\ z.cno = r.cno /\ z.cap = 0
       /\ z.ded = r.ded /\ z.mrk = FALSE /\ DOMAIN z = Fields
  BY <1>7 DEF Fields
<1> HIDE DEF y, z
<1>12. /\ r.num = x.num /\ r.pos = x.pos /\ r.lpb = x.lpb /\ r.lno = x.lno
       /\ r.cno = x.cno /\ r.ded = x.ded
  BY <1>7 DEF SamePlaces, Fields
<1>13. Plain(z)
  BY <1>4, <1>11, <1>12 DEF CursorInv, Plain, Carried, Counts
<1>14. x.pos = x.cur
  <2>1. m.pos = m.cur
    BY <1>2 DEF CursorInv
  <2>2. x.num + x.pos = x.num + x.cur
    BY <1>4, <2>1 DEF Carried
  <2>3. QED
    BY <1>5, <2>2
<1>15. z.num + z.txt = Consumed
  BY <1>2, <1>4, <1>11, <1>12 DEF Carried, Consumed
<1>16. z.num + z.txt < fed + k
  BY <1>5, <1>6, <1>11, <1>12, <1>14
<1>17. Running(Current, z, Current.start)
  <2> DEFINE a == z.num + z.txt
  <2>1. a \in 0 .. Len(text) /\ z.num + z.pos = a + 0 /\ z.num + z.cur = a
        /\ 0 \in 0 .. Len(text) - a
    BY <1>3, <1>5, <1>11, <1>12, <1>14, <1>16
  <2>2. Cursor!Reached(Current, text, a)[0] = {Current.start}
    BY <1>3, <2>1, ReachedFacts
  <2>3. Current.start \in DOMAIN Current.edge
    BY DEF Serves
  <2>4. Best(Current, a, 0, 0, a)
    BY DEF Best
  <2> HIDE DEF a
  <2>5. QED
    BY <1>11, <2>1, <2>2, <2>3, <2>4 DEF Running, a
<1>18. DOMAIN fsm' = {"state", "bol", "nul"} /\ fsm'.nul = FALSE
       /\ fsm'.state = Current.start
  BY <1>8
<1>19. QED
  BY <1>2, <1>8, <1>10, <1>13, <1>15, <1>16, <1>17, <1>18, CursorStays

\* What the automaton does to the matcher before it reads.
LEMMA CursorEntered ==
  ASSUME Inv, CursorInv, Serves(Current, Nat), pc = "fsm"
  PROVE  LET e == Entered(m, Current, fsm.state)
             a == m.num + m.txt
         IN  /\ Good(e, fed) /\ SameBuffer(m, e) /\ Plain(e) /\ DOMAIN e = Fields
             /\ e.pos = m.pos /\ e.txt = m.txt /\ e.num = m.num
             /\ \E n \in 0 .. Len(text) - a :
                  /\ e.num + e.pos = a + n /\ fsm.state \in DOMAIN Current.edge
                  /\ Cursor!Reached(Current, text, a)[n] = {fsm.state}
                  /\ Best(Current, a, n + 1, e.cap, e.num + e.cur)
<1> DEFINE s == fsm.state
           e == Entered(m, Current, s)
           a == m.num + m.txt
           t == [m EXCEPT !.cap = Current.accept[s], !.cur = m.pos]
<1>1. PICK n \in 0 .. Len(text) - a :
        /\ m.num + m.pos = a + n /\ s \in DOMAIN Current.edge
        /\ Cursor!Reached(Current, text, a)[n] = {s}
        /\ Best(Current, a, n, m.cap, m.num + m.cur)
  BY DEF CursorInv, Running
<1>2. DOMAIN m = Fields /\ a \in Nat /\ Len(text) \in Nat
  BY CursorPlaces
<1>3. Good(e, fed) /\ SameBuffer(m, e) /\ e.pos = m.pos /\ e.txt = m.txt
  BY EnteredGood
<1>4. Current.accept[s] \in Nat
  BY <1>1 DEF Serves
<1>5. e = IF Current.accept[s] > 0 THEN t ELSE m
  BY DEF Entered, Take
<1>6. /\ DOMAIN t = Fields /\ t.cap = Current.accept[s] /\ t.cur = m.pos
      /\ t.num = m.num /\ t.lpb = m.lpb /\ t.lno = m.lno /\ t.cno = m.cno
      /\ t.ded = m.ded /\ t.mrk = m.mrk
  BY <1>2 DEF Fields
<1> HIDE DEF t, e
<1>7. Plain(e) /\ DOMAIN e = Fields /\ e.num = m.num
  BY <1>2, <1>5, <1>6 DEF CursorInv, Plain, Counts
<1>8. Accepts(Current, a, n) <=> Current.accept[s] > 0
  BY <1>1 DEF Accepts
<1>9. /\ n \in Nat /\ n \in 0 .. (n + 1) - 1
      /\ \A j \in n + 1 .. (n + 1) - 1 : FALSE
      /\ \A j \in 0 .. (n + 1) - 1 : j = n \/ j \in 0 .. n - 1
      /\ \A k \in 0 .. n - 1 : k \in 0 .. (n + 1) - 1
      /\ \A k \in 0 .. n - 1 :
           \A j \in k + 1 .. (n + 1) - 1 : j = n \/ j \in k + 1 .. n - 1
  <2> DEFINE l == Len(text) - a
  <2>1. n \in 0 .. l /\ l \in Int
    BY <1>2
  <2> HIDE DEF l, a
  <2>2. QED
    BY ONLY <2>1
<1>10. Best(Current, a, n + 1, e.cap, e.num + e.cur)
  <2> HIDE DEF a
  <2>1. CASE Current.accept[s] > 0
    <3>1. e.cap = Current.accept[s] /\ e.num + e.cur = a + n
      BY <1>1, <1>5, <1>6, <2>1
    <3>2. Takes(Current, a, n, e.cap)
      BY <1>1, <2>1, <3>1 DEF Takes
    <3>3. QED
      BY <1>9, <3>1, <3>2 DEF Best
  <2>2. CASE ~ (Current.accept[s] > 0)
    <3>1. e.cap = m.cap /\ e.num + e.cur = m.num + m.cur
      BY <1>5, <2>2
    <3>2. ~ Accepts(Current, a, n)
      BY <1>8, <2>2
    <3>3. CASE m.cap = 0 /\ m.num + m.cur = a /\ \A j \in 0 .. n - 1 : ~ Accepts(Current, a, j)
      <4>1. \A j \in 0 .. (n + 1) - 1 : ~ Accepts(Current, a, j)
        BY <1>9, <3>2, <3>3
      <4>2. QED
        BY <3>1, <3>3, <4>1 DEF Best
    <3>4. ASSUME NEW k \in 0 .. n - 1, m.num + m.cur = a + k,
                 Takes(Current, a, k, m.cap),
                 \A j \in k + 1 .. n - 1 : ~ Accepts(Current, a, j)
          PROVE  Best(Current, a, n + 1, e.cap, e.num + e.cur)
      <4>1. \A j \in k + 1 .. (n + 1) - 1 : ~ Accepts(Current, a, j)
        BY <1>9, <3>2, <3>4
      <4>2. k \in 0 .. (n + 1) - 1
        BY <1>9
      <4>3. QED
        BY <3>1, <3>4, <4>1, <4>2 DEF Best
    <3>5. QED
      BY <1>1, <3>3, <3>4 DEF Best
  <2>3. QED
    BY <2>1, <2>2
<1>11. e.num + e.pos = a + n
  BY <1>1, <1>3, <1>7
<1>12. QED
  BY <1>1, <1>3, <1>7, <1>10, <1>11 DEF e

\* The end is taken for the end after a read that brought nothing.
LEMMA EndIsEof ==
  ASSUME Usual, NEW e, NEW f, Good(e, f), NEW k
  PROVE  AtEnd(Ready(e, k)) => Ready(e, k).eof
<1> DEFINE x == Ready(e, k)
<1>1. CASE Wants(e)
  <2> DEFINE r == Roomy(e)
  <2>1. DOMAIN r = Fields
    BY RoomyFacts DEF Usual, Good, Fit
  <2>2. \E b : x = [r EXCEPT !.end = @ + k, !.eof = (r.pos >= r.end + k), !.buf = b]
    BY <1>1, Zenon DEF Ready, Read
  <2> HIDE DEF r, x
  <2>3. PICK b : x = [r EXCEPT !.end = @ + k, !.eof = (r.pos >= r.end + k), !.buf = b]
    BY <2>2
  <2>4. x.end = r.end + k /\ x.eof = (r.pos >= r.end + k) /\ x.pos = r.pos
    BY <2>1, <2>3 DEF Fields
  <2>5. QED
    BY <2>4 DEF AtEnd, x
<1>2. CASE ~ Wants(e)
  BY <1>2 DEF Ready, AtEnd, Wants
<1>3. QED
  BY <1>1, <1>2

LEMMA CursorHalt ==
  ASSUME Usual, Inv, CursorInv, Serves(Current, Nat), Halt
  PROVE  CursorInv' /\ UNCHANGED Cursor!vars
<1> DEFINE s == fsm.state
           e == Entered(m, Current, s)
           a == m.num + m.txt
           l == Len(text) - a
<1>1. /\ pc = "fsm" /\ pc' = "scanned" /\ UNCHANGED <<text, fed, fsm, user, token>>
      /\ m' = e /\ DOMAIN Current.edge[s] = {}
  BY DEF Halt
<1>2. PICK n \in 0 .. l :
        /\ e.num + e.pos = a + n
        /\ Cursor!Reached(Current, text, a)[n] = {s}
        /\ Best(Current, a, n + 1, e.cap, e.num + e.cur)
  BY <1>1, CursorEntered
<1>3. Plain(e) /\ e.num = m.num /\ e.txt = m.txt
  BY <1>1, CursorEntered
<1>4. a < fed /\ a \in 0 .. Len(text) /\ Len(text) \in Nat
  <2>1. a < fed
    BY <1>1 DEF CursorInv, Scanning
  <2>2. a \in Nat
    BY CursorPlaces
  <2> HIDE DEF a
  <2>3. QED
    BY <2>1, <2>2, CursorPlaces
<1> HIDE DEF e
<1>5. ASSUME NEW j \in n + 1 .. l PROVE Cursor!Reached(Current, text, a)[j] = {}
  <2>1. PICK i \in Nat : i = n + 1
    BY <1>4
  <2>2. i \in 1 .. l /\ i - 1 = n /\ j \in i .. l
    BY <1>4, <2>1
  <2> HIDE DEF s, a
  <2>3. Cursor!Reached(Current, text, a)[i] = {}
    BY <1>1, <1>2, <1>4, <2>2, ReachedNext
  <2>4. QED
    BY <1>4, <2>2, <2>3, DeadEnd
<1>6. Halted(Current, e)
  BY <1>2, <1>3, <1>5 DEF Halted
<1>7. e.num + e.txt = Consumed /\ e.num + e.txt < fed
  BY <1>1, <1>3, <1>4 DEF Consumed
<1>8. DOMAIN fsm' = {"state", "bol", "nul"} /\ fsm'.nul = FALSE
  BY <1>1 DEF CursorInv
<1>9. QED
  BY <1>1, <1>3, <1>6, <1>7, <1>8, CursorStays

LEMMA CursorStep ==
  ASSUME Usual, Inv, CursorInv, Serves(Current, Nat), Step
  PROVE  CursorInv' /\ UNCHANGED Cursor!vars
<1> DEFINE s == fsm.state
           e == Entered(m, Current, s)
           a == m.num + m.txt
           l == Len(text) - a
           R == Cursor!Reached(Current, text, a)
<1>1. PICK k \in Chunks(m) :
        \E x \in {Ready(e, k)} :
        \E c \in {Char(x, Wants(m))} :
        \E y \in {Metas([x EXCEPT !.pos = IF AtEnd(x) THEN @ ELSE @ + 1],
                        Current, s, c)} :
           /\ fed' = fed + k
           /\ m' = y
           /\ IF c \in DOMAIN Current.edge[s]
              THEN /\ fsm' = [fsm EXCEPT !.state = Current.edge[s][c]]
                   /\ UNCHANGED pc
              ELSE pc' = "scanned" /\ UNCHANGED fsm
  BY DEF Step
<1>2. pc = "fsm" /\ UNCHANGED <<text, user, token>>
  BY DEF Step
<1> DEFINE x == Ready(e, k)
           c == Char(x, Wants(m))
           z == [x EXCEPT !.pos = IF AtEnd(x) THEN x.pos ELSE x.pos + 1]
           y == Metas(z, Current, s, c)
<1>3. /\ m' = y /\ fed' = fed + k
      /\ \/ /\ c \in DOMAIN Current.edge[s]
            /\ fsm' = [fsm EXCEPT !.state = Current.edge[s][c]]
            /\ pc' = pc
         \/ c \notin DOMAIN Current.edge[s] /\ pc' = "scanned" /\ fsm' = fsm
  BY <1>1
<1>4. /\ Good(e, fed) /\ SameBuffer(m, e) /\ Plain(e) /\ DOMAIN e = Fields
      /\ e.pos = m.pos /\ e.txt = m.txt /\ e.num = m.num
      /\ s \in DOMAIN Current.edge
  BY <1>2, CursorEntered
<1>5. PICK n \in 0 .. l :
        /\ e.num + e.pos = a + n /\ R[n] = {s}
        /\ Best(Current, a, n + 1, e.cap, e.num + e.cur)
  BY <1>2, CursorEntered
<1>6. a < fed /\ a \in 0 .. Len(text) /\ Len(text) \in Nat /\ fed \in Nat
  <2>1. a < fed
    BY <1>2 DEF CursorInv, Scanning
  <2>2. a \in Nat
    BY CursorPlaces
  <2> HIDE DEF a
  <2>3. QED
    BY <2>1, <2>2, CursorPlaces
<1>7. k \in Chunks(e) /\ e.chr = "nul" /\ (Wants(m) <=> Wants(e))
      /\ (e.eof => fed = Len(text))
  BY <1>2, <1>4, SameChunks DEF Inv, SameBuffer, Usual
<1>8. Carried(e, x) /\ Plain(x) /\ DOMAIN x = Fields
  <2> HIDE DEF e
  <2>1. Carried(e, x) /\ (Counts(e) => Counts(x))
    BY <1>4, <1>6, CursorPlaces, ReadyCarries
  <2> HIDE DEF x
  <2>2. QED
    BY <1>4, <2>1 DEF Carried, Plain
<1>9. /\ Good(x, fed + k) /\ fed + k \in 0 .. Len(text) /\ x.chr = "nul"
      /\ x.eof => fed + k = Len(text)
      /\ fed <= fed + k
  <2> HIDE DEF e
  <2>1. /\ Good(x, fed + k) /\ fed + k \in 0 .. Len(text) /\ x.chr = "nul"
        /\ x.eof => fed + k = Len(text)
    BY <1>4, <1>7, ReadyGood DEF Inv, Usual
  <2>2. k \in Nat
    <3>1. Wants(e) => k \in Nat
      BY <1>4, <1>7, DeliveryFacts DEF Inv, Usual
    <3>2. ~ Wants(e) => k = 0
      BY <1>7 DEF Chunks
    <3>3. QED
      BY <3>1, <3>2
  <2> HIDE DEF x
  <2>3. QED
    BY <2>1, <2>2, <1>6
<1>10. AtEnd(x) => x.eof
  BY <1>4, EndIsEof
<1>11. /\ x.num \in Nat /\ x.txt \in Nat /\ x.pos \in Nat /\ x.end \in Nat
       /\ x.cur \in Nat /\ fed + k = x.num + x.end /\ x.pos <= x.end
       /\ x.len \in Nat
  BY <1>9 DEF Good, Fit, Holds
<1> HIDE DEF e
<1>12. /\ x.num + x.txt = a /\ x.num + x.pos = a + n
       /\ x.num + x.cur = e.num + e.cur /\ x.cap = e.cap
  BY <1>4, <1>5, <1>8 DEF Carried
<1> HIDE DEF x
<1>13. DOMAIN z = Fields /\ z.num = x.num /\ z.txt = x.txt /\ z.cur = x.cur
       /\ z.cap = x.cap /\ z.pos = (IF AtEnd(x) THEN x.pos ELSE x.pos + 1)
       /\ z.lpb = x.lpb /\ z.lno = x.lno /\ z.cno = x.cno /\ z.ded = x.ded
       /\ z.mrk = x.mrk
  BY <1>8 DEF Fields
<1> HIDE DEF z, c
<1>14. y = z
  <2> DEFINE edges == Current.meta[s]
  <2>1. DOMAIN edges = {} /\ edges = <<>>
    BY <1>4 DEF Serves
  <2> HIDE DEF edges
  <2>2. {i \in DOMAIN edges : MetaHolds(edges[i].label, z, c)} = {}
    BY <2>1
  <2>3. ~ (fsm.bol /\ \E i \in DOMAIN edges : edges[i].label \in {"DED", "IND"})
    BY <2>1
  <2>4. QED
    BY <2>2, <2>3, Zenon DEF Metas, edges
<1> HIDE DEF y
<1>15. Plain(z)
  BY <1>8, <1>13 DEF Plain, Counts
<1>16. z.num + z.txt = Consumed /\ z.num + z.txt < fed + k
       /\ z.num + z.txt = a /\ z.num + z.cur = e.num + e.cur
  <2>1. a = Consumed
    BY <1>2 DEF Consumed
  <2>2. z.num + z.txt = a
    BY <1>12, <1>13
  <2> HIDE DEF a
  <2>3. QED
    BY <1>6, <1>9, <1>12, <1>13, <2>1, <2>2
\* The character read is the next one of the text, or its end.
<1>17. /\ ~ AtEnd(x) => n + 1 \in 1 .. l /\ c = text[a + (n + 1)]
       /\ AtEnd(x) => n = l /\ c = "eof"
  <2>1. AtEnd(x) <=> x.pos >= x.end
    BY DEF AtEnd
  <2>2. ASSUME ~ AtEnd(x) PROVE n + 1 \in 1 .. l /\ c = text[a + (n + 1)]
    <3>1. x.pos \in 0 .. x.end - 1
      BY <1>11, <2>1, <2>2
    <3>2. At(x, x.pos) = text[x.num + x.pos + 1] /\ At(x, x.pos) = x.buf[x.pos]
      BY <1>9, <3>1 DEF Good, Holds, At
    <3>3. x.num + x.pos + 1 = a + (n + 1) /\ a + (n + 1) \in 1 .. Len(text)
          /\ n + 1 \in 1 .. l
      <4> DEFINE q == x.num + x.pos
      <4>1. q \in Nat /\ q < fed + k /\ q = a + n
        BY <1>11, <1>12, <3>1
      <4>2. fed + k <= Len(text) /\ fed + k \in Nat
        BY <1>9
      <4> HIDE DEF q, a
      <4>3. q + 1 = a + (n + 1) /\ a + (n + 1) \in 1 .. Len(text) /\ n + 1 \in 1 .. l
        BY <1>6, <4>1, <4>2
      <4>4. QED
        BY <4>3 DEF q
    <3> DEFINE i == a + (n + 1)
    <3>4. x.buf[x.pos] = text[i] /\ AsChar(text[i]) = text[i]
      BY <3>2, <3>3 DEF CursorInv
    <3> HIDE DEF i
    <3>5. c = text[i]
      BY <2>2, <3>4 DEF c, Char
    <3>6. QED
      BY <3>3, <3>5 DEF i
  <2>3. ASSUME AtEnd(x) PROVE n = l /\ c = "eof"
    <3>1. x.pos = x.end /\ fed + k = Len(text)
      BY <1>9, <1>10, <1>11, <2>1, <2>3
    <3>2. c = "eof"
      BY <2>3 DEF c, Char
    <3>3. a + n = Len(text)
      BY <1>11, <1>12, <3>1
    <3> HIDE DEF a
    <3>4. QED
      BY <1>6, <3>2, <3>3
  <2>4. QED
    BY <2>2, <2>3
<1>18. "eof" \notin DOMAIN Current.edge[s]
       /\ \A d \in DOMAIN Current.edge[s] : Current.edge[s][d] \in DOMAIN Current.edge
  BY <1>4 DEF Serves
<1>19. ASSUME ~ AtEnd(x)
       PROVE  /\ c \in DOMAIN Current.edge[s] => R[n + 1] = {Current.edge[s][c]}
              /\ c \notin DOMAIN Current.edge[s] => R[n + 1] = {}
  <2>1. PICK i \in Nat : i = n + 1
    BY <1>6
  <2>2. i \in 1 .. l /\ i - 1 = n /\ c = text[a + i]
    BY <1>17, <1>19, <2>1
  <2> HIDE DEF s
  <2>3. /\ c \in DOMAIN Current.edge[s] => R[i] = {Current.edge[s][c]}
        /\ c \notin DOMAIN Current.edge[s] => R[i] = {}
    BY <1>5, <1>6, <2>2, ReachedNext
  <2>4. QED
    BY <2>1, <2>3
\* The edge is followed.
<1>20. CASE c \in DOMAIN Current.edge[s] /\ pc' = "fsm"
            /\ fsm' = [fsm EXCEPT !.state = Current.edge[s][c]]
  <2>1. ~ AtEnd(x)
    BY <1>17, <1>18, <1>20
  <2>2. /\ n + 1 \in 0 .. l /\ z.num + z.pos = a + (n + 1)
        /\ R[n + 1] = {Current.edge[s][c]}
        /\ Current.edge[s][c] \in DOMAIN Current.edge
    <3>1. n + 1 \in 0 .. l
      BY <1>17, <2>1
    <3>2. z.num + z.pos = a + (n + 1)
      <4>1. z.num + z.pos = (x.num + x.pos) + 1
        BY <1>11, <1>13, <2>1
      <4> HIDE DEF a
      <4>2. QED
        BY <1>6, <1>12, <4>1
    <3>3. QED
      BY <1>18, <1>19, <1>20, <2>1, <3>1, <3>2
  <2>3. Best(Current, a, n + 1, z.cap, z.num + z.cur)
    BY <1>5, <1>12, <1>13, <1>16
  <2>4. Running(Current, z, Current.edge[s][c])
    <3>1. z.num + z.txt = a
      BY <1>16
    <3> HIDE DEF a, R
    <3> USE DEF R
    <3>2. QED
      BY <2>2, <2>3, <3>1 DEF Running
  <2>5. /\ fsm'.state = Current.edge[s][c]
        /\ DOMAIN fsm' = {"state", "bol", "nul"} /\ fsm'.nul = FALSE
    BY <1>20 DEF CursorInv
  <2>6. QED
    BY <1>2, <1>3, <1>14, <1>15, <1>16, <1>20, <2>4, <2>5, CursorStays
\* The automaton halts.
<1>21. CASE c \notin DOMAIN Current.edge[s] /\ pc' = "scanned" /\ fsm' = fsm
  <2>1. ASSUME NEW j \in n + 1 .. l PROVE R[j] = {}
    <3>1. ~ AtEnd(x)
      BY <1>6, <1>17
    <3>2. PICK i \in Nat : i = n + 1
      BY <1>6
    <3>3. i \in 1 .. l /\ j \in i .. l /\ R[i] = {}
      BY <1>17, <1>19, <1>21, <3>1, <3>2
    <3> HIDE DEF a
    <3>4. QED
      BY <1>6, <3>3, DeadEnd
  <2>2. Best(Current, a, n + 1, z.cap, z.num + z.cur)
    BY <1>5, <1>12, <1>13, <1>16
  <2>3. Halted(Current, z)
    <3>1. z.num + z.txt = a
      BY <1>16
    <3> HIDE DEF a, R
    <3> USE DEF R
    <3>2. QED
      BY <2>1, <2>2, <3>1 DEF Halted
  <2>4. DOMAIN fsm' = {"state", "bol", "nul"} /\ fsm'.nul = FALSE
    BY <1>21 DEF CursorInv
  <2>5. QED
    BY <1>2, <1>3, <1>14, <1>15, <1>16, <1>21, <2>3, <2>4, CursorStays
<1>22. QED
  BY <1>2, <1>3, <1>20, <1>21

LEMMA CursorScanEnd ==
  ASSUME Usual, Inv, CursorInv, Serves(Current, Nat), ScanEnd
  PROVE  CursorInv' /\ UNCHANGED Cursor!vars
<1> DEFINE a == m.num + m.txt
           l == Len(text) - a
           p == Current
           t == IF m.cap = 0 THEN m.txt ELSE m.cur
           y == [m EXCEPT !.ded = IF m.ded > 0 THEN m.ded - 1 ELSE m.ded,
                          !.cur = IF m.cap = 0 THEN m.txt ELSE m.cur,
                          !.len = (IF m.cap = 0 THEN m.txt ELSE m.cur) - m.txt]
           w == [y EXCEPT !.pos = y.cur]
<1>1. Restopped(m) = m /\ m.ded = 0 /\ m.mrk = FALSE /\ fsm.nul = FALSE
  BY DEF CursorInv, Plain, Restopped
<1>2. /\ pc = "scanned" /\ pc' = "deliver" /\ UNCHANGED <<text, fsm, user, token>>
      /\ \/ /\ y.len = 0
            /\ \E k \in Chunks(w) :
                 m' = [SetCurrent(Ready(w, k)) EXCEPT !.cap = 0] /\ fed' = fed + k
         \/ /\ y.len # 0
            /\ m' = IF y.len = 0 /\ y.cur = y.end THEN y ELSE SetCurrent(y)
            /\ fed' = fed
  <2> DEFINE r == Restopped(m)
             ry == [r EXCEPT !.ded = IF r.ded > 0 THEN r.ded - 1 ELSE r.ded,
                             !.cur = IF r.cap = 0 THEN r.txt ELSE r.cur,
                             !.len = (IF r.cap = 0 THEN r.txt ELSE r.cur) - r.txt]
             rw == [ry EXCEPT !.pos = ry.cur]
  <2>1. /\ pc = "scanned" /\ pc' = "deliver" /\ UNCHANGED <<text, fsm, user, token>>
        /\ \/ /\ ry.len = 0 /\ ~ fsm.nul
              /\ \E k \in Chunks(rw) :
                   m' = [SetCurrent(Ready(rw, k)) EXCEPT !.cap = 0] /\ fed' = fed + k
           \/ /\ ~ (ry.len = 0 /\ ~ fsm.nul)
              /\ m' = IF ry.len = 0 /\ ry.cur = ry.end THEN ry ELSE SetCurrent(ry)
              /\ fed' = fed
    BY DEF ScanEnd
  <2>2. r = m
    BY <1>1
  <2> HIDE DEF r
  <2>3. ry = y /\ rw = w
    BY <2>2
  <2> HIDE DEF y, w, ry, rw
  <2>4. QED
    BY <1>1, <2>1, <2>3
<1>3. /\ DOMAIN m = Fields /\ m.num \in Nat /\ m.txt \in Nat /\ m.cur \in Nat
      /\ m.end \in Nat /\ fed \in Nat /\ fed = m.num + m.end /\ fed <= Len(text)
      /\ Len(text) \in Nat
  BY CursorPlaces
<1>4. a < fed
  BY <1>2 DEF CursorInv, Scanning
<1>5. PICK n \in 0 .. l :
        /\ Best(p, a, n + 1, m.cap, m.num + m.cur)
        /\ \A j \in n + 1 .. l : Cursor!Reached(p, text, a)[j] = {}
  BY <1>2 DEF CursorInv, Halted
<1>6. \A j \in n + 1 .. l : ~ Accepts(p, a, j)
  BY <1>5 DEF Accepts
<1>7. n \in Nat /\ l \in Nat /\ n <= l
  <2> HIDE DEF a
  <2>1. a \in 0 .. Len(text)
    BY <1>3, <1>4 DEF a
  <2>2. QED
    BY <1>3, <2>1
<1>8. /\ DOMAIN y = Fields /\ y.cur = t /\ y.len = t - m.txt
      /\ y.num = m.num /\ y.txt = m.txt /\ y.end = m.end
      /\ y.cap = m.cap /\ y.ded = 0 /\ y.mrk = FALSE /\ y.lno = m.lno
      /\ y.cno = m.cno /\ y.lpb = m.lpb /\ y.eof = m.eof
  BY <1>1, <1>3 DEF Fields
<1> HIDE DEF y
<1>9. /\ DOMAIN w = Fields /\ w.cur = y.cur /\ w.pos = y.cur /\ w.len = y.len
      /\ w.num = y.num /\ w.txt = y.txt /\ w.end = y.end /\ w.cap = y.cap
      /\ w.ded = 0 /\ w.mrk = FALSE /\ w.lno = m.lno /\ w.cno = m.cno
      /\ w.lpb = m.lpb
  BY <1>8 DEF Fields
<1> HIDE DEF w, p
<1>10. Counts(m)
  BY DEF CursorInv, Plain
\* What the scan leaves behind: no rule, or one that takes k characters.
<1>11. \/ t = m.txt /\ \A j \in 1 .. l : ~ Accepts(p, a, j)
       \/ \E k \in 1 .. l : /\ m.cap > 0 /\ t = m.txt + k /\ Takes(p, a, k, m.cap)
                            /\ \A j \in k + 1 .. l : ~ Accepts(p, a, j)
  <2>1. CASE /\ m.cap = 0 /\ m.num + m.cur = a
             /\ \A j \in 0 .. (n + 1) - 1 : ~ Accepts(p, a, j)
    <3>1. \A j \in 1 .. l : j \in 0 .. (n + 1) - 1 \/ j \in n + 1 .. l
      <4> HIDE DEF l
      <4>1. QED
        BY <1>7
    <3>2. QED
      BY <1>6, <2>1, <3>1
  <2>2. ASSUME NEW k \in 0 .. (n + 1) - 1, m.num + m.cur = a + k,
               Takes(p, a, k, m.cap),
               \A j \in k + 1 .. (n + 1) - 1 : ~ Accepts(p, a, j)
        PROVE  \/ t = m.txt /\ \A j \in 1 .. l : ~ Accepts(p, a, j)
               \/ \E i \in 1 .. l :
                    /\ m.cap > 0 /\ t = m.txt + i /\ Takes(p, a, i, m.cap)
                    /\ \A j \in i + 1 .. l : ~ Accepts(p, a, j)
    <3>1. m.cap > 0 /\ m.cap # 0
      BY <2>2 DEF Takes
    <3>2. k \in Nat /\ k <= n
      BY <1>7
    <3>3. m.cur = m.txt + k
      <4> DEFINE n1 == m.num
                 n2 == m.txt
                 n3 == m.cur
      <4>1. /\ n1 \in Nat /\ n2 \in Nat /\ n3 \in Nat
            /\ n1 + n3 = n1 + n2 + k
        BY <1>3, <2>2
      <4> HIDE DEF n1, n2, n3
      <4>2. n3 = n2 + k
        BY ONLY <4>1, <3>2
      <4>3. QED
        BY <4>2 DEF n1, n2, n3
    <3>4. \A j \in k + 1 .. l : j \in k + 1 .. (n + 1) - 1 \/ j \in n + 1 .. l
      <4> HIDE DEF l
      <4>1. QED
        BY <1>7, <3>2
    <3>5. \A j \in k + 1 .. l : ~ Accepts(p, a, j)
      BY <1>6, <2>2, <3>4
    <3>6. CASE k = 0
      <4>1. t = m.txt
        BY <1>3, <3>3, <3>6
      <4>2. k + 1 = 1
        BY <3>6
      <4>3. QED
        BY <3>5, <4>1, <4>2
    <3>7. CASE k # 0
      <4>1. k \in 1 .. l
        <5> HIDE DEF l
        <5>1. QED
          BY <1>7, <3>2, <3>7
      <4>2. QED
        BY <2>2, <3>1, <3>3, <3>5, <4>1
    <3>8. QED
      BY <3>6, <3>7
  <2>3. QED
    BY <1>5, <2>1, <2>2 DEF Best
<1>12. DOMAIN fsm' = {"state", "bol", "nul"} /\ fsm'.nul = FALSE
  BY <1>2 DEF CursorInv
<1>13. ASSUME NEW v, m' = v, fed' = fed, DOMAIN v = Fields, v.num = m.num,
              v.txt = m.txt, v.ded = 0, v.mrk = FALSE, v.lno = m.lno,
              v.cno = m.cno, v.lpb = m.lpb, Matched(p, v)
       PROVE  CursorInv' /\ UNCHANGED Cursor!vars
  <2>1. Plain(v)
    BY <1>10, <1>13 DEF Plain, Counts
  <2>2. v.num + v.txt = Consumed /\ v.num + v.txt < fed
    BY <1>2, <1>4, <1>13 DEF Consumed
  <2>3. QED
    BY <1>2, <1>12, <1>13, <2>1, <2>2, CursorStays DEF p
\* The match is empty and is rejected; there is text behind it.
<1>14. CASE t = m.txt /\ \A j \in 1 .. l : ~ Accepts(p, a, j)
  <2>1. y.len = 0 /\ w.pos = m.txt /\ w.cur = m.txt
    BY <1>3, <1>8, <1>9, <1>14
  <2>2. PICK k \in Chunks(w) :
          m' = [SetCurrent(Ready(w, k)) EXCEPT !.cap = 0] /\ fed' = fed + k
    BY <1>2, <2>1
  <2>3. m.txt < m.end
    BY <1>3, <1>4
  <2>4. ~ Wants(w)
    BY <1>3, <1>8, <1>9, <2>1, <2>3 DEF Wants
  <2>5. k = 0 /\ Ready(w, k) = w
    BY <2>2, <2>4 DEF Chunks, Ready
  <2> DEFINE g == IF w.cur > 0 THEN w.buf[w.cur - 1] ELSE "unk"
             v == [[w EXCEPT !.pos = w.cur, !.got = g] EXCEPT !.cap = 0]
  <2>6. m' = v /\ fed' = fed
    <3>1. m' = [SetCurrent(w) EXCEPT !.cap = 0] /\ fed' = fed + 0
      BY <2>2, <2>5
    <3>2. SetCurrent(w) = [w EXCEPT !.pos = w.cur, !.got = g]
      BY DEF SetCurrent
    <3> HIDE DEF g
    <3>3. QED
      BY <1>3, <3>1, <3>2
  <2> HIDE DEF g
  <2>7. /\ DOMAIN v = Fields /\ v.num = w.num /\ v.txt = w.txt /\ v.ded = 0
        /\ v.mrk = FALSE /\ v.lno = w.lno /\ v.cno = w.cno /\ v.lpb = w.lpb
        /\ v.cap = 0 /\ v.pos = w.cur /\ v.cur = w.cur /\ v.len = w.len
    BY <1>9 DEF Fields
  <2> HIDE DEF v
  <2>8. /\ v.num = m.num /\ v.txt = m.txt /\ v.lno = m.lno /\ v.cno = m.cno
        /\ v.lpb = m.lpb /\ v.pos = m.txt /\ v.cur = m.txt /\ v.len = 0
    BY <1>8, <1>9, <2>1, <2>7
  <2>9. Matched(p, v)
    <3>1. v.len + 1 = 1 /\ v.len \in 0 .. l /\ v.cur = v.txt + v.len
      <4> HIDE DEF l
      <4>1. QED
        BY <1>3, <1>7, <2>8
    <3>2. QED
      BY <1>14, <2>7, <2>8, <3>1 DEF Matched
  <2>10. QED
    BY <1>13, <2>6, <2>7, <2>8, <2>9
\* The match is taken.
<1>15. ASSUME NEW k \in 1 .. l, m.cap > 0, t = m.txt + k, Takes(p, a, k, m.cap),
              \A j \in k + 1 .. l : ~ Accepts(p, a, j)
       PROVE  CursorInv' /\ UNCHANGED Cursor!vars
  <2>1. y.len = k /\ k # 0 /\ k \in Nat /\ k \in 0 .. l
    <3>1. k \in Nat /\ k # 0 /\ k \in 0 .. l
      <4> HIDE DEF l
      <4>1. QED
        BY <1>7
    <3>2. QED
      BY <1>3, <1>8, <1>15, <3>1
  <2>2. m' = SetCurrent(y) /\ fed' = fed
    BY <1>2, <2>1
  <2> DEFINE g == IF y.cur > 0 THEN y.buf[y.cur - 1] ELSE "unk"
             v == [y EXCEPT !.pos = y.cur, !.got = g]
  <2>3. m' = v
    BY <2>2 DEF SetCurrent
  <2> HIDE DEF g
  <2>4. /\ DOMAIN v = Fields /\ v.num = y.num /\ v.txt = y.txt /\ v.ded = 0
        /\ v.mrk = FALSE /\ v.lno = y.lno /\ v.cno = y.cno /\ v.lpb = y.lpb
        /\ v.cap = y.cap /\ v.pos = y.cur /\ v.cur = y.cur /\ v.len = y.len
    BY <1>8 DEF Fields
  <2> HIDE DEF v
  <2>5. /\ v.num = m.num /\ v.txt = m.txt /\ v.lno = m.lno /\ v.cno = m.cno
        /\ v.lpb = m.lpb /\ v.cap = m.cap /\ v.pos = v.cur
        /\ v.cur = v.txt + v.len /\ v.len = k
    BY <1>8, <1>15, <2>1, <2>4
  <2>6. Matched(p, v)
    <3>1. v.len > 0 /\ v.cap # 0
      BY <1>15, <2>1, <2>5
    <3>2. QED
      BY <1>15, <2>1, <2>5, <3>1 DEF Matched
  <2>7. QED
    BY <1>13, <2>2, <2>3, <2>4, <2>5, <2>6
<1>16. QED
  BY <1>11, <1>14, <1>15

\* What yytext points to is the part of the text that was matched.
LEMMA PartIsText ==
  ASSUME NEW x, NEW f \in Nat, Good(x, f), f <= Len(text), Len(text) \in Nat
  PROVE  LET a == x.num + x.txt IN
         [i \in 1 .. x.len |-> x.buf[x.txt + i - 1]] = SubSeq(text, a + 1, a + x.len)
<1> DEFINE u == x.num
           w == x.txt
           n == x.len
           e == x.end
           b == x.buf
           a == u + w
           sub == SubSeq(text, a + 1, a + n)
           S == {text[i] : i \in a + 1 .. a + n}
<1>1. u \in Nat /\ w \in Nat /\ n \in Nat /\ e \in Nat /\ w + n <= e
  BY DEF Good, Fit, Holds
<1>2. \A j \in 0 .. e - 1 : j # w + n => b[j] = text[u + j + 1]
  BY DEF Good, Holds, At
<1> HIDE DEF u, w, n, e, b
<1>3. a \in Nat /\ a + 1 \in Int /\ a + n \in Int
      /\ (a + n) - (a + 1) + 1 = n /\ (a + 1 <= a + n <=> n > 0)
  BY <1>1
<1>4. /\ sub \in Seq(S)
      /\ Len(sub) = IF a + 1 <= a + n THEN (a + n) - (a + 1) + 1 ELSE 0
      /\ \A i \in 1 .. (a + n) - (a + 1) + 1 : sub[i] = text[(a + 1) + i - 1]
  <2>1. \A i \in a + 1 .. a + n : text[i] \in S
    OBVIOUS
  <2> HIDE DEF S, a
  <2>2. QED
    BY <1>3, <2>1, SubSeqProperties
<1>5. Len(sub) = n
  BY <1>1, <1>3, <1>4
<1>6. sub = [i \in 1 .. n |-> sub[i]]
  <2> HIDE DEF sub, S
  <2>1. QED
    BY <1>4, <1>5
<1>7. ASSUME NEW i \in 1 .. n PROVE sub[i] = b[w + i - 1]
  <2>1. /\ w + i - 1 \in 0 .. e - 1 /\ w + i - 1 # w + n
        /\ u + (w + i - 1) + 1 = (a + 1) + i - 1
    BY <1>1
  <2>2. b[w + i - 1] = text[u + (w + i - 1) + 1]
    BY <1>2, <2>1
  <2>3. sub[i] = text[(a + 1) + i - 1]
    BY <1>3, <1>4
  <2>4. QED
    BY <2>1, <2>2, <2>3
<1> HIDE DEF sub
<1>8. [i \in 1 .. n |-> b[w + i - 1]] = sub
  BY <1>6, <1>7
<1>9. QED
  BY <1>8 DEF u, w, n, b, sub

\* What the cursor takes is the match, when there is one.
LEMMA LongestMatch ==
  ASSUME NEW p, NEW a, NEW l, l = Len(text) - a, Len(text) \in Nat, a \in 0 .. Len(text),
         NEW n \in Nat, n \in 0 .. l, NEW rule,
         \A j \in n + 1 .. l : ~ Accepts(p, a, j)
  PROVE  /\ n = 0 => Cursor!Accepted(p, text, a) = {}
         /\ n > 0 /\ Takes(p, a, n, rule) =>
              /\ Cursor!Accepted(p, text, a) # {}
              /\ Cursor!Longest(p, text, a) = n
              /\ Cursor!RuleOf(p, text, a, n) = rule
<1> DEFINE A == Cursor!Accepted(p, text, a)
<1>1. A = {j \in 1 .. l : Accepts(p, a, j)}
  BY DEF Cursor!Accepted, Accepts
<1>2. l \in Nat
  OBVIOUS
<1>3. Cursor!Longest(p, text, a) = CHOOSE j \in A : \A k \in A : k <= j
  BY DEF Cursor!Longest
<1> HIDE DEF A
<1>4. \A j \in A : j \in 1 .. n
  BY <1>1, <1>2
<1>5. ASSUME n > 0, Takes(p, a, n, rule)
      PROVE  /\ A # {} /\ Cursor!Longest(p, text, a) = n
             /\ Cursor!RuleOf(p, text, a, n) = rule
  <2>1. PICK s : Cursor!Reached(p, text, a)[n] = {s} /\ p.accept[s] = rule /\ rule > 0
    BY <1>5 DEF Takes
  <2>2. n \in A
    BY <1>1, <1>2, <1>5, <2>1 DEF Accepts
  <2>3. Cursor!Longest(p, text, a) = n
    <3>1. \A k \in A : k <= n
      BY <1>4
    <3>2. \A j \in A : n <= j => j = n
      BY <1>4
    <3>3. QED
      BY <1>3, <2>2, <3>1, <3>2
  <2>4. (CHOOSE t \in {s} : TRUE) = s
    OBVIOUS
  <2>5. Cursor!RuleOf(p, text, a, n) = p.accept[s]
    BY <2>1, <2>4 DEF Cursor!RuleOf
  <2>6. QED
    BY <2>1, <2>2, <2>3, <2>5
<1>6. n = 0 => A = {}
  <2>1. 1 .. 0 = {}
    OBVIOUS
  <2>2. QED
    BY <1>4, <2>1
<1>7. QED
  BY <1>5, <1>6 DEF A

\* The delivery of a token is a match of the cursor, or its failure.
LEMMA CursorDeliver ==
  ASSUME Inv, CursorInv, Serves(Current, Nat), Deliver
  PROVE  CursorInv' /\ (Cursor!Match \/ Cursor!Fail)
<1> DEFINE t == Terminated(m)
           x == Counted(t)
           part == [i \in 1 .. x.len |-> x.buf[x.txt + i - 1]]
           a == m.num + m.txt
           l == Len(text) - a
           p == Current
<1>1. /\ pc = "deliver" /\ m' = x /\ UNCHANGED <<text, fed, fsm>>
      /\ token' = [kind |-> CASE x.cap > 0 -> "rule"
                              [] x.cap = 0 /\ ~ AtEnd(x) -> "error"
                              [] OTHER -> "end",
                   rule |-> x.cap, text |-> part, line |-> x.lno, col |-> x.cno]
      /\ user' = IF x.cap > 0 THEN Act(user, x.cap, part) ELSE user
      /\ pc' = IF x.cap > 0 THEN "loop" ELSE "done"
  BY DEF Deliver
<1>2. /\ DOMAIN m = Fields /\ Good(m, fed) /\ m.num \in Nat /\ m.txt \in Nat
      /\ m.pos \in Nat /\ m.cur \in Nat /\ m.end \in Nat /\ fed \in Nat
      /\ fed <= Len(text) /\ Len(text) \in Nat /\ fed = m.num + m.end
      /\ m.chr = "nul" /\ Full
  BY <1>1, CursorPlaces DEF Inv
<1>3. /\ a < fed /\ m.pos = m.cur /\ m.cur = m.txt + m.len
      /\ m.len \in 0 .. l
      /\ IF m.cap = 0 THEN m.len = 0 ELSE m.len > 0 /\ Takes(p, a, m.len, m.cap)
      /\ \A j \in m.len + 1 .. l : ~ Accepts(p, a, j)
  BY <1>1 DEF CursorInv, Scanning, Matched
<1>4. Good(t, fed) /\ t.end = m.end
  BY <1>2, TerminatedGood DEF Full
<1>5. SamePlaces(m, t) /\ DOMAIN t = Fields
  <2> DEFINE b == [m.buf EXCEPT ![m.txt + m.len] = "nul"]
             c == m.buf[m.txt + m.len]
  <2>1. t = [m EXCEPT !.chr = c, !.buf = b]
    BY <1>2 DEF Terminated
  <2> HIDE DEF t, b, c
  <2>2. QED
    BY <1>2, <2>1 DEF SamePlaces, Fields
<1>6. Counts(t)
  BY <1>2, <1>5, SamePlacesCarry DEF CursorInv, Plain
<1> HIDE DEF t
<1>7. Good(x, fed) /\ Counts(x) /\ x.end = t.end
  BY <1>2, <1>4, <1>6, CountedGood, CountedText
<1>8. /\ DOMAIN x = Fields /\ x.lpb = t.txt
      /\ x.num = t.num /\ x.txt = t.txt /\ x.len = t.len /\ x.cap = t.cap
      /\ x.pos = t.pos /\ x.cur = t.cur /\ x.ded = t.ded /\ x.mrk = t.mrk
  BY <1>5, CountedFacts DEF Fields
<1> HIDE DEF x
<1>9. /\ t.num = m.num /\ t.txt = m.txt /\ t.len = m.len /\ t.cap = m.cap
      /\ t.pos = m.pos /\ t.cur = m.cur /\ t.ded = m.ded /\ t.mrk = m.mrk
  BY <1>5 DEF SamePlaces, Fields
<1>10. x.lno = Cursor!LineAt(text, a) /\ x.cno = Cursor!ColumnAt(text, a)
  BY <1>7, <1>8, <1>9 DEF Counts
<1>11. part = SubSeq(text, a + 1, a + m.len)
  <2>1. part = SubSeq(text, (x.num + x.txt) + 1, (x.num + x.txt) + x.len)
    BY <1>2, <1>7, PartIsText
  <2> HIDE DEF part
  <2>2. QED
    BY <1>8, <1>9, <2>1
<1>12. Plain(x)
  BY <1>7, <1>8, <1>9 DEF Plain, CursorInv
<1>13. a \in Nat /\ a \in 0 .. Len(text) /\ m.len \in Nat /\ l \in Nat
  <2>1. a \in Nat
    BY <1>2
  <2> HIDE DEF a
  <2>2. a \in 0 .. Len(text) /\ l \in Nat
    BY <1>2, <1>3, <2>1
  <2>3. m.len \in Nat
    BY <1>3, <2>2
  <2>4. QED
    BY <2>1, <2>2, <2>3
<1>14. a = Consumed
  BY <1>1 DEF Consumed
<1>15. Cursor!Lexing /\ Cursor!Current = p
  BY <1>1 DEF CursorInv, Cursor!Lexing, Cursor!Current, Current
<1>16. /\ m.len = 0 => Cursor!Accepted(p, text, a) = {}
       /\ m.len > 0 /\ Takes(p, a, m.len, m.cap) =>
            /\ Cursor!Accepted(p, text, a) # {}
            /\ Cursor!Longest(p, text, a) = m.len
            /\ Cursor!RuleOf(p, text, a, m.len) = m.cap
  <2> DEFINE n == m.len
  <2>1. n \in Nat /\ n \in 0 .. l /\ \A j \in n + 1 .. l : ~ Accepts(p, a, j)
    BY <1>3, <1>13
  <2> HIDE DEF n, a, p
  <2>2. QED
    BY <1>2, <1>13, <2>1, LongestMatch DEF n
<1>17. Consumed' = x.num + x.cur
  BY <1>1 DEF Consumed
<1>18. Consumed' = a + m.len
  <2> DEFINE n1 == m.num
             n2 == m.txt
             n3 == m.len
  <2>1. n1 \in Nat /\ n2 \in Nat /\ n3 \in Nat /\ Consumed' = n1 + (n2 + n3)
    BY <1>2, <1>3, <1>8, <1>9, <1>13, <1>17
  <2> HIDE DEF n1, n2, n3
  <2>2. Consumed' = (n1 + n2) + n3
    BY <2>1
  <2>3. QED
    BY <2>2 DEF n1, n2, n3
<1> HIDE DEF part
\* What is left of the invariant between two scans, or at the end.
<1>19. CursorInv'
  <2>1. /\ (DOMAIN text = 1 .. Len(text))'
        /\ (\A i \in 1 .. Len(text) : AsChar(text[i]) = text[i])'
    BY <1>1 DEF CursorInv
  <2>2. Plain(m)'
    BY <1>1, <1>12 DEF Plain, Counts
  <2>3. (DOMAIN fsm = {"state", "bol", "nul"} /\ fsm.nul = FALSE)'
    BY <1>1 DEF CursorInv
  <2>4. pc' # "done" => token'.kind = "rule"
    BY <1>1
  <2>5. m'.pos = m'.cur
    BY <1>1, <1>3, <1>8, <1>9
  <2>6. pc' \in {"loop", "done"}
    BY <1>1
  <2>7. QED
    BY <2>1, <2>2, <2>3, <2>4, <2>5, <2>6 DEF CursorInv, Scanning
<1>20. CASE m.cap = 0
  <2>1. m.len = 0 /\ x.cap = 0 /\ ~ (x.cap > 0)
    BY <1>3, <1>8, <1>9, <1>20
  <2>2. ~ AtEnd(x)
    <3>1. x.pos = m.txt /\ x.end = m.end
      BY <1>2, <1>3, <1>4, <1>7, <1>8, <1>9, <2>1
    <3>2. m.txt < m.end
      BY <1>2, <1>3
    <3>3. QED
      BY <1>2, <3>1, <3>2 DEF AtEnd
  <2>3. part = <<>>
    <3>1. a + 1 \in Int /\ a + m.len \in Int /\ a + m.len < a + 1
      BY <1>13, <2>1
    <3> HIDE DEF a
    <3>2. QED
      BY <1>11, <3>1, SubSeqEmpty
  <2>4. token' = [kind |-> "error", rule |-> 0, text |-> <<>>,
                  line |-> Cursor!LineAt(text, a), col |-> Cursor!ColumnAt(text, a)]
    BY <1>1, <1>10, <2>1, <2>2, <2>3
  <2>5. Consumed' = Consumed /\ Consumed < Len(text) /\ user' = user /\ text' = text
    BY <1>1, <1>2, <1>3, <1>13, <1>14, <1>18, <2>1
  <2>6. Cursor!Accepted(p, text, a) = {}
    BY <1>16, <2>1
  <2>7. Cursor!Fail
    BY <1>14, <1>15, <2>4, <2>5, <2>6 DEF Cursor!Fail
  <2>8. QED
    BY <1>19, <2>7
<1>21. CASE m.cap # 0
  <2>1. m.len > 0 /\ Takes(p, a, m.len, m.cap) /\ m.cap > 0
    BY <1>3, <1>21 DEF Takes
  <2>2. x.cap > 0 /\ x.cap = m.cap
    BY <1>8, <1>9, <2>1
  <2>3. token' = [kind |-> "rule", rule |-> m.cap,
                  text |-> SubSeq(text, a + 1, a + m.len),
                  line |-> Cursor!LineAt(text, a), col |-> Cursor!ColumnAt(text, a)]
    <3>1. token' = [kind |-> "rule", rule |-> x.cap, text |-> part,
                    line |-> x.lno, col |-> x.cno]
      BY <1>1, <2>2
    <3> HIDE DEF a
    <3>2. QED
      BY <1>10, <1>11, <2>2, <3>1
  <2>4. user' = Act(user, m.cap, SubSeq(text, a + 1, a + m.len)) /\ text' = text
    BY <1>1, <1>11, <2>2
  <2>5. /\ Cursor!Accepted(p, text, a) # {} /\ Cursor!Longest(p, text, a) = m.len
        /\ Cursor!RuleOf(p, text, a, m.len) = m.cap
    BY <1>16, <2>1
  <2> HIDE DEF a, p
  <2>6. Cursor!Match
    BY <1>14, <1>15, <1>18, <2>3, <2>4, <2>5 DEF Cursor!Match
  <2>7. QED
    BY <1>19, <2>6
<1>22. QED
  BY <1>20, <1>21

\* The end of the lexer is the end of the text.
LEMMA CursorFinish ==
  ASSUME Usual, Inv, CursorInv, Finish
  PROVE  CursorInv' /\ Cursor!Finish
<1>1. PICK k \in Chunks(m) :
        AtEnd(Ready(m, k)) /\ m' = Ready(m, k) /\ fed' = fed + k
  BY DEF Finish
<1> DEFINE x == Ready(m, k)
<1>2. /\ pc = "loop" /\ pc' = "done" /\ token' = [token EXCEPT !.kind = "end"]
      /\ UNCHANGED <<text, fsm, user>>
  BY DEF Finish
<1>3. /\ Good(m, fed) /\ m.num \in Nat /\ m.pos \in Nat /\ m.cur \in Nat
      /\ fed \in Nat /\ fed <= Len(text) /\ Len(text) \in Nat
  BY CursorPlaces
<1>4. Good(x, fed + k) /\ (x.eof => fed + k = Len(text))
  BY ReadyGood DEF Inv, Usual
<1>5. Carried(m, x) /\ (Counts(m) => Counts(x))
  BY <1>3, ReadyCarries
<1>6. x.eof /\ AtEnd(x)
  BY <1>1, <1>3, EndIsEof
<1>7. m' = x
  BY <1>1
<1> HIDE DEF x
<1>8. /\ x.num \in Nat /\ x.pos \in Nat /\ x.end \in Nat /\ x.pos <= x.end
      /\ fed + k = x.num + x.end
  BY <1>4 DEF Good, Fit, Holds
<1>9. x.pos = x.end
  BY <1>6, <1>8 DEF AtEnd
<1>10. Consumed = m.num + m.pos /\ Consumed = m.num + m.cur /\ Consumed' = x.num + x.cur
  BY <1>2, <1>7 DEF Consumed, CursorInv
<1>11. Consumed = Len(text) /\ Consumed' = Consumed
  BY <1>4, <1>5, <1>6, <1>8, <1>9, <1>10 DEF Carried
<1>12. Plain(x)
  BY <1>5 DEF Plain, Carried, CursorInv
<1>13. CursorInv'
  <2>1. /\ (DOMAIN text = 1 .. Len(text))'
        /\ (\A i \in 1 .. Len(text) : AsChar(text[i]) = text[i])'
    BY <1>2 DEF CursorInv
  <2>2. Plain(m)'
    BY <1>2, <1>7, <1>12 DEF Plain, Counts
  <2>3. (DOMAIN fsm = {"state", "bol", "nul"} /\ fsm.nul = FALSE)'
    BY <1>2 DEF CursorInv
  <2>4. QED
    BY <1>2, <2>1, <2>2, <2>3 DEF CursorInv, Scanning
<1>14. Cursor!Lexing
  BY <1>2 DEF CursorInv, Cursor!Lexing
<1>15. QED
  BY <1>2, <1>11, <1>13, <1>14 DEF Cursor!Finish

\* The characters of the text are those that the automaton reads (README,
\* known gaps: a byte from 0x80 on that is buffered and read as a signed char
\* is not).
PlainTexts == \A t \in Texts : \A i \in DOMAIN t : AsChar(t[i]) = t[i]

LEMMA CursorInit ==
  ASSUME PlainTexts, Init PROVE CursorInv /\ Cursor!Init
<1>1. text \in Texts /\ text \in Seq({text[i] : i \in DOMAIN text})
  BY TextAssumption DEF Init
<1>2. DOMAIN text = 1 .. Len(text) /\ Len(text) \in Nat
  <2> DEFINE S == {text[i] : i \in DOMAIN text}
  <2> HIDE DEF S
  <2>1. text \in Seq(S)
    BY <1>1 DEF S
  <2>2. QED
    BY <2>1
<1>3. \A i \in 1 .. Len(text) : AsChar(text[i]) = text[i]
  BY <1>1, <1>2 DEF PlainTexts
<1>4. /\ m.num = 0 /\ m.lpb = 0 /\ m.lno = 1 /\ m.cno = 0 /\ m.ded = 0
      /\ m.mrk = FALSE /\ m.cur = 0 /\ m.pos = 0
  BY DEF Init, NewMatcher
<1>5. /\ fsm = [state |-> 0, bol |-> FALSE, nul |-> FALSE] /\ pc = "loop"
      /\ user = FirstUser /\ token = NoToken
  BY DEF Init
<1>6. Plain(m)
  BY <1>2, <1>4, LineFacts, ColumnFacts DEF Plain, Counts
<1>7. CursorInv
  BY <1>2, <1>3, <1>4, <1>5, <1>6 DEF CursorInv, Scanning, NoToken
<1>8. Consumed = 0
  BY <1>4, <1>5 DEF Consumed
<1>9. Cursor!Init
  BY <1>1, <1>5, <1>8 DEF Cursor!Init, Cursor!NoToken, NoToken
<1>10. QED
  BY <1>7, <1>9

LEMMA CursorNext ==
  ASSUME Usual, Inv, CursorInv, Serves(Current, Nat), [Next]_vars
  PROVE  CursorInv' /\ [Cursor!Next]_(Cursor!vars)
<1>1. ~ Jump
  <2>1. ~ (m.ded > 0)
    BY DEF CursorInv, Plain
  <2>2. QED
    BY <2>1 DEF Jump
<1>2. ~ Rescan
  <2>1. Restopped(m) = m /\ ~ (m.ded > 0)
    BY DEF CursorInv, Plain, Restopped
  <2>2. QED
    BY <2>1 DEF Rescan
<1>3. CASE Done \/ UNCHANGED vars
  <2>1. UNCHANGED <<text, fed, m, fsm, pc, user, token>>
    BY <1>3 DEF Done, vars
  <2>2. Current' = Current /\ Consumed' = Consumed /\ Scanning' = Scanning
    BY <2>1 DEF Current, Consumed, Scanning
  <2>3. Plain(m)'
    BY <2>1 DEF Plain, Counts, CursorInv
  <2>4. pc' = "fsm" => Running(Current, m, fsm.state)'
    BY <2>1, <2>2 DEF Running, Best, Takes, Accepts, CursorInv
  <2>5. pc' = "scanned" => Halted(Current, m)'
    BY <2>1, <2>2 DEF Halted, Best, Takes, Accepts, CursorInv
  <2>6. pc' = "deliver" => Matched(Current, m)'
    BY <2>1, <2>2 DEF Matched, Takes, Accepts, CursorInv
  <2>7. /\ (DOMAIN text = 1 .. Len(text))'
        /\ (\A i \in 1 .. Len(text) : AsChar(text[i]) = text[i])'
    BY <2>1 DEF CursorInv
  <2>8. CursorInv'
    BY <2>1, <2>2, <2>3, <2>4, <2>5, <2>6, <2>7 DEF CursorInv
  <2>9. QED
    BY <2>1, <2>2, <2>8 DEF Cursor!vars
<1>4. QED
  BY <1>1, <1>2, <1>3, CursorScan, CursorFinish, CursorStep, CursorHalt,
     CursorScanEnd, CursorDeliver
  DEF Next, Cursor!Next

-----------------------------------------------------------------------------
(***************************************************************************)
(* For every text and every size of the buffer, and for every lexer whose  *)
(* automata keep to their states and leave the margin alone: the tokens,   *)
(* with their text, their line and column and the actions they run, are    *)
(* those of the cursor that takes the longest match of the whole text.     *)
(***************************************************************************)
THEOREM MatcherIsCursor ==
  ASSUME Fresh = "nul", ShortReads = FALSE, PlainTexts
  PROVE  Spec /\ []Serves(Current, Nat) => ImplementsScanner
<1>1. Usual
  BY DEF Usual
<1>2. Init => Inv /\ CursorInv /\ Cursor!Init
  BY <1>1, InitInv, CursorInit
<1>3. Inv /\ CursorInv /\ Serves(Current, Nat) /\ [Next]_vars
        => Inv' /\ CursorInv' /\ [Cursor!Next]_(Cursor!vars)
  BY <1>1, StepInv, CursorNext
<1>4. QED
  BY <1>2, <1>3, PTL DEF Spec, ImplementsScanner, Cursor!Spec

(***************************************************************************)
(* The lexer of grammar files is such a lexer, on every grammar file.      *)
(***************************************************************************)
THEOREM GrammarLexerIsCursor ==
  ASSUME Fresh = "nul", ShortReads = FALSE, PlainTexts, IsGrammarLexer
  PROVE  Spec => ImplementsScanner
<1>1. LexerInv => Serves(Current, Nat)
  <2> SUFFICES ASSUME LexerInv PROVE Serves(Current, Nat)
    OBVIOUS
  <2>1. Serves(Current, RulesOf[MetaState(user)])
    BY Served DEF LexerInv
  <2>2. RulesOf[MetaState(user)] \subseteq Nat
    <3>1. MetaState(user) \in Names
      BY StackTop DEF LexerInv, UserOk, MetaState, Top
    <3>2. QED
      BY <3>1 DEF RulesOf, Names
  <2>3. QED
    BY <2>1, <2>2 DEF Serves
<1>2. Spec => []LexerInv
  BY LexerSafe
<1>3. Spec /\ []Serves(Current, Nat) => ImplementsScanner
  BY MatcherIsCursor
<1>4. QED
  BY <1>1, <1>2, <1>3, PTL

-----------------------------------------------------------------------------
(***************************************************************************)
(* The lexer with indents and dedents.  What it owes of dedents, in every  *)
(* state of its automaton, when that has halted and when the match is      *)
(* known; f is the automaton's fsm_.                                       *)
(***************************************************************************)
IsIndentLexer ==
  /\ Pattern = [margin |-> IndentPattern] /\ FirstUser = Count0
  /\ \A u : StateOf(u) = CountState(u)
  /\ \A u, r, t : Act(u, r, t) = CountAct(u, r, t)

IndentStates == {"S0", "margin", "dedent", "word", "newline"}

Stops(s) == s \in Seq(Nat \ {0}) /\ Increasing(s)

Moves(x) == x.mrk /\ (Indent(x) \/ Dedent(x))

\* The margin has been looked at by a scan from the begin of a line, or by the
\* one before the line is scanned again.
Looked(x, f) == x.mrk /\ ~ f.bol => x.tab = <<>> /\ x.col = 0

DentState(x, f) ==
  /\ Looked(x, f) /\ x.ind <= x.pos
  /\ f.state \in {"S0", "dedent"} => x.col = 0 /\ (x.mrk => ~ f.bol)
  /\ f.state = "S0" => x.cap = 0 /\ x.ind = x.pos
  /\ f.state = "dedent" => x.ded > 0 /\ f.nul
  /\ f.state \notin {"S0", "dedent"} => x.ded = 0 /\ x.txt < x.pos
  /\ f.state \in {"word", "newline"} => x.col = 0

\* The automaton has halted on a pending dedent; or on what moves no stop, or
\* on an indent, or on a dedent, for which the line may be scanned again.
Repeated(x, f) == x.ded > 0 /\ x.cap = 2 /\ f.nul /\ x.col = 0 /\ ~ Moves(x)
Unmoved(x)     == /\ x.ded = 0 /\ x.cap \in {0, 3, 4, 5} /\ ~ Moves(x)
                  /\ x.cap # 0 => x.txt < x.cur
Indented(x)    == x.ded = 0 /\ x.mrk /\ Indent(x) /\ x.cap = 1 /\ x.txt < x.cur
Dedented(x, f) == /\ x.ded = 0 /\ x.mrk /\ Dedent(x)
                  /\ (x.col = 0 /\ f.bol) \/ (x.cap = 2 /\ x.txt < x.cur)

DentHalted(x, f) ==
  Looked(x, f) /\ (Repeated(x, f) \/ Unmoved(x) \/ Indented(x) \/ Dedented(x, f))

\* What has been returned, and the match that has still to be.
Owes(x, delivering) ==
  user.indents + (IF delivering /\ x.cap = 1 THEN 1 ELSE 0)
    = user.dedents + (IF delivering /\ x.cap = 2 THEN 1 ELSE 0) + x.ded + Len(x.tab)

DentOk(x) == Stops(x.tab) /\ x.ded \in Nat /\ x.col \in Nat /\ x.mrk \in BOOLEAN

DentInv ==
  /\ DOMAIN fsm = {"state", "bol", "nul"} /\ fsm.bol \in BOOLEAN
  /\ user \in [indents : Nat, dedents : Nat]
  /\ DentOk(m) /\ Owes(m, pc = "deliver")
  /\ pc = "fsm" => fsm.state \in IndentStates /\ DentState(m, fsm)
  /\ pc = "scanned" => DentHalted(m, fsm)
  /\ pc = "deliver" => m.cap \in 0 .. 5

LEMMA IndentFacts ==
  ASSUME IsIndentLexer
  PROVE  LET p == IndentPattern IN
         /\ Current = p /\ p.start = "S0"
         /\ DOMAIN p.edge = IndentStates
         /\ p.accept["S0"] = 0 /\ p.accept["margin"] = 4 /\ p.accept["dedent"] = 2
         /\ p.accept["word"] = 3 /\ p.accept["newline"] = 5
         /\ p.meta["S0"] = Margin /\ p.meta["margin"] = Margin
         /\ p.meta["dedent"] = <<>> /\ p.meta["word"] = <<>> /\ p.meta["newline"] = <<>>
         /\ p.dent["S0"] = "dedent" /\ p.dent["margin"] = "dedent"
         /\ p.dent["dedent"] = "none" /\ p.dent["word"] = "none"
         /\ p.dent["newline"] = "none"
<1>1. Current = IndentPattern
  BY DEF IsIndentLexer, Current, CountState
<1>2. QED
  BY <1>1 DEF IndentPattern, IndentStates

\* The edges of the characters.
LEMMA IndentEdges ==
  LET p == IndentPattern
      B == {"sp", "tab"}
  IN  /\ DOMAIN p.edge["S0"] = {"sp", "tab", "a", "nl"}
      /\ \A c \in B : p.edge["S0"][c] = "margin"
      /\ p.edge["S0"]["a"] = "word" /\ p.edge["S0"]["nl"] = "newline"
      /\ DOMAIN p.edge["margin"] = B
      /\ \A c \in B : p.edge["margin"][c] = "margin"
      /\ DOMAIN p.edge["word"] = {"a"} /\ p.edge["word"]["a"] = "word"
      /\ DOMAIN p.edge["dedent"] = {} /\ DOMAIN p.edge["newline"] = {}
BY DEF IndentPattern

LEMMA Greatest ==
  ASSUME NEW n \in Nat, NEW S, S \subseteq 0 .. n, S # {}
  PROVE  Max(S) \in S /\ \A i \in S : i <= Max(S)
<1> DEFINE T == {n - i : i \in S}
<1>1. T \subseteq Nat /\ T # {}
  <2>1. \A i \in 0 .. n : n - i \in Nat
    OBVIOUS
  <2>2. \A i \in S : n - i \in Nat
    BY <2>1
  <2>3. QED
    BY <2>2
<1>2. PICK x \in T : \A y \in T : x <= y
  <2> HIDE DEF T
  <2>1. QED
    BY <1>1, LeastNat
<1>3. PICK i \in S : x = n - i
  OBVIOUS
<1>4. \A j \in S : i >= j
  <2> TAKE j \in S
  <2>1. n - i <= n - j /\ i \in 0 .. n /\ j \in 0 .. n
    BY <1>2, <1>3
  <2>2. QED
    BY <2>1
<1>5. \A j \in S : Max(S) >= j
  BY <1>4 DEF Max
<1>6. Max(S) \in S
  BY <1>4 DEF Max
<1>7. \A j \in S : j \in Int /\ Max(S) \in Int
  <2>1. \A j \in 0 .. n : j \in Int
    OBVIOUS
  <2>2. QED
    BY <1>6, <2>1
<1>8. QED
  BY <1>5, <1>6, <1>7

\* The stops behind a scan: an indent adds one, a dedent drops some and they
\* become dedents.
LEMMA RestoppedStops ==
  ASSUME NEW x, DOMAIN x = Fields, DentOk(x)
  PROVE  LET y == Restopped(x) IN
         /\ DentOk(y)
         /\ ~ Moves(x) => y = x
         /\ x.mrk /\ Indent(x) =>
              y.ded = x.ded /\ Len(y.tab) = Len(x.tab) + 1 /\ LastStop(y) = x.col
         /\ x.mrk /\ Dedent(x) =>
              /\ y.ded + Len(y.tab) = x.ded + Len(x.tab) /\ y.ded > x.ded
              /\ y.tab # <<>> => LastStop(y) = x.col
         /\ ~ (x.mrk /\ Indent(x)) => y.ded + Len(y.tab) = x.ded + Len(x.tab)
<1> DEFINE y == Restopped(x)
           l == Len(x.tab)
           S == {0} \cup {i \in 1 .. l - 1 : x.tab[i] <= x.col}
           n == Max(S)
<1>1. /\ x.tab \in Seq(Nat \ {0}) /\ l \in Nat /\ x.ded \in Nat /\ x.col \in Nat
      /\ x.mrk \in BOOLEAN /\ DOMAIN x.tab = 1 .. l
      /\ \A i \in 1 .. l : x.tab[i] \in Nat \ {0}
      /\ \A i, j \in 1 .. l : i < j => x.tab[i] < x.tab[j]
  BY DEF DentOk, Stops, Increasing
<1>2. DOMAIN y = Fields /\ y.col = x.col /\ y.mrk = x.mrk
  BY RestoppedFacts DEF Fields
<1>3. CASE ~ Moves(x)
  <2>1. y = x
    BY <1>3 DEF Restopped, Moves
  <2>2. QED
    BY <1>3, <2>1 DEF Moves
<1>4. CASE x.mrk /\ Indent(x)
  <2>1. ~ Dedent(x) /\ x.col > 0
    BY <1>1, <1>4 DEF Indent, Dedent, LastStop
  <2>2. y = [x EXCEPT !.tab = Append(x.tab, x.col)]
    BY <1>4, <2>1 DEF Restopped
  <2>3. y.tab = Append(x.tab, x.col) /\ y.ded = x.ded
    BY <2>2 DEF Fields
  <2> HIDE DEF y
  <2>4. y.tab \in Seq(Nat \ {0}) /\ Len(y.tab) = l + 1 /\ y.tab[l + 1] = x.col
        /\ \A i \in 1 .. l : y.tab[i] = x.tab[i]
        /\ DOMAIN y.tab = 1 .. l + 1
    BY <1>1, <2>1, <2>3
  <2>5. \A i \in 1 .. l : x.tab[i] < x.col
    <3> TAKE i \in 1 .. l
    <3>1. x.tab[l] < x.col /\ l \in 1 .. l
      BY <1>1, <1>4 DEF Indent, LastStop
    <3>2. i < l => x.tab[i] < x.tab[l]
      BY <1>1, <3>1
    <3>3. x.tab[i] \in Nat /\ x.tab[l] \in Nat
      BY <1>1, <3>1
    <3>4. i < l \/ i = l
      BY <1>1
    <3>5. QED
      BY <1>1, <3>1, <3>2, <3>3, <3>4
  <2>6. Increasing(y.tab)
    <3>1. \A i, j \in 1 .. l + 1 : i < j => y.tab[i] < y.tab[j]
      <4> HIDE DEF l
      <4> TAKE i, j \in 1 .. l + 1
      <4> HAVE i < j
      <4>1. i \in 1 .. l /\ (j \in 1 .. l \/ j = l + 1)
        BY <1>1
      <4>2. QED
        BY <1>1, <2>4, <2>5, <4>1
    <3>2. DOMAIN y.tab = 1 .. l + 1
      BY <2>4
    <3> HIDE DEF l
    <3>3. QED
      BY <3>1, <3>2 DEF Increasing
  <2>7. LastStop(y) = x.col
    BY <2>4 DEF LastStop
  <2>8. QED
    BY <1>1, <1>2, <1>4, <2>1, <2>3, <2>4, <2>6, <2>7 DEF DentOk, Stops, Moves, y
<1>5. CASE x.mrk /\ Dedent(x)
  <2> DEFINE t == [i \in 1 .. n |-> IF i = n THEN x.col ELSE x.tab[i]]
  <2>1. ~ Indent(x) /\ l > 0
    BY <1>1, <1>5 DEF Indent, Dedent, LastStop
  <2>2. n \in S /\ n \in 0 .. l - 1
    <3>1. S \subseteq 0 .. l /\ S # {} /\ S \subseteq 0 .. l - 1
      BY <1>1, <2>1
    <3> HIDE DEF S
    <3>2. QED
      BY <1>1, <3>1, Greatest
  <2>3. y = [x EXCEPT !.ded = x.ded + l - n, !.tab = t]
    BY <1>5, <2>1 DEF Restopped
  <2> HIDE DEF t
  <2>4. y.tab = t /\ y.ded = x.ded + l - n
    BY <2>3 DEF Fields
  <2>5. n = 0 \/ (n \in 1 .. l - 1 /\ x.tab[n] <= x.col)
    BY <2>2
  <2> HIDE DEF n, S
  <2> HIDE DEF y
  <2>6. t \in Seq(Nat \ {0}) /\ Len(t) = n
    <3>1. \A i \in 1 .. n : (IF i = n THEN x.col ELSE x.tab[i]) \in Nat \ {0}
      <4> TAKE i \in 1 .. n
      <4>1. i \in 1 .. l /\ n \in 1 .. l
        BY <1>1, <2>2
      <4>2. x.tab[i] \in Nat \ {0} /\ x.tab[n] \in Nat \ {0}
        BY <1>1, <4>1
      <4>3. x.tab[n] <= x.col
        BY <2>5
      <4>4. QED
        BY <1>1, <4>2, <4>3
    <3>2. n \in Nat
      BY <2>2
    <3>3. t \in [1 .. n -> Nat \ {0}]
      BY <3>1 DEF t
    <3>4. QED
      BY <3>2, <3>3
  <2>7. Increasing(t)
    <3> SUFFICES ASSUME NEW i \in 1 .. n, NEW j \in 1 .. n, i < j
                 PROVE  t[i] < t[j]
      BY DEF Increasing, t
    <3>1. i \in 1 .. l /\ j \in 1 .. l /\ i # n /\ n \in 1 .. l /\ x.tab[i] < x.tab[j]
      <4>1. n \in 0 .. l - 1 /\ l \in Nat
        BY <1>1, <2>2
      <4> HIDE DEF l
      <4>2. i \in 1 .. l /\ j \in 1 .. l /\ i # n /\ n \in 1 .. l
        BY <4>1
      <4>3. x.tab[i] < x.tab[j]
        BY <1>1, <4>2
      <4>4. QED
        BY <4>2, <4>3
    <3>2. x.tab[i] \in Nat /\ x.tab[j] \in Nat
      BY <1>1, <3>1
    <3>3. t[i] = x.tab[i] /\ t[j] = IF j = n THEN x.col ELSE x.tab[j]
      BY <3>1 DEF t
    <3>4. QED
      BY <1>1, <2>5, <3>1, <3>2, <3>3
  <2>8. y.tab # <<>> => LastStop(y) = x.col
    <3>1. y.tab # <<>> => n \in 1 .. n
      BY <2>2, <2>4, <2>6
    <3>2. QED
      BY <2>4, <2>6, <3>1 DEF LastStop, t
  <2>9. y.ded \in Nat /\ y.ded > x.ded /\ y.ded + n = x.ded + l
    <3>1. n \in Nat /\ n < l
      BY <1>1, <2>1, <2>2
    <3> HIDE DEF l
    <3>2. QED
      BY <1>1, <2>4, <3>1
  <2>10. QED
    BY <1>1, <1>2, <1>5, <2>1, <2>4, <2>6, <2>7, <2>8, <2>9 DEF DentOk, Stops, Moves, y
<1>6. QED
  BY <1>3, <1>4, <1>5 DEF Moves

\* The columns along the margin; to is the place it has been read to.
Columns(x, to, c) ==
  /\ Newline(x) = [x EXCEPT !.mrk = TRUE, !.col = c[to], !.ind = to]
  /\ c[x.ind] = x.col
  /\ \A i \in x.ind .. x.pos : i # x.ind =>
       c[i] = IF x.buf[i - 1] = "tab" THEN NextTab(c[i - 1]) ELSE c[i - 1] + 1

LEMMA NewlineColumns ==
  ASSUME NEW x, x.ind \in Nat, x.pos \in Nat, x.ind <= x.pos, x.col \in Nat,
         NEW to, to = IF x.ind + 1 < x.pos THEN x.pos - 1 ELSE x.ind
  PROVE  \E c : Columns(x, to, c)
<1> DEFINE n == x.pos - x.ind
           F == [i \in 1 .. n |-> [k \in Nat |->
                   IF x.buf[x.ind + i - 1] = "tab" THEN NextTab(k) ELSE k + 1]]
           E(h) == [i \in x.ind .. x.pos |->
                      IF i = x.ind THEN x.col
                      ELSE IF x.buf[i - 1] = "tab" THEN NextTab(h[i - 1])
                      ELSE h[i - 1] + 1]
           c == CHOOSE h : h = E(h)
<1>1. n \in Nat
  OBVIOUS
<1>2. GoesOn(F, Nat, n)
  BY TabStops DEF GoesOn
<1> HIDE DEF F
<1>3. PICK g : Unrolls(g, F, Nat, n, x.col)
  <2> HIDE DEF n
  <2>1. QED
    BY <1>1, <1>2, Recursion
<1> DEFINE h == [i \in x.ind .. x.pos |-> g[i - x.ind]]
<1>4. h = E(h)
  <2>1. ASSUME NEW i \in x.ind .. x.pos, i # x.ind
        PROVE  h[i] = IF x.buf[i - 1] = "tab" THEN NextTab(h[i - 1]) ELSE h[i - 1] + 1
    <3>1. PICK j \in 1 .. n : i = x.ind + j
      <4>1. i - x.ind \in 1 .. n /\ i = x.ind + (i - x.ind)
        BY <2>1
      <4>2. QED
        BY <4>1
    <3>2. /\ i - 1 \in x.ind .. x.pos /\ i - x.ind = j /\ i - 1 - x.ind = j - 1
          /\ x.ind + j - 1 = i - 1 /\ j - 1 \in 0 .. n
      BY <2>1, <3>1
    <3>3. h[i] = g[j] /\ h[i - 1] = g[j - 1]
      BY <2>1, <3>2
    <3>4. g[j] = F[j][g[j - 1]] /\ g[j - 1] \in Nat
      BY <1>3, <3>1, <3>2 DEF Unrolls
    <3>5. g[j] = IF x.buf[i - 1] = "tab" THEN NextTab(g[j - 1]) ELSE g[j - 1] + 1
      BY <3>1, <3>2, <3>4 DEF F
    <3> HIDE DEF h
    <3>6. QED
      BY <3>3, <3>5
  <2>2. h[x.ind] = x.col
    <3>1. x.ind \in x.ind .. x.pos /\ x.ind - x.ind = 0
      OBVIOUS
    <3>2. QED
      BY <1>3, <3>1 DEF Unrolls
  <2>3. \A i \in x.ind .. x.pos : h[i] = E(h)[i]
    <3> HIDE DEF n
    <3> TAKE i \in x.ind .. x.pos
    <3>1. CASE i = x.ind
      BY <2>2, <3>1
    <3>2. CASE i # x.ind
      <4>1. h[i] = IF x.buf[i - 1] = "tab" THEN NextTab(h[i - 1]) ELSE h[i - 1] + 1
        BY <2>1, <3>2
      <4> HIDE DEF h
      <4>2. QED
        BY <4>1, <3>2
    <3>3. QED
      BY <3>1, <3>2
  <2>4. h = [i \in x.ind .. x.pos |-> h[i]]
    BY Zenon
  <2> HIDE DEF h
  <2>5. QED
    BY <2>3, <2>4
<1> HIDE DEF h
<1>5. c = E(c)
  <2> HIDE DEF E
  <2>1. QED
    BY <1>4
<1>6. Newline(x) = [x EXCEPT !.mrk = TRUE, !.col = c[to], !.ind = to]
  BY Zenon DEF Newline
<1> HIDE DEF c
<1>7. x.ind \in x.ind .. x.pos
  OBVIOUS
<1>8. c[x.ind] = x.col
  BY <1>5, <1>7
<1>9. \A i \in x.ind .. x.pos : i # x.ind =>
        c[i] = IF x.buf[i - 1] = "tab" THEN NextTab(c[i - 1]) ELSE c[i - 1] + 1
  BY <1>5
<1>10. Columns(x, to, c)
  BY <1>6, <1>8, <1>9 DEF Columns
<1>11. QED
  BY <1>10

\* The column of the margin: the one the scan began at, unless more of the
\* line has been read.
LEMMA NewlineColumn ==
  ASSUME NEW x, DOMAIN x = Fields, x.ind \in Nat, x.pos \in Nat, x.ind <= x.pos,
         x.col \in Nat
  PROVE  LET y == Newline(x) IN
         y.mrk = TRUE /\ y.col \in Nat /\ (x.pos <= x.ind + 1 => y.col = x.col)
<1> DEFINE n == x.pos - x.ind
           to == IF x.ind + 1 < x.pos THEN x.pos - 1 ELSE x.ind
<1>1. n \in Nat
  OBVIOUS
<1>2. to = IF x.ind + 1 < x.pos THEN x.pos - 1 ELSE x.ind
  OBVIOUS
<1>3. to \in x.ind .. x.pos /\ (x.pos <= x.ind + 1 => to = x.ind)
  OBVIOUS
<1> HIDE DEF to
<1> HIDE DEF n
<1>4. PICK c : Columns(x, to, c)
  BY <1>2, NewlineColumns
<1> USE DEF n
<1> DEFINE T == {i \in Nat : i <= n => c[x.ind + i] \in Nat}
<1>5. \A i \in 0 .. n : i \in T
  <2>1. 0 \in T
    <3>1. x.ind + 0 = x.ind
      OBVIOUS
    <3>2. QED
      BY <1>4, <3>1 DEF Columns
  <2>2. ASSUME NEW i \in Nat, i < n, i \in T PROVE i + 1 \in T
    <3>1. /\ x.ind + (i + 1) \in x.ind .. x.pos /\ x.ind + (i + 1) # x.ind
          /\ x.ind + (i + 1) - 1 = x.ind + i
      BY <2>2
    <3>2. c[x.ind + i] \in Nat
      BY <2>2
    <3>3. PICK j : j = x.ind + (i + 1)
      OBVIOUS
    <3>4. c[j] = IF x.buf[j - 1] = "tab" THEN NextTab(c[j - 1]) ELSE c[j - 1] + 1
      BY <1>4, <3>1, <3>3 DEF Columns
    <3>5. j - 1 = x.ind + i
      BY <3>1, <3>3
    <3>6. c[x.ind + (i + 1)] \in Nat
      BY <3>2, <3>3, <3>4, <3>5, TabStops
    <3>7. QED
      BY <2>2, <3>6
  <2> HIDE DEF T, n
  <2>3. QED
    BY <1>1, <2>1, <2>2, UpTo
<1>6. c[to] \in Nat
  <2>1. PICK i \in 0 .. n : to = x.ind + i
    <3>1. to - x.ind \in 0 .. n /\ to = x.ind + (to - x.ind)
      BY <1>3
    <3>2. QED
      BY <3>1
  <2>2. i \in T
    BY <1>5
  <2>3. QED
    BY <2>1, <2>2
<1>7. Newline(x).mrk = TRUE /\ Newline(x).col = c[to]
  BY <1>4 DEF Columns, Fields
<1>8. QED
  BY <1>3, <1>4, <1>6, <1>7 DEF Columns

\* The two meta edges of the margin, and of the other states none.
LEMMA IndentMetas ==
  ASSUME NEW x, NEW s, NEW c, fsm.bol \in BOOLEAN
  PROVE  LET p == IndentPattern
             y == Newline(x)
         IN  /\ p.meta[s] = <<>> => Metas(x, p, s, c) = x
             /\ ~ fsm.bol /\ p.meta[s] = Margin => Metas(x, p, s, c) = x
             /\ fsm.bol /\ p.meta[s] = Margin =>
                  Metas(x, p, s, c) = IF Dedent(y) THEN Take(y, 2, c)
                                      ELSE IF Indent(y) THEN Take(y, 1, c) ELSE y
<1> DEFINE p == IndentPattern
           e == p.meta[s]
           y == IF fsm.bol /\ \E i \in DOMAIN e : e[i].label \in {"DED", "IND"}
                THEN Newline(x) ELSE x
           holds == {i \in DOMAIN e : MetaHolds(e[i].label, y, c)}
<1>1. Metas(x, p, s, c) = IF holds = {} THEN y ELSE Take(y, e[Min(holds)].rule, c)
  BY DEF Metas
<1> HIDE DEF p, y
<1>2. CASE e = <<>>
  <2>1. DOMAIN e = {}
    BY <1>2
  <2>2. holds = {} /\ y = x
    BY <2>1 DEF y
  <2>3. e # Margin
    BY <1>2 DEF Margin
  <2>4. QED
    BY <1>1, <1>2, <2>2, <2>3 DEF p
<1>3. CASE e = Margin
  <2>1. /\ DOMAIN e = {1, 2} /\ e[1].label = "DED" /\ e[1].rule = 2
        /\ e[2].label = "IND" /\ e[2].rule = 1
    BY <1>3 DEF Margin
  <2> HIDE DEF e
  <2>2. MetaHolds("DED", y, c) <=> fsm.bol /\ Dedent(y)
    BY DEF MetaHolds
  <2>3. MetaHolds("IND", y, c) <=> fsm.bol /\ Indent(y)
    BY DEF MetaHolds
  <2>4. holds = {i \in {1, 2} : (i = 1 /\ fsm.bol /\ Dedent(y))
                                \/ (i = 2 /\ fsm.bol /\ Indent(y))}
    BY <2>1, <2>2, <2>3
  <2>5. y = IF fsm.bol THEN Newline(x) ELSE x
    BY <2>1 DEF y
  <2>6. Min({1, 2}) = 1 /\ Min({1}) = 1 /\ Min({2}) = 2
    <3>1. 1 \in {1, 2} /\ \A i \in {1, 2} : 1 <= i
      OBVIOUS
    <3>2. Min({1, 2}) \in {1, 2} /\ \A i \in {1, 2} : Min({1, 2}) <= i
      BY <3>1 DEF Min
    <3>3. Min({1, 2}) = 1
      BY <3>2
    <3>4. Min({1}) \in {1}
      <4>1. 1 \in {1} /\ \A i \in {1} : 1 <= i
        OBVIOUS
      <4>2. QED
        BY <4>1 DEF Min
    <3>5. Min({2}) \in {2}
      <4>1. 2 \in {2} /\ \A i \in {2} : 2 <= i
        OBVIOUS
      <4>2. QED
        BY <4>1 DEF Min
    <3>6. QED
      BY <3>3, <3>4, <3>5
  <2> HIDE DEF y, holds
  <2>7. CASE fsm.bol /\ Dedent(y)
    <3>1. holds = {1} \/ holds = {1, 2}
      BY <2>4, <2>7
    <3>2. Min(holds) = 1
      BY <2>6, <3>1
    <3>3. holds # {}
      BY <3>1
    <3>4. Metas(x, p, s, c) = Take(y, 2, c)
      BY <1>1, <2>1, <3>2, <3>3
    <3>5. QED
      BY <1>3, <2>5, <2>7, <3>4 DEF p, e, Margin
  <2>8. CASE fsm.bol /\ ~ Dedent(y) /\ Indent(y)
    <3>1. holds = {2}
      BY <2>4, <2>8
    <3>2. Metas(x, p, s, c) = Take(y, 1, c)
      BY <1>1, <2>1, <2>6, <3>1
    <3>3. QED
      BY <1>3, <2>5, <2>8, <3>2 DEF p, e, Margin
  <2>9. CASE ~ (fsm.bol /\ (Dedent(y) \/ Indent(y)))
    <3>1. holds = {}
      BY <2>4, <2>9
    <3>2. Metas(x, p, s, c) = y
      BY <1>1, <3>1
    <3>3. QED
      BY <1>3, <2>5, <2>9, <3>2 DEF p, e, Margin
  <2>10. QED
    BY <2>7, <2>8, <2>9
<1>4. QED
  BY <1>2, <1>3 DEF p

\* What counts of a matcher for its dedents.
SameDents(x, y) ==
  y.ded = x.ded /\ y.tab = x.tab /\ y.col = x.col /\ y.mrk = x.mrk

LEMMA SameDentsOk ==
  ASSUME NEW x, NEW y, SameDents(x, y)
  PROVE  /\ DentOk(x) => DentOk(y)
         /\ Owes(x, FALSE) => Owes(y, FALSE)
         /\ y.cap = x.cap /\ Owes(x, TRUE) => Owes(y, TRUE)
         /\ Indent(x) <=> Indent(y)
         /\ Dedent(x) <=> Dedent(y)
         /\ Moves(x) <=> Moves(y)
BY DEF SameDents, DentOk, Owes, Indent, Dedent, LastStop, Moves

LEMMA DentInit == ASSUME Usual, IsIndentLexer, Init PROVE DentInv
<1>1. /\ m.tab = <<>> /\ m.ded = 0 /\ m.col = 0 /\ m.mrk = FALSE
      /\ pc = "loop" /\ user = Count0 /\ DOMAIN fsm = {"state", "bol", "nul"}
      /\ fsm.bol = FALSE
  BY DEF Init, NewMatcher, IsIndentLexer
<1>2. Stops(<<>>)
  BY DEF Stops, Increasing
<1>3. DentOk(m)
  <2>1. Stops(m.tab) /\ m.mrk \in BOOLEAN
    BY <1>1, <1>2
  <2>2. m.ded \in Nat /\ m.col \in Nat
    BY <1>1
  <2>3. QED
    BY <2>1, <2>2 DEF DentOk
<1>4. user \in [indents : Nat, dedents : Nat] /\ user.indents = 0 /\ user.dedents = 0
  BY <1>1 DEF Count0
<1>5. Owes(m, pc = "deliver")
  BY <1>1, <1>4 DEF Owes
<1>6. QED
  BY <1>1, <1>3, <1>4, <1>5 DEF DentInv

LEMMA DentScan == ASSUME Usual, IsIndentLexer, Inv, DentInv, Scan PROVE DentInv'
<1>1. PICK k \in Chunks(m) : LET x == Ready(m, k) IN
        /\ fed' = fed + k /\ ~ AtEnd(x)
        /\ Start([ResetText(x) EXCEPT !.len = 0, !.txt = x.cur, !.mrk = FALSE,
                                      !.ind = x.pos, !.col = 0],
                 x.got \in {"bob", "nl"})
  BY DEF Scan
<1> DEFINE x == Ready(m, k)
           r == ResetText(x)
           y == [r EXCEPT !.len = 0, !.txt = x.cur, !.mrk = FALSE,
                          !.ind = x.pos, !.col = 0]
           z == [y EXCEPT !.cap = 0, !.cur = r.pos]
<1>2. pc = "loop" /\ UNCHANGED <<text, user, token>>
  BY DEF Scan
<1>3. Good(x, fed + k) /\ Good(m, fed) /\ fed \in Nat /\ fed <= Len(text)
      /\ Len(text) \in Nat
  <2>1. Good(m, fed) /\ fed \in 0 .. Len(text) /\ Len(text) \in Nat
    BY DEF Inv
  <2>2. fed \in Nat /\ fed <= Len(text)
    BY <2>1
  <2>3. QED
    BY <2>1, <2>2, ReadyGood DEF Usual
<1>4. Carried(m, x) /\ DOMAIN x = Fields
  BY <1>3, ReadyCarries DEF Carried
<1>5. x.pos \in Nat
  BY <1>3 DEF Good, Fit
<1>6. SamePlaces(x, r) /\ DOMAIN r = Fields
  <2>1. \/ r = x
        \/ \E b : r = [x EXCEPT !.buf = b, !.chr = "nul"]
    BY Zenon DEF ResetText
  <2> HIDE DEF x, r
  <2>2. QED
    BY <1>4, <2>1 DEF SamePlaces, Fields
<1>7. m' = [y EXCEPT !.cap = 0, !.cur = y.pos]
      /\ fsm' = [state |-> Current.start, bol |-> x.got \in {"bob", "nl"}, nul |-> FALSE]
      /\ pc' = "fsm"
  BY <1>1 DEF Start
<1>8. fsm'.state = "S0" /\ fsm'.bol \in BOOLEAN /\ DOMAIN fsm' = {"state", "bol", "nul"}
  BY <1>7, IndentFacts
<1> HIDE DEF x, r
<1>9. DOMAIN y = Fields /\ y.pos = r.pos
  BY <1>6 DEF Fields
<1>10. m' = z
  <2> HIDE DEF y
  <2>1. QED
    BY <1>7, <1>9
<1>11. /\ z.ded = r.ded /\ z.tab = r.tab /\ z.col = 0 /\ z.mrk = FALSE
       /\ z.cap = 0 /\ z.ind = x.pos /\ z.pos = r.pos
  BY <1>6 DEF Fields
<1> HIDE DEF y, z
<1>12. r.ded = x.ded /\ r.tab = x.tab /\ r.pos = x.pos
  BY <1>6 DEF SamePlaces, Fields
<1>13. z.ded = m.ded /\ z.tab = m.tab /\ z.ind = z.pos /\ z.pos \in Nat
  BY <1>4, <1>5, <1>11, <1>12 DEF Carried
<1>14. /\ DentOk(m) /\ user \in [indents : Nat, dedents : Nat] /\ Owes(m, FALSE)
  BY <1>2 DEF DentInv, Owes
<1>15. DentOk(z)
  <2>1. z.mrk \in BOOLEAN
    BY <1>11
  <2>2. Stops(z.tab) /\ z.ded \in Nat
    BY <1>13, <1>14 DEF DentOk
  <2>3. z.col \in Nat
    BY <1>11
  <2>4. QED
    BY <2>1, <2>2, <2>3 DEF DentOk
<1>16. user' = user
  BY <1>2
<1>17. (Owes(m, FALSE))' /\ DentOk(m)'
  BY <1>10, <1>13, <1>14, <1>15, <1>16 DEF Owes, DentOk
<1>18. DentState(m, fsm)'
  BY <1>8, <1>10, <1>11, <1>13 DEF DentState, Looked
<1>19. QED
  BY <1>7, <1>8, <1>14, <1>16, <1>17, <1>18 DEF DentInv, IndentStates, Owes

\* A step inside the scan.
LEMMA DentWithin ==
  ASSUME DentInv, pc \in {"fsm", "scanned"}, user' = user, NEW y, m' = y,
         DentOk(y), y.ded + Len(y.tab) = m.ded + Len(m.tab),
         fsm'.bol \in BOOLEAN, DOMAIN fsm' = {"state", "bol", "nul"},
         \/ pc' = "fsm" /\ fsm'.state \in IndentStates /\ DentState(y, fsm')
         \/ pc' = "scanned" /\ DentHalted(y, fsm')
  PROVE  DentInv'
<1>1. user \in [indents : Nat, dedents : Nat] /\ Owes(m, FALSE) /\ DentOk(m)
  BY DEF DentInv, Owes
<1>2. m.ded \in Nat /\ Len(m.tab) \in Nat /\ y.ded \in Nat /\ Len(y.tab) \in Nat
  BY <1>1 DEF DentOk, Stops
<1>3. user.indents = user.dedents + m.ded + Len(m.tab)
  <2>1. user.indents + 0 = user.dedents + 0 + m.ded + Len(m.tab)
    BY <1>1 DEF Owes
  <2>2. user.indents \in Nat /\ user.dedents \in Nat
    BY <1>1
  <2>3. QED
    BY <1>2, <2>1, <2>2
<1>4. user.indents = user.dedents + y.ded + Len(y.tab) /\ user.indents \in Nat
      /\ user.dedents \in Nat
  <2>1. user.indents \in Nat /\ user.dedents \in Nat
    BY <1>1
  <2> DEFINE c == m.ded
             d == Len(m.tab)
             e == y.ded
             g == Len(y.tab)
             i == user.indents
             j == user.dedents
  <2>2. /\ c \in Nat /\ d \in Nat /\ e \in Nat /\ g \in Nat /\ i \in Nat /\ j \in Nat
        /\ i = j + c + d /\ e + g = c + d
    BY <1>2, <1>3, <2>1
  <2> HIDE DEF c, d, e, g, i, j
  <2>3. i = j + e + g
    BY ONLY <2>2
  <2>4. QED
    BY <2>1, <2>3 DEF e, g, i, j
<1>5. (Owes(m, pc = "deliver"))' /\ DentOk(m)'
  <2>1. user' = user /\ m' = y /\ pc' # "deliver"
    OBVIOUS
  <2>2. DentOk(m)'
    BY <2>1 DEF DentOk
  <2>3. user'.indents + 0 = user'.dedents + 0 + m'.ded + Len(m'.tab)
    BY <1>2, <1>4, <2>1
  <2>4. QED
    BY <2>1, <2>2, <2>3 DEF Owes
<1>6. QED
  BY <1>1, <1>5 DEF DentInv

LEMMA DentJump == ASSUME Usual, IsIndentLexer, Inv, DentInv, Jump PROVE DentInv'
<1> DEFINE s == fsm.state
<1>1. /\ pc = "fsm" /\ m.ded > 0 /\ Current.dent[s] # "none"
      /\ m' = Entered(m, Current, s)
      /\ fsm' = [fsm EXCEPT !.state = Current.dent[s], !.nul = TRUE]
      /\ UNCHANGED <<text, fed, pc, user, token>>
  BY DEF Jump
<1>2. /\ s \in IndentStates /\ DentState(m, fsm) /\ DentOk(m)
      /\ DOMAIN fsm = {"state", "bol", "nul"} /\ fsm.bol \in BOOLEAN
  BY <1>1 DEF DentInv
<1>3. s = "S0"
  <2>1. m.ded # 0
    BY <1>1
  <2>2. s # "dedent"
    BY <1>1, IndentFacts
  <2>3. QED
    BY <1>2, <2>1, <2>2 DEF DentState, IndentStates
<1>4. m' = m
  BY <1>1, <1>3, IndentFacts DEF Entered
<1>5. fsm'.state = "dedent" /\ fsm'.nul = TRUE /\ fsm'.bol = fsm.bol
      /\ DOMAIN fsm' = {"state", "bol", "nul"}
  BY <1>1, <1>2, <1>3, IndentFacts
<1>6. DentState(m, fsm')
  BY <1>1, <1>2, <1>3, <1>5 DEF DentState, Looked
<1>7. QED
  BY <1>1, <1>2, <1>4, <1>5, <1>6, DentWithin DEF IndentStates

LEMMA DentHalt == ASSUME Usual, IsIndentLexer, Inv, DentInv, Halt PROVE DentInv'
<1> DEFINE s == fsm.state
           e == Entered(m, Current, s)
<1>1. /\ pc = "fsm" /\ pc' = "scanned" /\ DOMAIN Current.edge[s] = {}
      /\ m' = e /\ UNCHANGED <<text, fed, fsm, user, token>>
  BY DEF Halt
<1>2. /\ s \in IndentStates /\ DentState(m, fsm) /\ DentOk(m)
      /\ DOMAIN fsm = {"state", "bol", "nul"} /\ fsm.bol \in BOOLEAN
  BY <1>1 DEF DentInv
<1>3. s = "dedent" \/ s = "newline"
  <2>1. Current.edge[s] = IndentPattern.edge[s]
    BY IndentFacts
  <2>2. QED
    BY <1>1, <1>2, <2>1, IndentEdges DEF IndentStates
<1>4. e = [m EXCEPT !.cap = Current.accept[s], !.cur = m.pos]
  BY <1>3, IndentFacts DEF Entered, Take
<1>5. /\ e.ded = m.ded /\ e.tab = m.tab /\ e.col = m.col /\ e.mrk = m.mrk
      /\ e.txt = m.txt /\ e.cur = m.pos /\ e.cap = Current.accept[s]
  BY <1>4 DEF Inv, Good, Fit, Fields
<1> HIDE DEF e
<1>6. SameDents(m, e)
  BY <1>5 DEF SameDents
<1>7. m.col = 0 /\ Looked(m, fsm)
  BY <1>2, <1>3 DEF DentState
<1>8. m.mrk /\ Dedent(m) => fsm.bol
  BY <1>7 DEF Looked, Dedent
<1>9. ~ Indent(m)
  BY <1>7 DEF Indent
<1>10. DentHalted(e, fsm)
  <2>1. CASE s = "dedent"
    <3>1. e.cap = 2 /\ e.ded > 0 /\ fsm.nul /\ (m.mrk => ~ fsm.bol)
      BY <1>2, <1>5, <2>1, IndentFacts DEF DentState
    <3>2. ~ Moves(m)
      BY <1>8, <1>9, <3>1 DEF Moves
    <3>3. QED
      BY <1>5, <1>6, <1>7, <3>1, <3>2, SameDentsOk DEF DentHalted, Repeated, Looked
  <2>2. CASE s = "newline"
    <3>1. e.cap = 5 /\ e.ded = 0 /\ e.txt < e.cur
      BY <1>2, <1>5, <2>2, IndentFacts DEF DentState
    <3>2. CASE m.mrk /\ Dedent(m)
      BY <1>5, <1>6, <1>7, <1>8, <3>1, <3>2, SameDentsOk
      DEF DentHalted, Dedented, Looked
    <3>3. CASE ~ (m.mrk /\ Dedent(m))
      <4>1. ~ Moves(m)
        BY <1>9, <3>3 DEF Moves
      <4>2. QED
        BY <1>5, <1>6, <1>7, <3>1, <4>1, SameDentsOk DEF DentHalted, Unmoved, Looked
    <3>4. QED
      BY <3>2, <3>3
  <2>3. QED
    BY <1>3, <2>1, <2>2
<1>11. DentOk(e) /\ e.ded + Len(e.tab) = m.ded + Len(m.tab)
  BY <1>2, <1>5, <1>6, SameDentsOk
<1>12. QED
  BY <1>1, <1>2, <1>10, <1>11, DentWithin

LEMMA ReadyDents ==
  ASSUME NEW x, DOMAIN x = Fields, NEW k
  PROVE  LET y == Ready(x, k) IN
         DOMAIN y = Fields /\ SameDents(x, y) /\ y.cap = x.cap
<1> DEFINE c == Counted(x)
           s == Shifted(x)
           e == Expanded(x)
           r == Roomy(x)
           y == Read(x, k)
<1>1. DOMAIN c = Fields /\ SameDents(x, c) /\ c.cap = x.cap
  BY CountedFacts DEF Fields, SameDents
<1> HIDE DEF c
<1>2. DOMAIN s = Fields /\ SameDents(x, s) /\ s.cap = x.cap
  <2>1. DOMAIN s = DOMAIN c /\ SameDents(c, s) /\ s.cap = c.cap
    BY <1>1 DEF Shifted, c, Fields, SameDents
  <2>2. QED
    BY <1>1, <2>1 DEF SameDents
<1> HIDE DEF s
<1>3. DOMAIN e = Fields /\ SameDents(x, e) /\ e.cap = x.cap
  <2>1. \E a, b : e = [s EXCEPT !.max = a, !.buf = b]
    BY Zenon DEF Expanded, s
  <2>2. PICK a, b : e = [s EXCEPT !.max = a, !.buf = b]
    BY <2>1
  <2> HIDE DEF e
  <2>3. QED
    BY <1>2, <2>2 DEF Fields, SameDents
<1> HIDE DEF e
<1>4. r = x \/ r = s \/ r = e
  BY DEF Roomy, Grown, s, e
<1>5. DOMAIN r = Fields /\ SameDents(x, r) /\ r.cap = x.cap
  <2> HIDE DEF r
  <2>1. QED
    BY <1>2, <1>3, <1>4 DEF SameDents
<1> HIDE DEF r
<1>6. DOMAIN y = Fields /\ SameDents(x, y) /\ y.cap = x.cap
  <2>1. \E a, b, c1 : y = [r EXCEPT !.end = a, !.eof = b, !.buf = c1]
    BY Zenon DEF Read, r
  <2> HIDE DEF y
  <2>2. PICK a, b, c1 : y = [r EXCEPT !.end = a, !.eof = b, !.buf = c1]
    BY <2>1
  <2>3. QED
    BY <1>5, <2>2 DEF Fields, SameDents
<1>7. QED
  BY <1>6 DEF Ready, SameDents

\* What a state that reads does, and to what.
Advanced(x, z) ==
  /\ DOMAIN x = Fields /\ DOMAIN z = Fields
  /\ \A f \in Fields \ {"pos"} : z[f] = x[f]
  /\ z.pos = IF AtEnd(x) THEN x.pos ELSE x.pos + 1

Reads(x, c, z, n) ==
  LET s == fsm.state
      e == Entered(m, Current, s)
  IN  /\ fed' = n /\ n \in 0 .. Len(text) /\ fed <= n
      /\ Good(e, fed) /\ Good(x, n) /\ x.chr = "nul"
      /\ Carried(e, x) /\ (Counts(e) => Counts(x))
      /\ AtEnd(x) => c = "eof" /\ n = Len(text)
      /\ ~ AtEnd(x) => c = x.buf[x.pos] \/ c = AsChar(x.buf[x.pos])
      /\ Advanced(x, z)
      /\ m' = Metas(z, Current, s, c)
      /\ \/ /\ c \in DOMAIN Current.edge[s] /\ pc' = "fsm"
            /\ fsm' = [fsm EXCEPT !.state = Current.edge[s][c]]
         \/ c \notin DOMAIN Current.edge[s] /\ pc' = "scanned" /\ fsm' = fsm

LEMMA StepFacts ==
  ASSUME Usual, Inv, Step
  PROVE  \E x, c, z, n : Reads(x, c, z, n)
<1> DEFINE s == fsm.state
           e == Entered(m, Current, s)
<1>1. PICK k \in Chunks(m) :
        \E x \in {Ready(e, k)} :
        \E c \in {Char(x, Wants(m))} :
        \E y \in {Metas([x EXCEPT !.pos = IF AtEnd(x) THEN @ ELSE @ + 1],
                        Current, s, c)} :
           /\ fed' = fed + k
           /\ m' = y
           /\ IF c \in DOMAIN Current.edge[s]
              THEN /\ fsm' = [fsm EXCEPT !.state = Current.edge[s][c]]
                   /\ UNCHANGED pc
              ELSE pc' = "scanned" /\ UNCHANGED fsm
  BY DEF Step
<1>2. pc = "fsm" /\ Good(m, fed) /\ Len(text) \in Nat /\ fed \in Nat /\ fed <= Len(text)
  BY DEF Step, Inv
<1> DEFINE x == Ready(e, k)
           c == Char(x, Wants(m))
           z == [x EXCEPT !.pos = IF AtEnd(x) THEN x.pos ELSE x.pos + 1]
           y == Metas(z, Current, s, c)
<1>3. /\ m' = y /\ fed' = fed + k
      /\ \/ /\ c \in DOMAIN Current.edge[s]
            /\ fsm' = [fsm EXCEPT !.state = Current.edge[s][c]]
            /\ pc' = pc
         \/ c \notin DOMAIN Current.edge[s] /\ pc' = "scanned" /\ fsm' = fsm
  BY <1>1
<1>4. /\ Good(e, fed) /\ SameBuffer(m, e) /\ e.pos = m.pos /\ e.txt = m.txt
      /\ m.chr = "nul" /\ Full /\ (m.eof => fed = Len(text))
  BY <1>2, EnteredGood DEF Inv
<1>5. /\ k \in Chunks(e) /\ e.chr = "nul" /\ e.end = m.end /\ e.max = m.max
      /\ (Wants(m) <=> Wants(e)) /\ (e.eof => fed = Len(text))
  BY <1>2, <1>4, SameChunks DEF SameBuffer, Usual
<1> HIDE DEF e
<1>6. Carried(e, x) /\ (Counts(e) => Counts(x)) /\ DOMAIN x = Fields
  BY <1>2, <1>4, ReadyCarries DEF Carried
<1>7. /\ Good(x, fed + k) /\ fed + k \in 0 .. Len(text) /\ x.chr = "nul"
      /\ x.eof => fed + k = Len(text)
  BY <1>2, <1>4, <1>5, NextReady
<1>8. AtEnd(x) => x.eof
  BY <1>4, EndIsEof
<1>9. fed <= fed + k
  <2>1. Wants(e) => k \in Nat
    BY <1>2, <1>4, <1>5, DeliveryFacts DEF Inv, Usual
  <2>2. ~ Wants(e) => k = 0
    BY <1>5 DEF Chunks
  <2>3. k \in Nat
    BY <2>1, <2>2
  <2>4. QED
    BY <1>2, <2>3
<1>10. c = IF AtEnd(x) THEN "eof" ELSE IF Wants(m) THEN x.buf[x.pos]
           ELSE AsChar(x.buf[x.pos])
  <2> HIDE DEF x
  <2>1. QED
    BY DEF Char
<1> HIDE DEF x, c
<1>11. Advanced(x, z)
  BY <1>6 DEF Advanced, Fields
<1> HIDE DEF z
<1>12. Reads(x, c, z, fed + k)
  BY <1>2, <1>3, <1>4, <1>6, <1>7, <1>8, <1>9, <1>10, <1>11 DEF Reads, e
<1>13. QED
  BY <1>12

\* What comes out of the meta edges, of a state with a margin and of one without.
LEMMA MarginOutcome ==
  ASSUME IsIndentLexer, fsm.bol \in BOOLEAN, fsm.state \in {"S0", "margin", "word"},
         NEW z, NEW c
  PROVE  LET s == fsm.state
             b == fsm.bol
             d == IF b /\ s # "word" THEN Newline(z) ELSE z
             y == Metas(z, Current, s, c)
         IN  \/ y = d /\ (b /\ s # "word" => ~ Dedent(d) /\ ~ Indent(d))
             \/ b /\ s # "word" /\ Dedent(d) /\ y = Take(d, 2, c)
             \/ b /\ s # "word" /\ ~ Dedent(d) /\ Indent(d) /\ y = Take(d, 1, c)
<1> DEFINE s == fsm.state
           b == fsm.bol
           y0 == Newline(z)
           y == Metas(z, Current, s, c)
<1>1. y = Metas(z, IndentPattern, s, c)
  BY IndentFacts
<1>2. CASE s = "word"
  <2>1. IndentPattern.meta[s] = <<>>
    BY <1>2, IndentFacts
  <2>2. y = z
    BY <1>1, <2>1, IndentMetas
  <2> HIDE DEF y
  <2>3. QED
    BY <1>2, <2>2 DEF y
<1>3. CASE s # "word"
  <2>1. IndentPattern.meta[s] = Margin
    BY <1>3, IndentFacts
  <2>2. ~ b => y = z
    BY <1>1, <2>1, IndentMetas
  <2>3. b => y = IF Dedent(y0) THEN Take(y0, 2, c)
                 ELSE IF Indent(y0) THEN Take(y0, 1, c) ELSE y0
    BY <1>1, <2>1, IndentMetas
  <2> HIDE DEF y, y0
  <2>4. QED
    BY <1>3, <2>2, <2>3 DEF y, y0
<1>4. QED
  BY <1>2, <1>3

LEMMA DentStep == ASSUME Usual, IsIndentLexer, Inv, DentInv, Step PROVE DentInv'
<1> DEFINE s == fsm.state
           p == IndentPattern
           e == Entered(m, Current, s)
           b == fsm.bol
<1>1. PICK x, c, z, n : Reads(x, c, z, n)
  BY StepFacts
<1> DEFINE y == Metas(z, Current, s, c)
           y0 == Newline(z)
<1>2. /\ pc = "fsm" /\ UNCHANGED <<text, user, token>>
      /\ Current.dent[s] = "none" \/ m.ded = 0
      /\ DOMAIN Current.edge[s] # {} \/ Current.meta[s] # <<>>
  BY DEF Step
<1>3. /\ s \in IndentStates /\ DentState(m, fsm) /\ DentOk(m)
      /\ DOMAIN fsm = {"state", "bol", "nul"} /\ b \in BOOLEAN
  BY <1>2 DEF DentInv
<1>4. Current = p
  BY IndentFacts
<1>5. s \in {"S0", "margin", "word"}
  <2>1. s # "dedent" /\ s # "newline"
    BY <1>2, <1>4, IndentFacts, IndentEdges
  <2>2. QED
    BY <1>3, <2>1 DEF IndentStates
<1>6. m.ded = 0 /\ Looked(m, fsm) /\ m.ind <= m.pos
  <2>1. s = "S0" => m.ded = 0
    BY <1>2, IndentFacts
  <2>2. QED
    BY <1>3, <1>5, <2>1 DEF DentState
<1>7. DOMAIN m = Fields /\ m.pos \in Nat /\ m.txt \in Nat /\ m.ind \in Nat
      /\ m.num \in Nat
  BY DEF Inv, Good, Fit
<1>8. /\ DOMAIN e = Fields /\ SameDents(m, e)
      /\ e.pos = m.pos /\ e.txt = m.txt /\ e.ind = m.ind /\ e.num = m.num
      /\ e.cap = IF p.accept[s] > 0 THEN p.accept[s] ELSE m.cap
      /\ e.cur = IF p.accept[s] > 0 THEN m.pos ELSE m.cur
  <2>1. e = IF p.accept[s] > 0 THEN [m EXCEPT !.cap = p.accept[s], !.cur = m.pos] ELSE m
    BY <1>4 DEF Entered, Take
  <2>2. QED
    BY <1>7, <2>1 DEF Fields, SameDents
<1>9. Carried(e, x) /\ Good(x, n) /\ Advanced(x, z) /\ m' = y
      /\ (AtEnd(x) => c = "eof")
      /\ \/ /\ c \in DOMAIN p.edge[s] /\ pc' = "fsm"
            /\ fsm' = [fsm EXCEPT !.state = p.edge[s][c]]
         \/ pc' = "scanned" /\ fsm' = fsm
  BY <1>1, <1>4 DEF Reads
<1> HIDE DEF e, p
<1>10. SameDents(m, x) /\ x.cap = e.cap /\ x.pos \in Nat /\ x.txt \in Nat
       /\ x.ind \in Nat /\ x.cur \in Nat /\ x.num \in Nat /\ DOMAIN x = Fields
  BY <1>8, <1>9 DEF Carried, SameDents, Good, Fit
<1>11. /\ x.ind <= x.pos
       /\ m.txt < m.pos => x.txt < x.pos
       /\ m.ind = m.pos => x.ind = x.pos
       /\ e.cur = m.pos => x.cur = x.pos
  <2> DEFINE n1 == x.num
             n2 == x.txt
             n3 == x.pos
             n4 == x.ind
             n5 == x.cur
             k1 == m.num
             k2 == m.txt
             k3 == m.pos
             k4 == m.ind
  <2>1. /\ n1 + n2 = k1 + k2 /\ n1 + n3 = k1 + k3 /\ n1 + n4 = k1 + k4
        /\ n1 + n5 = k1 + e.cur
        /\ n1 \in Nat /\ n2 \in Nat /\ n3 \in Nat /\ n4 \in Nat /\ n5 \in Nat
        /\ k1 \in Nat /\ k2 \in Nat /\ k3 \in Nat /\ k4 \in Nat /\ k4 <= k3
    BY <1>6, <1>7, <1>8, <1>9, <1>10 DEF Carried
  <2> HIDE DEF n1, n2, n3, n4, n5, k1, k2, k3, k4
  <2>2. n4 <= n3 /\ (k2 < k3 => n2 < n3) /\ (k4 = k3 => n4 = n3)
        /\ (e.cur = k3 => n5 = n3)
    BY ONLY <2>1
  <2>3. QED
    BY <2>2 DEF n2, n3, n4, n5, k2, k3, k4
<1>12. /\ DOMAIN z = Fields /\ SameDents(x, z) /\ z.cap = x.cap /\ z.txt = x.txt
       /\ z.ind = x.ind /\ z.cur = x.cur
       /\ z.pos = IF AtEnd(x) THEN x.pos ELSE x.pos + 1
  BY <1>9 DEF Advanced, Fields, SameDents
<1>13. SameDents(m, z) /\ z.pos \in Nat /\ z.ind <= z.pos /\ DentOk(z) /\ z.col \in Nat
  <2>1. SameDents(m, z)
    BY <1>10, <1>12 DEF SameDents
  <2>2. DentOk(z)
    BY <1>3, <2>1, SameDentsOk
  <2>3. QED
    BY <1>10, <1>11, <1>12, <2>1, <2>2 DEF DentOk
<1>14. Looked(z, fsm) /\ z.ded = 0
  BY <1>6, <1>13 DEF Looked, SameDents
\* The margin is looked at.
<1>15. /\ DOMAIN y0 = Fields /\ y0.mrk = TRUE /\ y0.tab = z.tab /\ y0.ded = z.ded
       /\ y0.txt = z.txt /\ y0.pos = z.pos /\ y0.cap = z.cap /\ y0.cur = z.cur
       /\ y0.col \in Nat /\ (z.pos <= z.ind + 1 => y0.col = z.col)
       /\ y0.ind <= y0.pos
  <2>1. /\ DOMAIN y0 = Fields
        /\ \A f \in Fields \ {"mrk", "col", "ind"} : y0[f] = z[f]
        /\ y0.ind = IF z.ind + 1 < z.pos THEN z.pos - 1 ELSE z.ind
    BY <1>12, NewlineFacts
  <2>2. y0.mrk = TRUE /\ y0.col \in Nat /\ (z.pos <= z.ind + 1 => y0.col = z.col)
    BY <1>10, <1>12, <1>13, NewlineColumn
  <2> HIDE DEF y0
  <2>3. /\ y0.tab = z.tab /\ y0.ded = z.ded
        /\ y0.txt = z.txt /\ y0.pos = z.pos /\ y0.cap = z.cap /\ y0.cur = z.cur
    BY <2>1 DEF Fields
  <2>4. y0.ind <= y0.pos
    BY <1>10, <1>12, <1>13, <2>1, <2>3
  <2>5. QED
    BY <2>1, <2>2, <2>3, <2>4
<1> HIDE DEF y0
<1>16. DentOk(y0)
  BY <1>13, <1>15 DEF DentOk
<1>17. ASSUME NEW v, NEW r, v = Take(y0, r, c)
       PROVE  /\ DOMAIN v = Fields /\ SameDents(y0, v) /\ v.cap = r /\ v.txt = y0.txt
              /\ v.pos = y0.pos /\ v.ind = y0.ind
              /\ x.txt < x.pos => v.txt < v.cur
  <2>1. v = [y0 EXCEPT !.cap = r, !.cur = IF c = "eof" THEN y0.pos ELSE y0.pos - 1]
    BY <1>17 DEF Take
  <2>2. /\ DOMAIN v = Fields /\ SameDents(y0, v) /\ v.cap = r /\ v.txt = y0.txt
        /\ v.pos = y0.pos /\ v.ind = y0.ind
        /\ v.cur = IF c = "eof" THEN y0.pos ELSE y0.pos - 1
    BY <1>15, <2>1 DEF Fields, SameDents
  <2>3. v.cur = x.pos \/ v.cur = x.pos + 1
    BY <1>9, <1>10, <1>12, <1>15, <2>2
  <2>4. QED
    BY <1>10, <1>12, <1>15, <2>2, <2>3
<1> DEFINE d == IF b /\ s # "word" THEN y0 ELSE z
<1>18. \/ y = d /\ (b /\ s # "word" => ~ Dedent(d) /\ ~ Indent(d))
       \/ b /\ s # "word" /\ Dedent(d) /\ y = Take(d, 2, c)
       \/ b /\ s # "word" /\ ~ Dedent(d) /\ Indent(d) /\ y = Take(d, 1, c)
  BY <1>3, <1>5, MarginOutcome DEF y0
<1> HIDE DEF y
<1>19. d = z \/ d = y0
  OBVIOUS
<1>20. DentOk(d) /\ d.ded = 0 /\ d.tab = m.tab /\ d.txt = x.txt /\ d.pos = z.pos
       /\ d.ind <= d.pos /\ d.cap = e.cap /\ d.cur = x.cur
  BY <1>10, <1>12, <1>13, <1>14, <1>15, <1>16, <1>19 DEF SameDents
<1>21. Looked(d, fsm)
  BY <1>3, <1>14 DEF Looked
<1>22. s \in {"S0", "word"} => d.col = 0
  <2>1. s \in {"S0", "word"} => z.col = 0
    BY <1>3, <1>13 DEF DentState, SameDents
  <2>2. s = "S0" => z.pos <= z.ind + 1
    <3>1. s = "S0" => x.ind = x.pos
      BY <1>3, <1>11 DEF DentState
    <3>2. QED
      BY <1>10, <1>12, <3>1
  <2>3. QED
    BY <1>15, <2>1, <2>2
<1>23. b /\ s # "word" => d.mrk
  BY <1>15
<1>24. s # "S0" => x.txt < x.pos /\ d.txt < d.cur
  <2>1. s # "S0" => m.txt < m.pos /\ e.cur = m.pos
    <3>1. s # "S0" => p.accept[s] > 0
      BY <1>5, IndentFacts DEF p
    <3>2. QED
      BY <1>3, <1>5, <1>8, <3>1 DEF DentState
  <2>2. QED
    BY <1>11, <1>20, <2>1
<1>25. ASSUME NEW r, b /\ s # "word", y = Take(d, r, c)
       PROVE  /\ DOMAIN y = Fields /\ SameDents(d, y) /\ y.cap = r /\ y.txt = d.txt
              /\ y.pos = d.pos /\ y.ind = d.ind
              /\ s # "S0" => y.txt < y.cur
  BY <1>17, <1>24, <1>25
<1>26. SameDents(d, y) /\ y.txt = d.txt /\ y.pos = d.pos /\ y.ind = d.ind
  <2>1. y = d => SameDents(d, y) /\ y.txt = d.txt /\ y.pos = d.pos /\ y.ind = d.ind
    BY DEF SameDents
  <2> HIDE DEF d
  <2>2. QED
    BY <1>18, <1>25, <2>1
<1> HIDE DEF d
<1>27. DentOk(y) /\ y.ded = 0 /\ y.tab = m.tab /\ Looked(y, fsm) /\ y.txt = x.txt
       /\ y.pos = z.pos /\ y.ind <= y.pos /\ y.col = d.col /\ y.mrk = d.mrk
  BY <1>20, <1>21, <1>26, SameDentsOk DEF SameDents, Looked
<1>28. CASE c \in DOMAIN p.edge[s] /\ pc' = "fsm" /\ fsm' = [fsm EXCEPT !.state = p.edge[s][c]]
  <2>1. /\ fsm'.state = p.edge[s][c] /\ fsm'.bol = b /\ fsm'.nul = fsm.nul
        /\ DOMAIN fsm' = {"state", "bol", "nul"}
    BY <1>3, <1>28
  <2>2. p.edge[s][c] \in {"margin", "word", "newline"} /\ c # "eof"
        /\ (p.edge[s][c] # "margin" => s \in {"S0", "word"})
    BY <1>5, <1>28, IndentEdges DEF p
  <2>3. y.txt < y.pos
    <3>1. z.pos = x.pos + 1
      BY <1>9, <1>12, <2>2
    <3>2. x.txt <= x.pos
      BY <1>9 DEF Good, Fit
    <3>3. QED
      BY <1>10, <1>27, <3>1, <3>2
  <2>4. DentState(y, fsm')
    BY <1>22, <1>27, <2>1, <2>2, <2>3 DEF DentState, Looked
  <2>5. y.ded + Len(y.tab) = m.ded + Len(m.tab)
    BY <1>6, <1>27
  <2>6. QED
    BY <1>2, <1>3, <1>9, <1>27, <1>28, <2>1, <2>2, <2>4, <2>5, DentWithin
    DEF IndentStates
<1>29. CASE pc' = "scanned" /\ fsm' = fsm
  <2>1. y.ded + Len(y.tab) = m.ded + Len(m.tab)
    BY <1>6, <1>27
  <2>2. DentHalted(y, fsm)
    <3>1. CASE b /\ s # "word" /\ Dedent(d) /\ y = Take(d, 2, c)
      <4>1. y.cap = 2 /\ Dedent(y) /\ y.mrk
        BY <1>23, <1>25, <1>26, <1>27, <3>1, SameDentsOk
      <4>2. s = "S0" => y.col = 0 /\ b
        BY <1>22, <1>27, <3>1
      <4>3. s # "S0" => y.txt < y.cur
        BY <1>25, <3>1
      <4>4. QED
        BY <1>27, <4>1, <4>2, <4>3 DEF DentHalted, Dedented
    <3>2. CASE b /\ s # "word" /\ ~ Dedent(d) /\ Indent(d) /\ y = Take(d, 1, c)
      <4>1. y.cap = 1 /\ Indent(y) /\ y.mrk
        BY <1>23, <1>25, <1>26, <1>27, <3>2, SameDentsOk
      <4>2. s # "S0"
        BY <1>22, <3>2 DEF Indent
      <4>3. y.txt < y.cur
        BY <1>25, <3>2, <4>2
      <4>4. QED
        BY <1>27, <4>1, <4>3 DEF DentHalted, Indented
    <3>3. CASE y = d /\ (b /\ s # "word" => ~ Dedent(d) /\ ~ Indent(d))
      <4>1. y.cap = e.cap /\ (s # "S0" => y.txt < y.cur)
        BY <1>20, <1>24, <3>3
      <4>2. e.cap \in {0, 3, 4} /\ (e.cap # 0 => s # "S0")
        <5>1. CASE s = "S0"
          <6>1. m.cap = 0 /\ ~ (p.accept[s] > 0)
            BY <1>3, <5>1, IndentFacts DEF DentState, p
          <6>2. QED
            BY <1>8, <6>1, <5>1
        <5>2. CASE s # "S0"
          <6>1. p.accept[s] \in {3, 4} /\ p.accept[s] > 0
            BY <1>5, <5>2, IndentFacts DEF p
          <6>2. QED
            BY <1>8, <6>1, <5>2
        <5>3. QED
          BY <5>1, <5>2
      <4>3. ~ b => ~ Moves(y)
        BY <1>27 DEF Looked, Moves, Indent, Dedent
      <4>4. CASE ~ Moves(y)
        BY <1>27, <4>1, <4>2, <4>4 DEF DentHalted, Unmoved
      <4>5. CASE Moves(y)
        <5>1. b /\ s = "word" /\ y.col = 0
          BY <1>22, <1>27, <3>3, <4>3, <4>5 DEF Moves
        <5>2. y.mrk /\ Dedent(y)
          BY <4>5, <5>1 DEF Moves, Indent
        <5>3. QED
          BY <1>27, <5>1, <5>2 DEF DentHalted, Dedented
      <4>6. QED
        BY <4>4, <4>5
    <3>4. QED
      BY <1>18, <3>1, <3>2, <3>3
  <2>3. QED
    BY <1>2, <1>3, <1>9, <1>27, <1>29, <2>1, <2>2, DentWithin
<1>30. QED
  BY <1>9, <1>28, <1>29

LEMMA DentRescan == ASSUME Usual, IsIndentLexer, Inv, DentInv, Rescan PROVE DentInv'
<1> DEFINE r == Restopped(m)
           y == [r EXCEPT !.ded = r.ded + Len(r.tab), !.tab = <<>>, !.pos = r.ind]
           z == [y EXCEPT !.cap = 0, !.cur = y.pos]
<1>1. /\ pc = "scanned" /\ r.ded > 0 /\ r.col = 0 /\ fsm.bol
      /\ m' = z /\ pc' = "fsm"
      /\ fsm' = [state |-> Current.start, bol |-> FALSE, nul |-> FALSE]
      /\ UNCHANGED <<text, fed, user, token>>
  BY DEF Rescan, Start
<1>2. DentHalted(m, fsm) /\ DentOk(m) /\ DOMAIN m = Fields /\ m.ind \in Nat
  BY <1>1 DEF DentInv, Inv, Good, Fit
<1>3. /\ DentOk(r) /\ DOMAIN r = Fields /\ r.ind = m.ind /\ r.mrk = m.mrk
      /\ r.col = m.col
      /\ ~ (m.mrk /\ Indent(m)) => r.ded + Len(r.tab) = m.ded + Len(m.tab)
  BY <1>2, RestoppedStops, RestoppedFacts DEF Fields
<1> HIDE DEF r
<1>4. ~ Indent(m)
  BY <1>1, <1>3 DEF Indent
<1>5. /\ DOMAIN y = Fields /\ y.ded = r.ded + Len(r.tab) /\ y.tab = <<>>
      /\ y.pos = r.ind /\ y.ind = r.ind /\ y.mrk = r.mrk /\ y.col = r.col
  BY <1>3 DEF Fields
<1> HIDE DEF y
<1>6. /\ z.ded = y.ded /\ z.tab = <<>> /\ z.pos = m.ind /\ z.ind = m.ind
      /\ z.mrk = m.mrk /\ z.col = 0 /\ z.cap = 0
  BY <1>1, <1>3, <1>5 DEF Fields
<1> HIDE DEF z
<1>7. Len(r.tab) \in Nat /\ r.ded \in Nat /\ m.mrk \in BOOLEAN
  BY <1>2, <1>3 DEF DentOk, Stops
<1>8. z.ded \in Nat /\ z.ded + Len(z.tab) = m.ded + Len(m.tab)
  BY <1>3, <1>4, <1>5, <1>6, <1>7
<1>9. DentOk(z)
  <2>1. Stops(z.tab)
    BY <1>6 DEF Stops, Increasing
  <2>2. z.mrk \in BOOLEAN
    BY <1>6, <1>7
  <2>3. z.col \in Nat
    BY <1>6
  <2>4. QED
    BY <1>8, <2>1, <2>2, <2>3 DEF DentOk
<1>10. fsm'.state = "S0" /\ fsm'.bol = FALSE /\ DOMAIN fsm' = {"state", "bol", "nul"}
  BY <1>1, IndentFacts
<1>11. DentState(z, fsm')
  <2>1. z.ind <= z.pos
    BY <1>2, <1>6
  <2>2. QED
    BY <1>6, <1>10, <2>1 DEF DentState, Looked
<1>12. QED
  BY <1>1, <1>8, <1>9, <1>10, <1>11, DentWithin DEF IndentStates

LEMMA DentScanEnd == ASSUME Usual, IsIndentLexer, Inv, DentInv, ScanEnd PROVE DentInv'
<1> DEFINE r == Restopped(m)
           y == [r EXCEPT !.ded = IF r.ded > 0 THEN r.ded - 1 ELSE r.ded,
                          !.cur = IF r.cap = 0 THEN r.txt ELSE r.cur,
                          !.len = (IF r.cap = 0 THEN r.txt ELSE r.cur) - r.txt]
           w == [y EXCEPT !.pos = y.cur]
<1>1. /\ pc = "scanned" /\ pc' = "deliver" /\ UNCHANGED <<text, fsm, user, token>>
      /\ r.ded = 0 \/ r.col # 0 \/ ~ fsm.bol
      /\ \/ /\ y.len = 0 /\ ~ fsm.nul
            /\ \E k \in Chunks(w) :
                 m' = [SetCurrent(Ready(w, k)) EXCEPT !.cap = 0] /\ fed' = fed + k
         \/ /\ ~ (y.len = 0 /\ ~ fsm.nul)
            /\ m' = IF y.len = 0 /\ y.cur = y.end THEN y ELSE SetCurrent(y)
            /\ fed' = fed
  BY DEF ScanEnd
<1>2. /\ DentHalted(m, fsm) /\ DentOk(m) /\ DOMAIN m = Fields /\ Owes(m, FALSE)
      /\ user \in [indents : Nat, dedents : Nat]
      /\ DOMAIN fsm = {"state", "bol", "nul"} /\ fsm.bol \in BOOLEAN
      /\ Good(m, fed) /\ m.txt \in Nat /\ m.cur \in Nat /\ m.chr = "nul"
      /\ Len(text) \in Nat /\ fed \in Nat /\ fed <= Len(text)
  BY <1>1 DEF DentInv, Inv, Good, Fit, Owes
<1>3. /\ DentOk(r) /\ DOMAIN r = Fields /\ r.mrk = m.mrk
      /\ r.col = m.col /\ r.txt = m.txt /\ r.cur = m.cur /\ r.cap = m.cap
  BY <1>2, RestoppedStops, RestoppedFacts DEF Fields
<1>4. /\ ~ Moves(m) => r = m
      /\ m.mrk /\ Indent(m) => r.ded = m.ded /\ Len(r.tab) = Len(m.tab) + 1
      /\ m.mrk /\ Dedent(m) => r.ded + Len(r.tab) = m.ded + Len(m.tab) /\ r.ded > m.ded
  BY <1>2, RestoppedStops
<1> HIDE DEF r
<1>5. /\ DOMAIN y = Fields /\ y.tab = r.tab /\ y.mrk = r.mrk /\ y.col = r.col
      /\ y.ded = IF r.ded > 0 THEN r.ded - 1 ELSE r.ded
      /\ y.cap = r.cap /\ y.txt = m.txt
      /\ y.len = (IF m.cap = 0 THEN m.txt ELSE m.cur) - m.txt
  BY <1>3 DEF Fields
<1> HIDE DEF y
<1>6. /\ m.ded \in Nat /\ r.ded \in Nat /\ Len(m.tab) \in Nat /\ Len(r.tab) \in Nat
  BY <1>2, <1>3 DEF DentOk, Stops
<1>7. user.indents = user.dedents + m.ded + Len(m.tab)
      /\ user.indents \in Nat /\ user.dedents \in Nat
  <2>1. user.indents \in Nat /\ user.dedents \in Nat
    BY <1>2
  <2>2. user.indents + 0 = user.dedents + 0 + m.ded + Len(m.tab)
    BY <1>2 DEF Owes
  <2>3. QED
    BY <1>6, <2>1, <2>2
<1>8. DentOk(y)
  <2>1. y.ded \in Nat
    BY <1>5, <1>6
  <2>2. Stops(y.tab) /\ y.col \in Nat /\ y.mrk \in BOOLEAN
    BY <1>3, <1>5 DEF DentOk
  <2>3. QED
    BY <2>1, <2>2 DEF DentOk
\* What is owed is the match, and it is not empty, or it is a dedent.
<1>9. /\ Owes(y, TRUE) /\ y.cap \in 0 .. 5
      /\ y.cap # 0 => fsm.nul \/ y.len # 0
  <2> DEFINE c == m.ded
             d == Len(m.tab)
             g == r.ded
             h == Len(r.tab)
             i == user.indents
             j == user.dedents
             k == IF g > 0 THEN g - 1 ELSE g
  <2>1. /\ c \in Nat /\ d \in Nat /\ g \in Nat /\ h \in Nat /\ i \in Nat /\ j \in Nat
        /\ i = j + c + d /\ y.ded = k /\ Len(y.tab) = h /\ y.cap = m.cap
    BY <1>3, <1>5, <1>6, <1>7
  <2>2. CASE Repeated(m, fsm)
    <3>1. r = m /\ m.cap = 2 /\ c > 0 /\ fsm.nul
      BY <1>4, <2>2 DEF Repeated
    <3>2. g = c /\ h = d
      BY <3>1
    <3> HIDE DEF c, d, g, h, i, j
    <3>3. i + 0 = j + 1 + k + h
      BY <2>1, <3>1, <3>2
    <3>4. QED
      BY <2>1, <3>1, <3>3 DEF Owes, i, j
  <2>3. CASE Unmoved(m)
    <3>1. r = m /\ m.cap \in {0, 3, 4, 5} /\ c = 0 /\ (m.cap # 0 => m.txt < m.cur)
      BY <1>4, <2>3 DEF Unmoved
    <3>2. g = c /\ h = d
      BY <3>1
    <3>3. m.cap # 0 => y.len # 0
      BY <1>2, <1>5, <3>1
    <3> HIDE DEF c, d, g, h, i, j
    <3>4. i + 0 = j + 0 + k + h
      BY <2>1, <3>1, <3>2
    <3>5. m.cap # 1 /\ m.cap # 2 /\ m.cap \in 0 .. 5
      BY <3>1
    <3>6. QED
      BY <2>1, <3>3, <3>4, <3>5 DEF Owes, i, j
  <2>4. CASE Indented(m)
    <3>1. m.cap = 1 /\ c = 0 /\ m.txt < m.cur /\ g = c /\ h = d + 1
      BY <1>4, <2>4 DEF Indented
    <3>2. y.len # 0
      BY <1>2, <1>5, <3>1
    <3> HIDE DEF c, d, g, h, i, j
    <3>3. i + 1 = j + 0 + k + h
      BY <2>1, <3>1
    <3>4. QED
      BY <2>1, <3>1, <3>2, <3>3 DEF Owes, i, j
  <2>5. CASE Dedented(m, fsm)
    <3>1. c = 0 /\ g + h = c + d /\ g > c
      BY <1>4, <2>5 DEF Dedented
    <3>2. ~ (m.col = 0 /\ fsm.bol)
      BY <1>1, <1>3, <2>1, <3>1
    <3>3. m.cap = 2 /\ m.txt < m.cur
      BY <2>5, <3>2 DEF Dedented
    <3>4. y.len # 0
      BY <1>2, <1>5, <3>3
    <3> HIDE DEF c, d, g, h, i, j
    <3>5. i + 0 = j + 1 + k + h
      BY <2>1, <3>1
    <3>6. QED
      BY <2>1, <3>3, <3>4, <3>5 DEF Owes, i, j
  <2>6. QED
    BY <1>2, <2>2, <2>3, <2>4, <2>5 DEF DentHalted
<1>10. ASSUME NEW v, SameDents(y, v), v.cap = y.cap, m' = v
       PROVE  DentInv'
  <2>1. DentOk(v) /\ Owes(v, TRUE)
    BY <1>8, <1>9, <1>10, SameDentsOk
  <2>2. (Owes(m, TRUE))' /\ DentOk(m)'
    BY <1>1, <1>10, <2>1 DEF Owes, DentOk
  <2>3. QED
    BY <1>1, <1>2, <1>9, <1>10, <2>2 DEF DentInv, Owes
<1>11. /\ DOMAIN w = Fields /\ SameDents(y, w) /\ w.cap = y.cap
  BY <1>5 DEF Fields, SameDents
<1>12. ASSUME NEW v, DOMAIN v = Fields
       PROVE  LET u == SetCurrent(v) IN
              DOMAIN u = Fields /\ SameDents(v, u) /\ u.cap = v.cap
  BY <1>12 DEF SetCurrent, Fields, SameDents
<1>13. CASE ~ (y.len = 0 /\ ~ fsm.nul)
  <2>1. m' = y \/ m' = SetCurrent(y)
    BY <1>1, <1>13
  <2>2. SameDents(y, y)
    BY DEF SameDents
  <2>3. SameDents(y, m') /\ m'.cap = y.cap
    BY <1>5, <1>12, <2>1, <2>2
  <2>4. QED
    BY <1>10, <2>3
<1>14. CASE y.len = 0 /\ ~ fsm.nul
  <2>1. y.cap = 0
    BY <1>9, <1>14
  <2>2. PICK k \in Chunks(w) :
          m' = [SetCurrent(Ready(w, k)) EXCEPT !.cap = 0] /\ fed' = fed + k
    BY <1>1, <1>14
  <2> HIDE DEF w
  <2>3. DOMAIN Ready(w, k) = Fields /\ SameDents(w, Ready(w, k)) /\ Ready(w, k).cap = w.cap
    BY <1>11, ReadyDents
  <2> DEFINE v == SetCurrent(Ready(w, k))
  <2>4. DOMAIN v = Fields /\ SameDents(Ready(w, k), v)
    BY <1>12, <2>3
  <2> HIDE DEF v
  <2>5. DOMAIN m' = Fields /\ SameDents(v, m') /\ m'.cap = 0
    BY <2>2, <2>4 DEF Fields, SameDents, v
  <2>6. SameDents(y, m')
    BY <1>11, <2>3, <2>4, <2>5 DEF SameDents
  <2>7. QED
    BY <1>10, <2>1, <2>5, <2>6
<1>15. QED
  BY <1>13, <1>14

LEMMA DentDeliver == ASSUME Usual, IsIndentLexer, Inv, DentInv, Deliver PROVE DentInv'
<1> DEFINE t == Terminated(m)
           x == Counted(t)
           part == [i \in 1 .. x.len |-> x.buf[x.txt + i - 1]]
<1>1. /\ pc = "deliver" /\ m' = x /\ UNCHANGED <<text, fed, fsm>>
      /\ user' = IF x.cap > 0 THEN Act(user, x.cap, part) ELSE user
      /\ pc' = IF x.cap > 0 THEN "loop" ELSE "done"
  BY DEF Deliver
<1>2. /\ DentOk(m) /\ DOMAIN m = Fields /\ Owes(m, TRUE) /\ m.cap \in 0 .. 5
      /\ user \in [indents : Nat, dedents : Nat]
      /\ DOMAIN fsm = {"state", "bol", "nul"} /\ fsm.bol \in BOOLEAN
  BY <1>1 DEF DentInv, Inv, Good, Fit, Owes
<1>3. DOMAIN t = Fields /\ SameDents(m, t) /\ t.cap = m.cap
  BY <1>2 DEF Terminated, Fields, SameDents
<1> HIDE DEF t
<1>4. DOMAIN x = Fields /\ SameDents(m, x) /\ x.cap = m.cap
  BY <1>3, CountedFacts DEF Fields, SameDents
<1> HIDE DEF x, part
<1>5. DentOk(x)
  BY <1>2, <1>4, SameDentsOk
<1> DEFINE r == m.cap
           i == user.indents
           j == user.dedents
           d == x.ded + Len(x.tab)
<1>6. /\ i \in Nat /\ j \in Nat /\ d \in Nat
      /\ i + (IF r = 1 THEN 1 ELSE 0) = j + (IF r = 2 THEN 1 ELSE 0) + d
  <2>1. i \in Nat /\ j \in Nat
    BY <1>2
  <2>2. x.ded \in Nat /\ Len(x.tab) \in Nat
    BY <1>5 DEF DentOk, Stops
  <2>3. i + (IF r = 1 THEN 1 ELSE 0) = j + (IF r = 2 THEN 1 ELSE 0) + x.ded + Len(x.tab)
    BY <1>2, <1>4 DEF Owes, SameDents
  <2> HIDE DEF i, j, r
  <2>4. QED
    BY <2>1, <2>2, <2>3
<1>7. /\ user' \in [indents : Nat, dedents : Nat]
      /\ user'.indents = user'.dedents + d
  <2>1. user' = CASE r = 1 -> [user EXCEPT !.indents = @ + 1]
                  [] r = 2 -> [user EXCEPT !.dedents = @ + 1]
                  [] OTHER -> user
    <3>1. CASE r > 0
      BY <1>1, <1>4, <3>1 DEF IsIndentLexer, CountAct
    <3>2. CASE ~ (r > 0)
      <4>1. r = 0
        BY <1>2, <3>2
      <4>2. user' = user
        BY <1>1, <1>4, <3>2
      <4>3. QED
        BY <4>1, <4>2
    <3>3. QED
      BY <3>1, <3>2
  <2>2. CASE r = 1
    <3>1. user' = [user EXCEPT !.indents = @ + 1]
      BY <2>1, <2>2
    <3>2. user'.indents = i + 1 /\ user'.dedents = j
      BY <1>2, <3>1
    <3>3. user' \in [indents : Nat, dedents : Nat]
      BY <1>2, <3>1
    <3>4. QED
      BY <1>6, <2>2, <3>2, <3>3
  <2>3. CASE r = 2
    <3>1. user' = [user EXCEPT !.dedents = @ + 1]
      BY <2>1, <2>3
    <3>2. user'.indents = i /\ user'.dedents = j + 1
      BY <1>2, <3>1
    <3>3. user' \in [indents : Nat, dedents : Nat]
      BY <1>2, <3>1
    <3> HIDE DEF d
    <3>4. i + 0 = j + 1 + d
      BY <1>6, <2>3
    <3>5. QED
      BY <1>6, <3>2, <3>3, <3>4
  <2>4. CASE r # 1 /\ r # 2
    <3>1. user' = user
      BY <2>1, <2>4
    <3> HIDE DEF d
    <3>2. i + 0 = j + 0 + d
      BY <1>6, <2>4
    <3>3. QED
      BY <1>2, <1>6, <3>1, <3>2
  <2>5. QED
    BY <2>2, <2>3, <2>4
<1>8. pc' \in {"loop", "done"}
  BY <1>1
<1>9. (Owes(m, pc = "deliver"))' /\ DentOk(m)'
  <2>1. m' = x /\ pc' # "deliver"
    BY <1>1, <1>8
  <2>2. user'.indents \in Nat /\ user'.dedents \in Nat
    BY <1>7
  <2>3. x.ded \in Nat /\ Len(x.tab) \in Nat
    BY <1>5 DEF DentOk, Stops
  <2>4. user'.indents + 0 = user'.dedents + 0 + x.ded + Len(x.tab)
    <3> DEFINE a == user'.indents
               b == user'.dedents
               e == x.ded
               g == Len(x.tab)
    <3>1. a \in Nat /\ b \in Nat /\ e \in Nat /\ g \in Nat /\ a = b + (e + g)
      BY <1>7, <2>2, <2>3
    <3> HIDE DEF a, b, e, g
    <3>2. a + 0 = b + 0 + e + g
      BY ONLY <3>1
    <3>3. QED
      BY <3>2 DEF a, b, e, g
  <2>5. QED
    BY <1>5, <2>1, <2>4 DEF Owes, DentOk
<1>10. QED
  BY <1>1, <1>2, <1>7, <1>8, <1>9 DEF DentInv

LEMMA DentFinish == ASSUME Inv, DentInv, Finish PROVE DentInv'
<1>1. PICK k \in Chunks(m) : m' = Ready(m, k)
  BY DEF Finish
<1>2. pc = "loop" /\ pc' = "done" /\ UNCHANGED <<fsm, user>> /\ DOMAIN m = Fields
  BY DEF Finish, Inv, Good, Fit
<1>3. SameDents(m, m')
  BY <1>1, <1>2, ReadyDents
<1>4. DentOk(m) /\ Owes(m, FALSE)
  BY <1>2 DEF DentInv, Owes
<1>5. DentOk(m') /\ Owes(m', FALSE)
  BY <1>3, <1>4, SameDentsOk
<1>6. (Owes(m, FALSE))' /\ DentOk(m)'
  BY <1>2, <1>5 DEF Owes, DentOk
<1>7. QED
  BY <1>2, <1>6 DEF DentInv, Owes

LEMMA DentNext ==
  ASSUME Usual, IsIndentLexer PROVE Inv /\ DentInv /\ [Next]_vars => DentInv'
<1> SUFFICES ASSUME Inv, DentInv, [Next]_vars PROVE DentInv'
  OBVIOUS
<1>1. CASE Done \/ UNCHANGED vars
  <2>1. UNCHANGED <<text, fed, m, fsm, pc, user, token>>
    BY <1>1 DEF Done, vars
  <2>2. (Owes(m, pc = "deliver"))' /\ DentOk(m)'
    BY <2>1 DEF Owes, DentOk, DentInv
  <2>3. (pc = "fsm" => DentState(m, fsm))' /\ (pc = "scanned" => DentHalted(m, fsm))'
    BY <2>1 DEF DentInv
  <2>4. QED
    BY <2>1, <2>2, <2>3 DEF DentInv
<1>2. QED
  BY <1>1, DentScan, DentFinish, DentJump, DentStep, DentHalt, DentRescan,
     DentScanEnd, DentDeliver
  DEF Next

LEMMA DentSafe ==
  ASSUME Usual, IsIndentLexer PROVE Spec => []Inv /\ []DentInv
<1>1. Init => Inv /\ DentInv
  BY InitInv, DentInit
<1>2. Inv /\ DentInv /\ [Next]_vars => Inv' /\ DentInv'
  BY StepInv, DentNext
<1>3. QED
  BY <1>1, <1>2, PTL DEF Spec

(***************************************************************************)
(* No dedent is lost or returned twice, on every text: not where a line is *)
(* scanned again, not at its end, and not where one dedent drops several   *)
(* stops.                                                                  *)
(***************************************************************************)
THEOREM DentsAreBalanced ==
  ASSUME Fresh = "nul", ShortReads = FALSE, IsIndentLexer
  PROVE  Spec => []DentsBalance
<1>1. Usual
  BY DEF Usual
<1>2. DentInv => DentsBalance
  <2> SUFFICES ASSUME DentInv, pc \in {"loop", "done"}
               PROVE  user.indents = user.dedents + m.ded + Len(m.tab)
    BY DEF DentsBalance, Between
  <2>1. user.indents + 0 = user.dedents + 0 + m.ded + Len(m.tab)
    BY DEF DentInv, Owes
  <2>2. user.indents \in Nat /\ user.dedents \in Nat /\ m.ded \in Nat /\ Len(m.tab) \in Nat
    BY DEF DentInv, DentOk, Stops
  <2>3. QED
    BY <2>1, <2>2
<1>3. QED
  BY <1>1, <1>2, DentSafe, PTL

-----------------------------------------------------------------------------
(***************************************************************************)
(* Where a line begins.  The steps of the token loop, by what they do to   *)
(* the places of the matcher.                                              *)
(***************************************************************************)
LEMMA ScanPlaces ==
  ASSUME Usual, Inv, Scan
  PROVE  /\ DOMAIN m' = Fields /\ m'.num \in Nat /\ m'.txt \in Nat /\ m'.pos \in Nat
         /\ m'.num + m'.txt = m.num + m.cur /\ m'.num + m'.pos = m.num + m.pos
         /\ m'.ind = m'.pos /\ m'.num + m'.txt < fed'
         /\ m'.ded = m.ded /\ m'.tab = m.tab
         /\ m.pos = m.cur => m'.pos = m'.txt
         /\ fsm'.bol = (m.got \in {"bob", "nl"})
         /\ Counts(m) => Counts(m')
<1>1. PICK k \in Chunks(m) : LET x == Ready(m, k) IN
        /\ fed' = fed + k /\ ~ AtEnd(x)
        /\ Start([ResetText(x) EXCEPT !.len = 0, !.txt = x.cur, !.mrk = FALSE,
                                      !.ind = x.pos, !.col = 0],
                 x.got \in {"bob", "nl"})
  BY DEF Scan
<1> DEFINE x == Ready(m, k)
           r == ResetText(x)
           y == [r EXCEPT !.len = 0, !.txt = x.cur, !.mrk = FALSE,
                          !.ind = x.pos, !.col = 0]
           z == [y EXCEPT !.cap = 0, !.cur = r.pos]
<1>2. /\ Good(m, fed) /\ fed \in 0 .. Len(text) /\ Len(text) \in Nat
      /\ m.cur <= m.pos /\ m.num \in Nat /\ m.cur \in Nat /\ m.pos \in Nat
  BY DEF Inv, Good, Fit, Scan
<1>3. Good(x, fed + k) /\ fed \in Nat /\ fed <= Len(text)
      /\ x.cur <= x.pos
  <2>1. Good(x, fed + k) /\ x.cur <= x.pos
    BY <1>2, ReadyGood DEF Usual
  <2>2. fed \in Nat /\ fed <= Len(text)
    BY <1>2
  <2>3. QED
    BY <2>1, <2>2
<1>4. Carried(m, x) /\ (Counts(m) => Counts(x)) /\ DOMAIN x = Fields
  BY <1>2, <1>3, ReadyCarries DEF Carried
<1>5. /\ x.num \in Nat /\ x.pos \in Nat /\ x.cur \in Nat /\ x.end \in Nat
      /\ fed + k = x.num + x.end
  BY <1>3 DEF Good, Fit, Holds
<1>6. x.pos < x.end
  BY <1>1, <1>5 DEF AtEnd
<1>7. SamePlaces(x, r) /\ DOMAIN r = Fields
  <2>1. \/ r = x
        \/ \E b : r = [x EXCEPT !.buf = b, !.chr = "nul"]
    BY Zenon DEF ResetText
  <2> HIDE DEF x, r
  <2>2. QED
    BY <1>4, <2>1 DEF SamePlaces, Fields
<1>8. m' = [y EXCEPT !.cap = 0, !.cur = y.pos] /\ fsm'.bol = (x.got \in {"bob", "nl"})
      /\ fed' = fed + k
  BY <1>1 DEF Start
<1> HIDE DEF x, r
<1>9. DOMAIN y = Fields /\ y.pos = r.pos
  BY <1>7 DEF Fields
<1>10. m' = z
  <2> HIDE DEF y
  <2>1. QED
    BY <1>8, <1>9
<1>11. /\ DOMAIN z = Fields /\ z.num = r.num /\ z.txt = x.cur /\ z.pos = r.pos
       /\ z.ind = x.pos /\ z.ded = r.ded /\ z.tab = r.tab
       /\ z.lpb = r.lpb /\ z.lno = r.lno /\ z.cno = r.cno
  BY <1>7 DEF Fields
<1> HIDE DEF y, z
<1>12. /\ r.num = x.num /\ r.pos = x.pos /\ r.lpb = x.lpb /\ r.lno = x.lno
       /\ r.cno = x.cno /\ r.ded = x.ded /\ r.tab = x.tab
  BY <1>7 DEF SamePlaces, Fields
<1>13. Counts(m) => Counts(z)
  BY <1>4, <1>11, <1>12 DEF Counts
<1>14. /\ z.num + z.txt = m.num + m.cur /\ z.num + z.pos = m.num + m.pos
       /\ z.ind = z.pos /\ z.ded = m.ded /\ z.tab = m.tab /\ x.got = m.got
       /\ z.num \in Nat /\ z.txt \in Nat /\ z.pos \in Nat
  BY <1>4, <1>5, <1>11, <1>12 DEF Carried
<1>15. z.num + z.txt < fed + k
  BY <1>3, <1>5, <1>6, <1>11, <1>12
<1>16. m.pos = m.cur => z.pos = z.txt
  BY <1>14
<1>17. Counts(m) => Counts(m')
  BY <1>10, <1>13
<1>18. QED
  BY <1>8, <1>10, <1>11, <1>14, <1>15, <1>16, <1>17

LEMMA ScanEndPlaces ==
  ASSUME Usual, IsIndentLexer, Inv, DentInv, m.num + m.txt < fed, ScanEnd
  PROVE  LET r == Restopped(m)
             c == IF m.cap = 0 THEN m.txt ELSE m.cur
         IN  /\ DOMAIN m' = Fields /\ fed' = fed
             /\ m'.num = m.num /\ m'.txt = m.txt /\ m'.cur = c /\ m'.pos = c
             /\ m'.cap = m.cap /\ m'.tab = r.tab
             /\ m'.ded = IF r.ded > 0 THEN r.ded - 1 ELSE r.ded
             /\ m'.got = IF c = 0 THEN "unk" ELSE text[m.num + c]
             /\ m'.lpb = m.lpb /\ m'.lno = m.lno /\ m'.cno = m.cno
             /\ m.cap # 0 => m.cap = 2 \/ m.txt < m.cur
<1> DEFINE r == Restopped(m)
           c == IF m.cap = 0 THEN m.txt ELSE m.cur
           y == [r EXCEPT !.ded = IF r.ded > 0 THEN r.ded - 1 ELSE r.ded,
                          !.cur = IF r.cap = 0 THEN r.txt ELSE r.cur,
                          !.len = (IF r.cap = 0 THEN r.txt ELSE r.cur) - r.txt]
           w == [y EXCEPT !.pos = y.cur]
<1>1. /\ pc = "scanned"
      /\ r.ded = 0 \/ r.col # 0 \/ ~ fsm.bol
      /\ \/ /\ y.len = 0 /\ ~ fsm.nul
            /\ \E k \in Chunks(w) :
                 m' = [SetCurrent(Ready(w, k)) EXCEPT !.cap = 0] /\ fed' = fed + k
         \/ /\ ~ (y.len = 0 /\ ~ fsm.nul)
            /\ m' = IF y.len = 0 /\ y.cur = y.end THEN y ELSE SetCurrent(y)
            /\ fed' = fed
  BY DEF ScanEnd
<1>2. /\ DentHalted(m, fsm) /\ DentOk(m) /\ DOMAIN m = Fields /\ Good(m, fed)
      /\ m.txt \in Nat /\ m.cur \in Nat /\ m.chr = "nul" /\ m.num \in Nat
      /\ m.end \in Nat /\ fed \in Nat /\ fed = m.num + m.end
      /\ m.txt <= m.cur /\ m.cur <= m.end
  BY <1>1 DEF DentInv, Inv, Good, Fit, Holds
<1>3. m.txt < m.end /\ c \in Nat /\ c <= m.end /\ m.txt <= c
  BY <1>2
<1>4. /\ DOMAIN r = Fields
      /\ \A f \in Fields \ {"tab", "ded"} : r[f] = m[f]
      /\ DentOk(r) /\ (~ Moves(m) => r = m)
      /\ m.mrk /\ Dedent(m) => r.ded > m.ded
  BY <1>2, RestoppedStops, RestoppedFacts
<1>5. Dedented(m, fsm) => m.cap = 2 /\ m.txt < m.cur
  <2>1. Dedented(m, fsm) => r.ded > 0 /\ r.col = m.col
    BY <1>4 DEF Dedented, Fields
  <2>2. r.ded > 0 => r.ded # 0
    BY <1>4 DEF DentOk
  <2>3. Dedented(m, fsm) => ~ (m.col = 0 /\ fsm.bol)
    BY <1>1, <2>1, <2>2
  <2>4. QED
    BY <2>3 DEF Dedented
<1>6. m.cap # 0 => (m.cap = 2 /\ fsm.nul) \/ m.txt < m.cur
  BY <1>2, <1>5 DEF DentHalted, Repeated, Unmoved, Indented
<1>7. /\ r.cap = m.cap /\ r.txt = m.txt /\ r.cur = m.cur /\ r.num = m.num
      /\ r.end = m.end /\ r.buf = m.buf /\ r.eof = m.eof /\ r.lpb = m.lpb
      /\ r.lno = m.lno /\ r.cno = m.cno
  BY <1>4 DEF Fields
<1> HIDE DEF r
<1>8. /\ DOMAIN y = Fields /\ y.cur = c /\ y.len = c - m.txt
      /\ y.num = m.num /\ y.txt = m.txt /\ y.end = m.end /\ y.buf = m.buf
      /\ y.cap = m.cap /\ y.tab = r.tab /\ y.eof = m.eof
      /\ y.ded = IF r.ded > 0 THEN r.ded - 1 ELSE r.ded
      /\ y.lpb = m.lpb /\ y.lno = m.lno /\ y.cno = m.cno
  BY <1>4, <1>7 DEF Fields
<1> HIDE DEF y
<1> DEFINE g == IF c > 0 THEN m.buf[c - 1] ELSE "unk"
           v == [y EXCEPT !.pos = c, !.got = g]
<1>9. m' = v /\ fed' = fed
  <2>1. CASE y.len = 0 /\ ~ fsm.nul
    <3>1. m.cap = 0 /\ c = m.txt
      BY <1>2, <1>3, <1>6, <1>8, <2>1
    <3>2. PICK k \in Chunks(w) :
            m' = [SetCurrent(Ready(w, k)) EXCEPT !.cap = 0] /\ fed' = fed + k
      BY <1>1, <2>1
    <3>3. w.pos = c /\ w.end = m.end /\ w.cur = c /\ w.buf = m.buf /\ DOMAIN w = Fields
      BY <1>8 DEF Fields
    <3>4. ~ Wants(w)
      BY <1>2, <1>3, <3>1, <3>3 DEF Wants
    <3> HIDE DEF w
    <3>5. k = 0 /\ Ready(w, k) = w
      BY <3>2, <3>4 DEF Chunks, Ready
    <3>6. SetCurrent(w) = [w EXCEPT !.pos = c, !.got = g]
      BY <3>3 DEF SetCurrent
    <3>7. m' = [[w EXCEPT !.pos = c, !.got = g] EXCEPT !.cap = 0]
      BY <3>2, <3>5, <3>6
    <3>8. [[w EXCEPT !.pos = c, !.got = g] EXCEPT !.cap = 0] = v
      <4> HIDE DEF g, c
      <4>1. y.cap = 0
        BY <1>8, <3>1
      <4> HIDE DEF v
      <4> DEFINE u == [[w EXCEPT !.pos = c, !.got = g] EXCEPT !.cap = 0]
      <4>2. DOMAIN u = Fields /\ DOMAIN v = Fields
        BY <1>8, <3>3 DEF v
      <4>3. \A f \in Fields \ {"pos", "got", "cap"} : u[f] = y[f] /\ v[f] = y[f]
        BY <1>8, <3>3 DEF w, v, Fields
      <4>4. u.pos = v.pos /\ u.got = v.got /\ u.cap = v.cap
        BY <1>8, <3>3, <4>1 DEF v, Fields
      <4>5. u = [f \in Fields |-> u[f]] /\ v = [f \in Fields |-> v[f]]
        <5>1. u = [f \in DOMAIN u |-> u[f]]
          OBVIOUS
        <5>2. v = [f \in DOMAIN v |-> v[f]]
          BY DEF v
        <5> HIDE DEF u
        <5>3. QED
          BY <4>2, <5>1, <5>2
      <4> HIDE DEF u
      <4>6. \A f \in Fields : u[f] = v[f]
        BY <4>3, <4>4 DEF Fields
      <4>7. u = v
        BY <4>5, <4>6
      <4>8. QED
        BY <4>7 DEF u
    <3>9. fed' = fed
      BY <1>2, <3>2, <3>5
    <3>10. QED
      BY <3>7, <3>8, <3>9
  <2>2. CASE ~ (y.len = 0 /\ ~ fsm.nul)
    <3>1. ~ (y.len = 0 /\ y.cur = y.end)
      BY <1>2, <1>3, <1>8
    <3>2. m' = SetCurrent(y) /\ fed' = fed
      BY <1>1, <2>2, <3>1
    <3> HIDE DEF c
    <3>3. SetCurrent(y) = v
      BY <1>8 DEF SetCurrent
    <3>4. QED
      BY <3>2, <3>3
  <2>3. QED
    BY <2>1, <2>2
<1>10. c # 0 => m.buf[c - 1] = text[m.num + c]
  <2> HIDE DEF c
  <2>1. c # 0 => c - 1 \in 0 .. m.end - 1 /\ m.num + (c - 1) + 1 = m.num + c
    BY <1>2, <1>3
  <2>2. \A i \in 0 .. m.end - 1 : m.buf[i] = text[m.num + i + 1]
    BY <1>2 DEF Good, Holds, At
  <2>3. QED
    BY <2>1, <2>2
<1>11. g = IF c = 0 THEN "unk" ELSE text[m.num + c]
  <2> HIDE DEF c
  <2>1. QED
    BY <1>3, <1>10
<1> HIDE DEF c, g
<1>12. /\ DOMAIN v = Fields /\ v.num = m.num /\ v.txt = m.txt /\ v.cur = c /\ v.pos = c
       /\ v.cap = m.cap /\ v.tab = r.tab /\ v.got = g
       /\ v.ded = IF r.ded > 0 THEN r.ded - 1 ELSE r.ded
       /\ v.lpb = m.lpb /\ v.lno = m.lno /\ v.cno = m.cno
  BY <1>8 DEF Fields
<1> HIDE DEF v
<1>13. QED
  BY <1>6, <1>9, <1>11, <1>12 DEF c, r

LEMMA DeliverPlaces ==
  ASSUME Inv, Deliver
  PROVE  /\ DOMAIN m' = Fields
         /\ m'.num = m.num /\ m'.txt = m.txt /\ m'.cur = m.cur /\ m'.pos = m.pos
         /\ m'.cap = m.cap /\ m'.tab = m.tab /\ m'.ded = m.ded /\ m'.got = m.got
         /\ m'.lpb = m.txt /\ (Counts(m) => Counts(m'))
         /\ token'.rule = m.cap /\ token'.col = m'.cno
         /\ pc' = IF m.cap > 0 THEN "loop" ELSE "done"
<1> DEFINE t == Terminated(m)
           x == Counted(t)
           part == [i \in 1 .. x.len |-> x.buf[x.txt + i - 1]]
<1>1. /\ pc = "deliver" /\ m' = x
      /\ pc' = IF x.cap > 0 THEN "loop" ELSE "done"
      /\ token'.rule = x.cap /\ token'.col = x.cno
  BY DEF Deliver
<1>2. /\ DOMAIN m = Fields /\ Good(m, fed) /\ m.chr = "nul" /\ Full
      /\ Len(text) \in Nat /\ fed \in Nat /\ fed <= Len(text)
  BY <1>1 DEF Inv, Good, Fit
<1>3. SamePlaces(m, t) /\ DOMAIN t = Fields
  <2> DEFINE b == [m.buf EXCEPT ![m.txt + m.len] = "nul"]
             c == m.buf[m.txt + m.len]
  <2>1. t = [m EXCEPT !.chr = c, !.buf = b]
    BY <1>2 DEF Terminated
  <2> HIDE DEF t, b, c
  <2>2. QED
    BY <1>2, <2>1 DEF SamePlaces, Fields
<1>4. Good(t, fed)
  BY <1>2, TerminatedGood DEF Full
<1>5. Counts(m) => Counts(t)
  BY <1>2, <1>3, SamePlacesCarry
<1> HIDE DEF t
<1>6. Counts(t) => Counts(x)
  BY <1>2, <1>4, CountedText
<1>7. /\ DOMAIN x = Fields /\ x.lpb = t.txt
      /\ x.num = t.num /\ x.txt = t.txt /\ x.cur = t.cur /\ x.pos = t.pos
      /\ x.cap = t.cap /\ x.tab = t.tab /\ x.ded = t.ded /\ x.got = t.got
  BY <1>3, CountedFacts DEF Fields
<1> HIDE DEF x
<1>8. /\ t.num = m.num /\ t.txt = m.txt /\ t.cur = m.cur /\ t.pos = m.pos
      /\ t.cap = m.cap /\ t.tab = m.tab /\ t.ded = m.ded /\ t.got = m.got
  BY <1>3 DEF SamePlaces, Fields
<1>9. Counts(m) => Counts(m')
  BY <1>1, <1>5, <1>6
<1>10. QED
  BY <1>1, <1>7, <1>8, <1>9

LEMMA MetasPlaces ==
  ASSUME NEW x, DOMAIN x = Fields, NEW p, NEW s, NEW c
  PROVE  LET y == Metas(x, p, s, c) IN
         DOMAIN y = Fields /\ y.num = x.num /\ y.txt = x.txt
<1> DEFINE edges == p.meta[s]
           y == IF fsm.bol /\ \E i \in DOMAIN edges : edges[i].label \in {"DED", "IND"}
                THEN Newline(x) ELSE x
           holds == {i \in DOMAIN edges : MetaHolds(edges[i].label, y, c)}
           r == edges[Min(holds)].rule
<1>1. DOMAIN Newline(x) = Fields /\ Newline(x).num = x.num /\ Newline(x).txt = x.txt
  BY NewlineFacts DEF Fields
<1>2. DOMAIN y = Fields /\ y.num = x.num /\ y.txt = x.txt
  BY <1>1
<1>3. Metas(x, p, s, c) = y \/ Metas(x, p, s, c) = Take(y, r, c)
  BY DEF Metas
<1> HIDE DEF y, r
<1>4. DOMAIN Take(y, r, c) = Fields /\ Take(y, r, c).num = y.num
      /\ Take(y, r, c).txt = y.txt
  BY <1>2 DEF Take, Fields
<1>5. QED
  BY <1>2, <1>3, <1>4

\* The character in front of the match that comes next; it is not known
\* behind an empty dedent at the front of the buffer.
NoBob == \A t \in Texts : \A i \in DOMAIN t : t[i] # "bob"

BeginInv ==
  /\ \A i \in 1 .. Len(text) : text[i] # "bob"
  /\ Scanning => m.num + m.txt < fed
  /\ pc \in {"loop", "deliver"} => m.pos = m.cur
  /\ pc = "deliver" => /\ m.got = IF m.cur = 0 THEN "unk" ELSE text[m.num + m.cur]
                       /\ m.cap # 0 /\ m.cur = 0 => m.cap = 2
  /\ BeginOfLineKnown

LEMMA BeginInit == ASSUME NoBob, Init PROVE BeginInv
<1>1. /\ m.got = "bob" /\ m.num = 0 /\ m.cur = 0 /\ m.pos = 0 /\ pc = "loop"
      /\ text \in Texts
  BY DEF Init, NewMatcher
<1>2. \A i \in 1 .. Len(text) : text[i] # "bob"
  <2>1. DOMAIN text = 1 .. Len(text)
    BY <1>1, TextAssumption
  <2>2. QED
    BY <1>1, <2>1 DEF NoBob
<1>3. Begins
  BY <1>1 DEF Begins
<1>4. BeginOfLineKnown
  BY <1>1, <1>3 DEF BeginOfLineKnown
<1>5. QED
  BY <1>1, <1>2, <1>4 DEF BeginInv, Scanning

LEMMA BeginWithin ==
  ASSUME Usual, Inv, BeginInv, Jump \/ Halt \/ Step \/ Rescan
  PROVE  m'.num + m'.txt = m.num + m.txt /\ fed <= fed' /\ BeginInv'
<1>1. /\ pc \in {"fsm", "scanned"} /\ pc' \in {"fsm", "scanned"} /\ text' = text
      /\ DOMAIN m = Fields /\ m.num + m.txt < fed /\ fed \in Nat
      /\ m.num \in Nat /\ m.txt \in Nat
  <2>1. pc \in {"fsm", "scanned"} /\ pc' \in {"fsm", "scanned"} /\ text' = text
    BY DEF Jump, Halt, Step, Rescan, Start
  <2>2. QED
    BY <2>1 DEF BeginInv, Scanning, Inv, Good, Fit
<1>2. ASSUME NEW p, NEW s
      PROVE  Entered(m, p, s).num = m.num /\ Entered(m, p, s).txt = m.txt
             /\ DOMAIN Entered(m, p, s) = Fields
  <2>1. \/ Entered(m, p, s) = m
        \/ Entered(m, p, s) = [m EXCEPT !.cap = p.accept[s], !.cur = m.pos]
    BY DEF Entered, Take
  <2>2. QED
    BY <1>1, <2>1 DEF Fields
<1>3. m'.num + m'.txt = m.num + m.txt /\ fed <= fed' /\ fed' \in Nat
  <2>1. CASE Jump \/ Halt
    <3>1. m' = Entered(m, Current, fsm.state) /\ fed' = fed
      BY <2>1 DEF Jump, Halt
    <3>2. QED
      BY <1>1, <1>2, <3>1
  <2>2. CASE Step
    <3>1. PICK x, c, z, n : Reads(x, c, z, n)
      BY <2>2, StepFacts
    <3> DEFINE e == Entered(m, Current, fsm.state)
               p == Current
               s == fsm.state
    <3>2. /\ Carried(e, x) /\ Good(x, n) /\ Advanced(x, z) /\ m' = Metas(z, p, s, c)
          /\ fed' = n /\ fed <= n /\ n \in 0 .. Len(text)
      BY <3>1 DEF Reads
    <3>3. x.num + x.txt = m.num + m.txt
      BY <1>2, <3>2 DEF Carried
    <3> HIDE DEF e, p, s
    <3>4. DOMAIN z = Fields /\ z.num = x.num /\ z.txt = x.txt
      BY <3>2 DEF Advanced, Fields
    <3>5. m'.num = z.num /\ m'.txt = z.txt
      BY <3>2, <3>4, MetasPlaces
    <3>6. n \in Nat
      BY <3>2 DEF Good, Fit, Holds
    <3>7. QED
      BY <3>2, <3>3, <3>4, <3>5, <3>6
  <2>3. CASE Rescan
    <3> DEFINE r == Restopped(m)
               y == [r EXCEPT !.ded = r.ded + Len(r.tab), !.tab = <<>>, !.pos = r.ind]
    <3>1. m' = [y EXCEPT !.cap = 0, !.cur = y.pos] /\ fed' = fed
      BY <2>3 DEF Rescan, Start
    <3>2. DOMAIN r = Fields /\ r.num = m.num /\ r.txt = m.txt
      BY <1>1, RestoppedFacts DEF Fields
    <3> HIDE DEF r
    <3>3. DOMAIN y = Fields /\ y.num = r.num /\ y.txt = r.txt
      BY <3>2 DEF Fields
    <3> HIDE DEF y
    <3>4. m'.num = y.num /\ m'.txt = y.txt
      BY <3>1, <3>3 DEF Fields
    <3>5. QED
      BY <1>1, <3>1, <3>2, <3>3, <3>4
  <2>4. QED
    BY <2>1, <2>2, <2>3
<1>4. m'.num + m'.txt < fed'
  <2> DEFINE a == m.num + m.txt
             b == m'.num + m'.txt
  <2>1. b = a /\ a \in Nat /\ a < fed /\ fed <= fed' /\ fed \in Nat /\ fed' \in Nat
    BY <1>1, <1>3
  <2> HIDE DEF a, b
  <2>2. b < fed'
    BY <2>1
  <2>3. QED
    BY <2>2 DEF b
<1>5. BeginOfLineKnown'
  BY <1>1 DEF BeginOfLineKnown
<1>6. QED
  BY <1>1, <1>3, <1>4, <1>5 DEF BeginInv, Scanning

LEMMA BeginScan == ASSUME Usual, Inv, BeginInv, Scan PROVE BeginInv'
<1>1. pc' = "fsm" /\ text' = text
  BY DEF Scan, Start
<1>2. m'.num + m'.txt < fed'
  BY ScanPlaces
<1>3. QED
  BY <1>1, <1>2 DEF BeginInv, Scanning, BeginOfLineKnown

LEMMA BeginScanEnd ==
  ASSUME Usual, IsIndentLexer, Inv, DentInv, BeginInv, ScanEnd PROVE BeginInv'
<1>1. pc = "scanned" /\ pc' = "deliver" /\ text' = text
  BY DEF ScanEnd
<1>2. m.num + m.txt < fed
  BY <1>1 DEF BeginInv, Scanning
<1> DEFINE c == IF m.cap = 0 THEN m.txt ELSE m.cur
<1>3. /\ fed' = fed /\ m'.num = m.num /\ m'.txt = m.txt /\ m'.cur = c /\ m'.pos = c
      /\ m'.cap = m.cap /\ m'.got = IF c = 0 THEN "unk" ELSE text[m.num + c]
      /\ m.cap # 0 => m.cap = 2 \/ m.txt < m.cur
  BY <1>2, ScanEndPlaces
<1>4. m.cap # 0 /\ c = 0 => m.cap = 2
  <2>1. m.txt \in Nat /\ m.cur \in Nat
    BY DEF Inv, Good, Fit
  <2>2. m.txt < m.cur => m.cur # 0
    BY <2>1
  <2>3. QED
    BY <1>3, <2>2
<1> HIDE DEF c
<1>5. m'.num + m'.txt < fed'
  BY <1>2, <1>3
<1>6. QED
  BY <1>1, <1>3, <1>4, <1>5 DEF BeginInv, Scanning, BeginOfLineKnown

LEMMA BeginDeliver == ASSUME Inv, BeginInv, Deliver PROVE BeginInv'
<1>1. pc = "deliver" /\ text' = text
  BY DEF Deliver
<1>2. /\ m.got = IF m.cur = 0 THEN "unk" ELSE text[m.num + m.cur]
      /\ m.cap # 0 /\ m.cur = 0 => m.cap = 2
      /\ m.pos = m.cur
      /\ \A i \in 1 .. Len(text) : text[i] # "bob"
  BY <1>1 DEF BeginInv
<1>3. /\ m'.num = m.num /\ m'.cur = m.cur /\ m'.pos = m.pos /\ m'.got = m.got
      /\ token'.rule = m.cap /\ pc' = IF m.cap > 0 THEN "loop" ELSE "done"
  BY DeliverPlaces
<1>4. m.num \in Nat /\ m.cur \in Nat /\ m.cur <= m.end /\ m.end \in Nat
      /\ fed = m.num + m.end /\ fed \in 0 .. Len(text) /\ Len(text) \in Nat
  BY DEF Inv, Good, Fit, Holds
<1>5. ASSUME pc' = "loop"
      PROVE  ((m.got \in {"bob", "nl"}) <=> (m.num + m.cur = 0 \/ text[m.num + m.cur] = "nl"))
             \/ (m.got = "unk" /\ m.cur = 0 /\ m.cap = 2)
  <2>1. m.cap # 0
    BY <1>3, <1>5
  <2>2. CASE m.cur = 0
    BY <1>2, <2>1, <2>2
  <2>3. CASE m.cur # 0
    <3>1. m.num + m.cur \in 1 .. Len(text) /\ m.num + m.cur # 0
      BY <1>4, <2>3
    <3>2. QED
      BY <1>2, <2>3, <3>1
  <2>4. QED
    BY <2>2, <2>3
<1>6. BeginOfLineKnown'
  <2>1. SUFFICES ASSUME pc' = "loop"
                 PROVE  (((m.got \in {"bob", "nl"}) <=> Begins) \/ ShiftedDedent)'
    BY DEF BeginOfLineKnown
  <2>2. Begins' <=> (m.num + m.cur = 0 \/ text[m.num + m.cur] = "nl")
    BY <1>1, <1>3 DEF Begins
  <2>3. ShiftedDedent' <=> (m.got = "unk" /\ m.cur = 0 /\ m.cap = 2)
    BY <1>3 DEF ShiftedDedent
  <2>4. QED
    BY <1>3, <1>5, <2>1, <2>2, <2>3
<1>7. pc' \in {"loop", "done"}
  BY <1>3
<1>8. QED
  BY <1>1, <1>2, <1>3, <1>6, <1>7 DEF BeginInv, Scanning

LEMMA BeginNext ==
  ASSUME Usual, IsIndentLexer
  PROVE  Inv /\ DentInv /\ BeginInv /\ [Next]_vars => BeginInv'
<1> SUFFICES ASSUME Inv, DentInv, BeginInv, [Next]_vars PROVE BeginInv'
  OBVIOUS
<1>1. CASE Done \/ UNCHANGED vars
  <2>1. UNCHANGED <<text, fed, m, fsm, pc, user, token>>
    BY <1>1 DEF Done, vars
  <2>2. BeginOfLineKnown'
    BY <2>1 DEF BeginInv, BeginOfLineKnown, Begins, ShiftedDedent
  <2>3. QED
    BY <2>1, <2>2 DEF BeginInv, Scanning
<1>2. CASE Finish
  <2>1. text' = text /\ pc' = "done"
    BY <1>2 DEF Finish
  <2>2. QED
    BY <2>1 DEF BeginInv, Scanning, BeginOfLineKnown
<1>3. QED
  BY <1>1, <1>2, BeginWithin, BeginScan, BeginScanEnd, BeginDeliver DEF Next

LEMMA BeginSafe ==
  ASSUME Usual, IsIndentLexer, NoBob
  PROVE  Spec => []Inv /\ []DentInv /\ []BeginInv
<1>1. Init => BeginInv
  BY BeginInit
<1>2. Inv /\ DentInv /\ BeginInv /\ [Next]_vars => BeginInv'
  BY BeginNext
<1>3. Spec => []Inv /\ []DentInv
  BY DentSafe
<1>4. QED
  BY <1>1, <1>2, <1>3, PTL DEF Spec

(***************************************************************************)
(* Between two scans the matcher knows, on every text, whether it is at    *)
(* the begin of a line, wherever the buffer was shifted; except behind an  *)
(* empty dedent of a line that a shift had moved to its front.             *)
(***************************************************************************)
THEOREM LineBeginIsKnown ==
  ASSUME Fresh = "nul", ShortReads = FALSE, IsIndentLexer, NoBob
  PROVE  Spec => []BeginOfLineKnown
<1>1. Usual
  BY DEF Usual
<1>2. BeginInv => BeginOfLineKnown
  BY DEF BeginInv
<1>3. QED
  BY <1>1, <1>2, BeginSafe, PTL

-----------------------------------------------------------------------------
(***************************************************************************)
(* The stops and the lines: a is the place where a scan begins, q the end  *)
(* of what has been read or matched, both in the text.                     *)
(***************************************************************************)
Spaces == {"sp", "tab"}

BeginAt(a) == a = 0 \/ text[a] = "nl"
FirstAt(a) == \A i \in 1 .. a : text[i] = "a" => \E j \in i .. a : text[j] = "nl"

\* No margin begins behind a, but for one blank at the end of the text.
Ahead(a) == a < Len(text) /\ text[a + 1] \in Spaces => a + 1 = Len(text)

\* The last of the stops s is the column of a.
Aligned(s, a) ==
  s = <<>> \/ (s[Len(s)] = Cursor!ColumnAt(text, a) /\ Cursor!ColumnAt(text, a) > 0)

\* The matcher is at a.  When it has pending dedents, or is behind the margin of
\* a line and does not take that for the begin of one, the margin is read.
Known(x, a, known) ==
  /\ x.ded > 0 => Ahead(a)
  /\ ~ known /\ FirstAt(a) =>
       Ahead(a) /\ (a < Len(text) /\ text[a + 1] = "a" => Aligned(x.tab, a))

AllSpaces(a, q) == \A i \in a + 1 .. q : text[i] \in Spaces

LineState(x, f) ==
  LET a == x.num + x.txt
      q == x.num + x.pos
      s == f.state
  IN  /\ Known(x, a, f.bol) /\ (f.bol => BeginAt(a))
      /\ s \in {"S0", "dedent"} => x.pos = x.txt /\ x.ind = x.txt
      /\ s = "margin" => AllSpaces(a, q)
      /\ s = "word" => text[a + 1] = "a" /\ text[q] = "a"
      /\ s = "newline" => text[a + 1] = "nl" /\ text[q] = "nl"
      /\ s \notin {"S0", "dedent"} /\ f.bol => x.mrk
      /\ s \in {"word", "newline"} => x.ind = x.txt
      /\ s = "margin" /\ f.bol =>
           x.pos = x.ind + 1 /\ x.col = Cursor!ColumnAt(text, x.num + x.ind)

LineHalted(x, f) ==
  LET a == x.num + x.txt
      q == x.num + x.cur
  IN  /\ Known(x, a, f.bol) /\ (f.bol => BeginAt(a))
      /\ x.ded > 0 => x.cur = x.txt /\ x.ind = x.txt
      /\ x.ded = 0 /\ x.mrk /\ Dedent(x) /\ x.col = 0 /\ f.bol =>
           Ahead(a) /\ x.ind = x.txt
      /\ x.cap = 3 => /\ text[a + 1] = "a" /\ text[q] = "a"
                      /\ f.bol => x.mrk /\ x.col = 0
      /\ x.cap = 5 => text[q] = "nl"
      /\ x.cap \in {1, 2, 4} /\ x.txt < x.cur =>
           /\ AllSpaces(a, q)
           /\ q < Len(text) => text[q + 1] \notin Spaces
           /\ q < Len(text) /\ f.bol =>
                x.mrk /\ x.col = Cursor!ColumnAt(text, q) /\ x.col > 0

LineMatched(x) ==
  LET a == x.num + x.txt
      q == x.num + x.cur
  IN  x.cap # 0 => /\ Known(x, q, x.got \in {"bob", "nl"})
                   /\ x.cap = 3 /\ FirstAt(a) => x.ded = 0 /\ Aligned(x.tab, a)

LineInv ==
  /\ \A i \in 1 .. Len(text) :
       text[i] \notin {"bob", "eof"} /\ AsChar(text[i]) # "eof"
  /\ Counts(m)
  /\ pc = "fsm" => LineState(m, fsm)
  /\ pc = "scanned" => LineHalted(m, fsm)
  /\ pc = "deliver" => LineMatched(m)
  /\ pc = "loop" => /\ Known(m, m.num + m.cur, m.got \in {"bob", "nl"})
                    /\ token.rule = 3 /\ FirstAt(m.num + m.txt) =>
                         /\ m.ded = 0 /\ Aligned(m.tab, m.num + m.txt)
                         /\ token.col = Cursor!ColumnAt(text, m.num + m.txt)

LineTexts ==
  \A t \in Texts : \A i \in DOMAIN t : t[i] \notin {"bob", "eof"} /\ AsChar(t[i]) # "eof"

\* What is known of the places of the text by Inv.
LEMMA TextPlaces ==
  ASSUME Inv
  PROVE  /\ Len(text) \in Nat /\ fed \in Nat /\ fed <= Len(text) /\ fed = m.num + m.end
         /\ DOMAIN m = Fields /\ Good(m, fed)
         /\ m.num \in Nat /\ m.txt \in Nat /\ m.cur \in Nat /\ m.pos \in Nat
         /\ m.ind \in Nat /\ m.end \in Nat
         /\ m.txt <= m.pos /\ m.txt <= m.cur /\ m.txt <= m.ind
         /\ m.pos <= m.end /\ m.cur <= m.end
<1>1. Len(text) \in Nat /\ fed \in 0 .. Len(text)
  BY DEF Inv
<1>2. fed \in Nat /\ fed <= Len(text)
  BY <1>1
<1>3. QED
  BY <1>1, <1>2 DEF Inv, Good, Fit, Holds

LEMMA KnownBy ==
  ASSUME NEW x, NEW y, NEW a, NEW known, Known(x, a, known), y.ded = x.ded, y.tab = x.tab
  PROVE  Known(y, a, known)
BY DEF Known

\* Another text is not looked at.
LEMMA LineWithin ==
  ASSUME LineInv, text' = text, NEW y, m' = y, Counts(y),
         pc' \in {"fsm", "scanned", "deliver"},
         pc' = "fsm" => LineState(y, fsm'),
         pc' = "scanned" => LineHalted(y, fsm'),
         pc' = "deliver" => LineMatched(y)
  PROVE  LineInv'
<1>1. \A i \in 1 .. Len(text') :
        text'[i] \notin {"bob", "eof"} /\ AsChar(text'[i]) # "eof"
  BY DEF LineInv
<1>2. Counts(m)'
  BY DEF Counts
<1>3. (pc = "fsm" => LineState(m, fsm))'
  BY DEF LineState, Known, Ahead, FirstAt, Aligned, BeginAt, AllSpaces
<1>4. (pc = "scanned" => LineHalted(m, fsm))'
  BY DEF LineHalted, Known, Ahead, FirstAt, Aligned, BeginAt, AllSpaces, Dedent, LastStop
<1>5. (pc = "deliver" => LineMatched(m))'
  BY DEF LineMatched, Known, Ahead, FirstAt, Aligned
<1>6. QED
  BY <1>1, <1>2, <1>3, <1>4, <1>5 DEF LineInv

LEMMA LineInit == ASSUME LineTexts, Init PROVE LineInv
<1>1. /\ m.num = 0 /\ m.cur = 0 /\ m.txt = 0 /\ m.lpb = 0 /\ m.lno = 1 /\ m.cno = 0
      /\ m.ded = 0 /\ m.got = "bob" /\ pc = "loop" /\ text \in Texts
      /\ token.rule = 0
  BY DEF Init, NewMatcher, NoToken
<1>2. DOMAIN text = 1 .. Len(text) /\ Len(text) \in Nat
  BY <1>1, TextAssumption
<1>3. Counts(m)
  BY <1>1, <1>2, ColumnFacts, LineFacts DEF Counts
<1>4. Known(m, m.num + m.cur, m.got \in {"bob", "nl"})
  <2>1. ~ (m.ded > 0) /\ m.got \in {"bob", "nl"}
    BY <1>1
  <2>2. QED
    BY <2>1 DEF Known
<1>5. \A i \in 1 .. Len(text) :
        text[i] \notin {"bob", "eof"} /\ AsChar(text[i]) # "eof"
  BY <1>1, <1>2 DEF LineTexts
<1>6. QED
  BY <1>1, <1>3, <1>4, <1>5 DEF LineInv

LEMMA LineScan ==
  ASSUME Usual, IsIndentLexer, Inv, BeginInv, LineInv, Scan PROVE LineInv'
<1>1. pc = "loop" /\ pc' = "fsm" /\ text' = text /\ fsm'.state = "S0"
  BY IndentFacts DEF Scan, Start
<1>2. /\ Known(m, m.num + m.cur, m.got \in {"bob", "nl"}) /\ Counts(m)
      /\ m.pos = m.cur
      /\ ((m.got \in {"bob", "nl"}) <=> Begins) \/ ShiftedDedent
  BY <1>1 DEF LineInv, BeginInv, BeginOfLineKnown
<1>3. /\ m'.num + m'.txt = m.num + m.cur /\ m'.pos = m'.txt /\ m'.ind = m'.txt
      /\ m'.ded = m.ded /\ m'.tab = m.tab /\ Counts(m')
      /\ fsm'.bol = (m.got \in {"bob", "nl"})
  BY <1>2, ScanPlaces
<1>4. fsm'.bol => BeginAt(m.num + m.cur)
  BY <1>2, <1>3 DEF ShiftedDedent, Begins, BeginAt
<1>5. Known(m', m.num + m.cur, fsm'.bol)
  BY <1>2, <1>3, KnownBy
<1>6. LineState(m', fsm')
  BY <1>1, <1>3, <1>4, <1>5 DEF LineState
<1>7. QED
  BY <1>1, <1>3, <1>6, LineWithin

LEMMA LineJump ==
  ASSUME Usual, IsIndentLexer, Inv, DentInv, LineInv, Jump PROVE LineInv'
<1> DEFINE s == fsm.state
<1>1. /\ pc = "fsm" /\ m.ded > 0 /\ Current.dent[s] # "none"
      /\ m' = Entered(m, Current, s)
      /\ fsm' = [fsm EXCEPT !.state = Current.dent[s], !.nul = TRUE]
      /\ UNCHANGED <<text, fed, pc, user, token>>
  BY DEF Jump
<1>2. /\ s \in IndentStates /\ DentState(m, fsm)
      /\ DOMAIN fsm = {"state", "bol", "nul"} /\ LineState(m, fsm) /\ Counts(m)
  BY <1>1 DEF DentInv, LineInv
<1>3. s = "S0"
  <2>1. m.ded # 0
    BY <1>1
  <2>2. s # "dedent"
    BY <1>1, IndentFacts
  <2>3. QED
    BY <1>2, <2>1, <2>2 DEF DentState, IndentStates
<1>4. m' = m
  BY <1>1, <1>3, IndentFacts DEF Entered
<1>5. fsm'.state = "dedent" /\ fsm'.bol = fsm.bol
  BY <1>1, <1>2, <1>3, IndentFacts
<1>6. LineState(m, fsm')
  BY <1>2, <1>3, <1>5 DEF LineState
<1>7. QED
  BY <1>1, <1>2, <1>4, <1>6, LineWithin

LEMMA LineHalt ==
  ASSUME Usual, IsIndentLexer, Inv, DentInv, LineInv, Halt PROVE LineInv'
<1> DEFINE s == fsm.state
           e == Entered(m, Current, s)
<1>1. /\ pc = "fsm" /\ pc' = "scanned" /\ DOMAIN Current.edge[s] = {}
      /\ m' = e /\ UNCHANGED <<text, fed, fsm, user, token>>
  BY DEF Halt
<1>2. /\ s \in IndentStates /\ DentState(m, fsm) /\ LineState(m, fsm) /\ Counts(m)
      /\ DOMAIN fsm = {"state", "bol", "nul"} /\ fsm.bol \in BOOLEAN
  BY <1>1 DEF DentInv, LineInv
<1>3. s = "dedent" \/ s = "newline"
  <2>1. Current.edge[s] = IndentPattern.edge[s]
    BY IndentFacts
  <2>2. QED
    BY <1>1, <1>2, <2>1, IndentEdges DEF IndentStates
<1>4. e = [m EXCEPT !.cap = Current.accept[s], !.cur = m.pos]
  BY <1>3, IndentFacts DEF Entered, Take
<1>5. /\ e.ded = m.ded /\ e.tab = m.tab /\ e.col = m.col /\ e.mrk = m.mrk
      /\ e.txt = m.txt /\ e.cur = m.pos /\ e.cap = Current.accept[s]
      /\ e.num = m.num /\ e.ind = m.ind /\ e.lpb = m.lpb /\ e.lno = m.lno
      /\ e.cno = m.cno
  BY <1>4 DEF Inv, Good, Fit, Fields
<1> HIDE DEF e
<1>6. Counts(e)
  BY <1>2, <1>5 DEF Counts
<1> DEFINE a == m.num + m.txt
           q == m.num + m.pos
<1>7. /\ Known(e, a, fsm.bol) /\ (fsm.bol => BeginAt(a))
  BY <1>2, <1>5, KnownBy DEF LineState
<1>8. m.ind = m.txt /\ a = e.num + e.txt /\ q = e.num + e.cur
  BY <1>2, <1>3, <1>5 DEF LineState
<1>9. CASE s = "dedent"
  <2>1. e.ded > 0 /\ e.cap = 2 /\ m.pos = m.txt
    BY <1>2, <1>5, <1>9, IndentFacts DEF DentState, LineState
  <2>2. e.ded # 0 /\ ~ (e.txt < e.cur)
    BY <1>5, <2>1, TextPlaces
  <2>3. LineHalted(e, fsm)
    BY <1>5, <1>7, <1>8, <2>1, <2>2 DEF LineHalted
  <2>4. QED
    BY <1>1, <1>6, <2>3, LineWithin
<1>10. CASE s = "newline"
  <2>1. e.ded = 0 /\ e.cap = 5 /\ text[a + 1] = "nl" /\ text[q] = "nl"
    BY <1>2, <1>5, <1>10, IndentFacts DEF DentState, LineState
  <2>2. Ahead(a)
    BY <2>1 DEF Ahead, Spaces
  <2> HIDE DEF a, q
  <2>3. LineHalted(e, fsm)
    BY <1>5, <1>7, <1>8, <2>1, <2>2 DEF LineHalted
  <2>4. QED
    BY <1>1, <1>6, <2>3, LineWithin
<1>11. QED
  BY <1>3, <1>9, <1>10

LEMMA LineRescan ==
  ASSUME Usual, IsIndentLexer, Inv, DentInv, LineInv, Rescan PROVE LineInv'
<1> DEFINE r == Restopped(m)
           y == [r EXCEPT !.ded = r.ded + Len(r.tab), !.tab = <<>>, !.pos = r.ind]
           z == [y EXCEPT !.cap = 0, !.cur = y.pos]
<1>1. /\ pc = "scanned" /\ r.ded > 0 /\ r.col = 0 /\ fsm.bol
      /\ m' = z /\ pc' = "fsm"
      /\ fsm' = [state |-> Current.start, bol |-> FALSE, nul |-> FALSE]
      /\ UNCHANGED <<text, fed, user, token>>
  BY DEF Rescan, Start
<1>2. DentHalted(m, fsm) /\ DentOk(m) /\ DOMAIN m = Fields
      /\ LineHalted(m, fsm) /\ Counts(m)
  BY <1>1 DEF DentInv, LineInv, Inv, Good, Fit
<1>3. /\ DOMAIN r = Fields
      /\ \A f \in Fields \ {"tab", "ded"} : r[f] = m[f]
      /\ (~ Moves(m) => r = m) /\ (m.mrk /\ Indent(m) => r.ded = m.ded)
  BY <1>2, RestoppedStops, RestoppedFacts
<1>4. /\ r.ind = m.ind /\ r.mrk = m.mrk /\ r.col = m.col /\ r.num = m.num
      /\ r.txt = m.txt /\ r.lpb = m.lpb /\ r.lno = m.lno /\ r.cno = m.cno
  BY <1>3 DEF Fields
<1> HIDE DEF r
<1>5. /\ DOMAIN y = Fields /\ y.ded = r.ded + Len(r.tab) /\ y.tab = <<>>
      /\ y.pos = r.ind /\ y.ind = r.ind /\ y.num = r.num /\ y.txt = r.txt
      /\ y.lpb = r.lpb /\ y.lno = r.lno /\ y.cno = r.cno
  BY <1>3 DEF Fields
<1> HIDE DEF y
<1>6. /\ z.tab = <<>> /\ z.pos = m.ind /\ z.ind = m.ind /\ z.num = m.num
      /\ z.txt = m.txt /\ z.lpb = m.lpb /\ z.lno = m.lno /\ z.cno = m.cno
  BY <1>4, <1>5 DEF Fields
<1> HIDE DEF z
<1>7. Ahead(m.num + m.txt) /\ m.ind = m.txt
  <2>1. CASE Repeated(m, fsm)
    BY <1>2, <2>1 DEF Repeated, LineHalted, Known
  <2>2. CASE Dedented(m, fsm)
    BY <1>1, <1>2, <1>4, <2>2 DEF Dedented, LineHalted
  <2>3. ~ Unmoved(m) /\ ~ Indented(m)
    <3>1. r.ded # 0
      BY <1>1
    <3>2. QED
      BY <1>3, <3>1 DEF Unmoved, Indented
  <2>4. QED
    BY <1>2, <2>1, <2>2, <2>3 DEF DentHalted
<1>8. fsm'.state = "S0" /\ fsm'.bol = FALSE
  BY <1>1, IndentFacts
<1>9. Known(z, m.num + m.txt, FALSE)
  BY <1>6, <1>7 DEF Known, Aligned
<1>10. LineState(z, fsm')
  BY <1>6, <1>7, <1>8, <1>9 DEF LineState
<1>11. Counts(z)
  BY <1>2, <1>6 DEF Counts
<1>12. QED
  BY <1>1, <1>10, <1>11, LineWithin

\* The column behind a space or tab.
LEMMA SpaceColumn ==
  ASSUME Len(text) \in Nat, NEW q \in 1 .. Len(text), text[q] \in Spaces
  PROVE  LET k == Cursor!ColumnAt(text, q - 1) IN
         /\ k \in Nat /\ Cursor!ColumnAt(text, q) > 0
         /\ Cursor!ColumnAt(text, q) = IF text[q] = "tab" THEN NextTab(k) ELSE k + 1
<1> DEFINE k == Cursor!ColumnAt(text, q - 1)
<1>1. k \in Nat /\ Cursor!ColumnAt(text, q) = Column(text[q], k)
  <2>1. q - 1 \in 0 .. Len(text)
    OBVIOUS
  <2>2. QED
    BY <2>1, ColumnFacts
<1> HIDE DEF k
<1>2. Column(text[q], k) = IF text[q] = "tab" THEN NextTab(k) ELSE k + 1
  BY DEF Column, Spaces
<1>3. NextTab(k) > 0
  <2>1. NextTab(k) = (k \div TabSize + 1) * TabSize /\ NextTab(k) \in Nat
    BY <1>1, TabStops
  <2>2. TabSize \in Nat /\ TabSize > 0
    BY TabAssumption
  <2> DEFINE j == k \div TabSize
  <2>3. j \in Nat
    BY <1>1, <2>2
  <2> HIDE DEF j
  <2>4. \A i, n \in Nat : n > 0 => (i + 1) * n > 0
    BY ONLY TRUE
  <2>5. (j + 1) * TabSize > 0
    BY <2>2, <2>3, <2>4
  <2>6. QED
    BY <2>1, <2>5 DEF j
<1>4. QED
  BY <1>1, <1>2, <1>3 DEF k

LEMMA BeginColumn ==
  ASSUME Len(text) \in Nat, NEW a \in 0 .. Len(text), BeginAt(a)
  PROVE  Cursor!ColumnAt(text, a) = 0
<1>1. CASE a = 0
  BY <1>1, ColumnFacts
<1>2. CASE a # 0
  <2>1. a \in 1 .. Len(text) /\ text[a] = "nl"
    BY <1>2 DEF BeginAt
  <2>2. Cursor!ColumnAt(text, a) = Column(text[a], Cursor!ColumnAt(text, a - 1))
    BY <2>1, ColumnFacts
  <2>3. QED
    BY <2>1, <2>2 DEF Column
<1>3. QED
  BY <1>1, <1>2 DEF Columns

\* The column behind one more space or tab.
LEMMA NewlineSpace ==
  ASSUME NEW x, DOMAIN x = Fields, x.ind \in Nat, x.pos = x.ind + 2, x.col \in Nat
  PROVE  /\ Newline(x).ind = x.ind + 1
         /\ Newline(x).col = IF x.buf[x.ind] = "tab" THEN NextTab(x.col) ELSE x.col + 1
<1> DEFINE j == x.ind + 1
<1>1. PICK c : Columns(x, j, c)
  <2>1. /\ x.pos \in Nat /\ x.ind <= x.pos
        /\ j = IF x.ind + 1 < x.pos THEN x.pos - 1 ELSE x.ind
    OBVIOUS
  <2> HIDE DEF j
  <2>2. QED
    BY <2>1, NewlineColumns
<1>2. j \in x.ind .. x.pos /\ j # x.ind /\ j - 1 = x.ind
  OBVIOUS
<1> HIDE DEF j
<1>3. c[j] = IF x.buf[x.ind] = "tab" THEN NextTab(x.col) ELSE x.col + 1
  BY <1>1, <1>2 DEF Columns
<1>4. Newline(x).col = c[j] /\ Newline(x).ind = j
  BY <1>1 DEF Columns, Fields
<1>5. QED
  BY <1>3, <1>4 DEF j

\* A step that reads at q, by the places of the text; y is the matcher behind it.
LEMMA StepPlaces ==
  ASSUME Usual, IsIndentLexer, Inv, DentInv, BeginInv, LineInv, Step
  PROVE  LET s == fsm.state
             y == m'
             a == m.num + m.txt
             q == m.num + m.pos
             j == m.num + m.ind
             over == q = Len(text)
             c == IF over THEN "eof" ELSE text[q + 1]
         IN  /\ s \in {"S0", "margin", "word"} /\ m.ded = 0
             /\ y.num \in Nat /\ y.txt \in Nat /\ y.pos \in Nat /\ y.ind \in Nat
             /\ y.cur \in Nat /\ q <= Len(text)
             /\ y.num + y.txt = a
             /\ y.num + y.pos = IF over THEN q ELSE q + 1
             /\ y.ded = 0 /\ y.tab = m.tab /\ Counts(y)
             /\ y.cap # 0 => y.num + y.cur = q
             /\ s = "S0" => y.cap \in {0, 2}
             /\ s = "margin" => y.cap \in {1, 2, 4}
             /\ s = "word" => y.cap = 3
             /\ y.mrk = (m.mrk \/ (fsm.bol /\ s # "word"))
             /\ ~ fsm.bol \/ s # "margin" \/ over => y.col = m.col /\ y.num + y.ind = j
             /\ fsm.bol /\ s = "margin" /\ ~ over =>
                  /\ y.num + y.ind = q
                  /\ y.col = IF text[q] = "tab" THEN NextTab(m.col) ELSE m.col + 1
             /\ \/ /\ c \in DOMAIN IndentPattern.edge[s] /\ pc' = "fsm"
                   /\ fsm' = [fsm EXCEPT !.state = IndentPattern.edge[s][c]]
                \/ /\ c \notin DOMAIN IndentPattern.edge[s] /\ pc' = "scanned"
                   /\ fsm' = fsm
<1> DEFINE s == fsm.state
           p == IndentPattern
           e == Entered(m, Current, s)
           b == fsm.bol
           a == m.num + m.txt
           q == m.num + m.pos
           j == m.num + m.ind
           over == q = Len(text)
           ch == IF over THEN "eof" ELSE text[q + 1]
<1>1. PICK x, c, z, n : Reads(x, c, z, n)
  BY StepFacts
<1> DEFINE y == Metas(z, Current, s, c)
           y0 == Newline(z)
           d == IF b /\ s # "word" THEN y0 ELSE z
<1>2. /\ pc = "fsm"
      /\ Current.dent[s] = "none" \/ m.ded = 0
      /\ DOMAIN Current.edge[s] # {} \/ Current.meta[s] # <<>>
  BY DEF Step
<1>3. /\ s \in IndentStates /\ DentState(m, fsm) /\ DentOk(m) /\ b \in BOOLEAN
      /\ LineState(m, fsm) /\ Counts(m)
      /\ \A i \in 1 .. Len(text) : text[i] # "eof" /\ AsChar(text[i]) # "eof"
  BY <1>2 DEF DentInv, LineInv
<1>4. Current = p
  BY IndentFacts
<1>5. s \in {"S0", "margin", "word"}
  <2>1. s # "dedent" /\ s # "newline"
    BY <1>2, <1>4, IndentFacts, IndentEdges
  <2>2. QED
    BY <1>3, <2>1 DEF IndentStates
<1>6. m.ded = 0 /\ m.mrk \in BOOLEAN
  <2>1. s = "S0" => m.ded = 0
    BY <1>2, IndentFacts
  <2>2. QED
    BY <1>3, <1>5, <2>1 DEF DentState, DentOk
<1>7. /\ DOMAIN m = Fields /\ m.pos \in Nat /\ m.txt \in Nat /\ m.ind \in Nat
      /\ m.num \in Nat /\ Len(text) \in Nat
  BY TextPlaces
<1>8. /\ DOMAIN e = Fields /\ SameDents(m, e)
      /\ e.pos = m.pos /\ e.txt = m.txt /\ e.ind = m.ind /\ e.num = m.num
      /\ e.cap = IF p.accept[s] > 0 THEN p.accept[s] ELSE m.cap
      /\ e.cur = IF p.accept[s] > 0 THEN m.pos ELSE m.cur
      /\ Counts(e)
  <2>1. e = IF p.accept[s] > 0 THEN [m EXCEPT !.cap = p.accept[s], !.cur = m.pos] ELSE m
    BY <1>4 DEF Entered, Take
  <2>2. QED
    BY <1>3, <1>7, <2>1 DEF Fields, SameDents, Counts
<1>9. Carried(e, x) /\ Good(x, n) /\ Advanced(x, z) /\ m' = y /\ Counts(x)
      /\ n \in 0 .. Len(text) /\ x.chr = "nul"
      /\ (AtEnd(x) => c = "eof" /\ n = Len(text))
      /\ (~ AtEnd(x) => c = x.buf[x.pos] \/ c = AsChar(x.buf[x.pos]))
      /\ \/ /\ c \in DOMAIN p.edge[s] /\ pc' = "fsm"
            /\ fsm' = [fsm EXCEPT !.state = p.edge[s][c]]
         \/ c \notin DOMAIN p.edge[s] /\ pc' = "scanned" /\ fsm' = fsm
  BY <1>1, <1>4, <1>8 DEF Reads
<1>10. e.cap \in {0, 3, 4} /\ (s = "S0" <=> e.cap = 0) /\ (s = "word" <=> e.cap = 3)
       /\ (e.cap # 0 => e.cur = m.pos)
  <2>1. CASE s = "S0"
    <3>1. m.cap = 0 /\ ~ (p.accept[s] > 0)
      BY <1>3, <2>1, IndentFacts DEF DentState
    <3>2. QED
      BY <1>8, <3>1, <2>1
  <2>2. CASE s # "S0"
    <3>1. /\ p.accept[s] \in {3, 4} /\ p.accept[s] > 0
          /\ (s = "word" <=> p.accept[s] = 3)
      BY <1>5, <2>2, IndentFacts
    <3>2. QED
      BY <1>8, <3>1, <2>2
  <2>3. QED
    BY <2>1, <2>2
<1> HIDE DEF e, p
<1>11. /\ SameDents(m, x) /\ x.cap = e.cap /\ DOMAIN x = Fields
       /\ x.pos \in Nat /\ x.txt \in Nat /\ x.ind \in Nat /\ x.cur \in Nat
       /\ x.num \in Nat /\ x.end \in Nat /\ x.pos <= x.end /\ n = x.num + x.end
       /\ x.num + x.txt = a /\ x.num + x.pos = q /\ x.num + x.ind = j
       /\ x.cap # 0 => x.num + x.cur = q
  BY <1>8, <1>9, <1>10 DEF Carried, SameDents, Good, Fit, Holds
<1>12. (AtEnd(x) <=> over) /\ q \in Nat /\ q <= Len(text)
  <2>1. n \in Nat /\ n <= Len(text)
    BY <1>7, <1>9
  <2>2. AtEnd(x) <=> x.pos >= x.end
    BY DEF AtEnd
  <2> DEFINE i1 == x.num
             i2 == x.pos
             i3 == x.end
             l == Len(text)
  <2>3. /\ i1 \in Nat /\ i2 \in Nat /\ i3 \in Nat /\ i2 <= i3 /\ n = i1 + i3
        /\ q = i1 + i2 /\ l \in Nat
        /\ (i2 >= i3 => n = l)
    BY <1>7, <1>9, <1>11, <2>2
  <2> HIDE DEF i1, i2, i3, l, q
  <2>4. (i2 >= i3 <=> q = l) /\ q \in Nat /\ q <= l
    BY ONLY <2>1, <2>3 DEF l
  <2>5. QED
    BY <2>2, <2>4 DEF i2, i3, l
\* A character that comes out as another one is of none of the rules.
<1>13. (c = "eof" <=> over) /\ (c = ch \/ {c, ch} \cap DOMAIN p.edge[s] = {})
  <2>1. CASE over
    BY <1>9, <1>12, <2>1
  <2>2. CASE ~ over
    <3>1. x.pos \in 0 .. x.end - 1 /\ x.num + x.pos + 1 = q + 1 /\ q + 1 \in 1 .. Len(text)
      <4>1. ~ (x.pos >= x.end)
        BY <1>12, <2>2 DEF AtEnd
      <4>2. x.pos \in 0 .. x.end - 1
        BY <1>11, <4>1
      <4>3. q + 1 \in 1 .. Len(text)
        BY <1>7, <1>12, <2>2
      <4> HIDE DEF q
      <4>4. QED
        BY <1>11, <4>2, <4>3
    <3>2. x.buf[x.pos] = text[q + 1]
      <4> HIDE DEF q
      <4>1. At(x, x.pos) = text[x.num + x.pos + 1]
        BY <1>9, <3>1 DEF Good, Holds
      <4>2. At(x, x.pos) = x.buf[x.pos]
        BY <1>9 DEF At
      <4>3. QED
        BY <3>1, <4>1, <4>2
    <3>3. ch = text[q + 1]
      BY <2>2
    <3> HIDE DEF q, ch
    <3>4. c = ch \/ c = AsChar(ch)
      BY <1>9, <1>12, <2>2, <3>2, <3>3
    <3>5. ch # "eof" /\ AsChar(ch) # "eof"
      BY <1>3, <3>1, <3>3
    <3>6. AsChar(ch) = ch \/ (AsChar(ch) = "negative" /\ ch \in {"lead", "cont"})
      BY <3>5 DEF AsChar
    <3>7. {"negative", "lead", "cont"} \cap DOMAIN p.edge[s] = {}
      BY <1>5, IndentEdges DEF p
    <3>8. QED
      BY <2>2, <3>4, <3>5, <3>6, <3>7
  <2>3. QED
    BY <2>1, <2>2
<1>14. /\ DOMAIN z = Fields /\ SameDents(m, z) /\ z.cap = x.cap /\ z.txt = x.txt
       /\ z.ind = x.ind /\ z.cur = x.cur /\ z.num = x.num /\ z.lpb = x.lpb
       /\ z.lno = x.lno /\ z.cno = x.cno /\ z.buf = x.buf
       /\ z.pos = IF over THEN x.pos ELSE x.pos + 1
  BY <1>9, <1>11, <1>12 DEF Advanced, Fields, SameDents
<1>15. /\ z.pos \in Nat /\ z.ind \in Nat /\ z.col \in Nat
       /\ z.ded = 0 /\ z.tab = m.tab /\ z.col = m.col /\ z.mrk = m.mrk
  BY <1>3, <1>6, <1>11, <1>14 DEF SameDents, DentOk
<1>16. z.num + z.pos = IF over THEN q ELSE q + 1
  <2> HIDE DEF over
  <2>1. x.num + (x.pos + 1) = q + 1
    BY <1>11
  <2> HIDE DEF q
  <2>2. QED
    BY <1>11, <1>14, <2>1
<1>17. /\ DOMAIN y0 = Fields /\ y0.mrk = TRUE
       /\ \A f \in Fields \ {"mrk", "col", "ind"} : y0[f] = z[f]
       /\ y0.ind = IF z.ind + 1 < z.pos THEN z.pos - 1 ELSE z.ind
  <2>1. /\ DOMAIN y0 = Fields
        /\ \A f \in Fields \ {"mrk", "col", "ind"} : y0[f] = z[f]
        /\ y0.ind = IF z.ind + 1 < z.pos THEN z.pos - 1 ELSE z.ind
    BY <1>14, NewlineFacts
  <2>2. y0.mrk = TRUE
    BY <1>14 DEF Newline, Fields
  <2> HIDE DEF y0
  <2>3. QED
    BY <2>1, <2>2
\* How much of the margin had been looked at.
<1>18. /\ s = "S0" => z.pos <= z.ind + 1
       /\ s = "margin" /\ b => z.pos = IF over THEN z.ind + 1 ELSE z.ind + 2
  <2> DEFINE i1 == x.num
             i2 == x.pos
             i3 == x.ind
             k1 == m.num
             k2 == m.pos
             k3 == m.ind
  <2>1. /\ i1 \in Nat /\ i2 \in Nat /\ i3 \in Nat /\ k1 \in Nat /\ k2 \in Nat /\ k3 \in Nat
        /\ i1 + i2 = k1 + k2 /\ i1 + i3 = k1 + k3
        /\ z.pos = (IF over THEN i2 ELSE i2 + 1) /\ z.ind = i3
    BY <1>7, <1>11, <1>14
  <2>2. (s = "S0" => k2 = k3) /\ (s = "margin" /\ b => k2 = k3 + 1)
    BY <1>3 DEF LineState, DentState
  <2> HIDE DEF i1, i2, i3, k1, k2, k3, over
  <2>3. (k2 = k3 => i2 = i3) /\ (k2 = k3 + 1 => i2 = i3 + 1)
    BY ONLY <2>1
  <2>4. z.pos = i2 \/ z.pos = i2 + 1
    BY <2>1
  <2>5. s = "S0" => z.pos <= z.ind + 1
    BY <2>1, <2>2, <2>3
  <2>6. s = "margin" /\ b => z.pos = IF over THEN z.ind + 1 ELSE z.ind + 2
    BY <2>1, <2>2, <2>3
  <2>7. QED
    BY <2>5, <2>6
<1>19. /\ s = "S0" \/ (s = "margin" /\ b /\ over) => y0.col = z.col /\ y0.ind = z.ind
       /\ s = "margin" /\ b /\ ~ over =>
            /\ y0.ind = z.ind + 1
            /\ y0.col = IF z.buf[z.ind] = "tab" THEN NextTab(z.col) ELSE z.col + 1
  <2>1. z.pos <= z.ind + 1 => y0.col = z.col
    <3>1. z.ind <= z.pos
      <4>1. m.ind <= m.pos
        BY <1>3 DEF DentState
      <4> DEFINE i1 == x.num
                 i2 == x.pos
                 i3 == x.ind
                 k1 == m.num
                 k2 == m.pos
                 k3 == m.ind
      <4>2. /\ i1 \in Nat /\ i2 \in Nat /\ i3 \in Nat /\ k1 \in Nat /\ k2 \in Nat
            /\ k3 \in Nat /\ i1 + i2 = k1 + k2 /\ i1 + i3 = k1 + k3 /\ k3 <= k2
            /\ z.pos = (IF over THEN i2 ELSE i2 + 1) /\ z.ind = i3
        BY <1>7, <1>11, <1>14, <4>1
      <4> HIDE DEF i1, i2, i3, k1, k2, k3, over
      <4>3. i3 <= i2
        BY ONLY <4>2
      <4>4. QED
        BY <4>2, <4>3
    <3>2. QED
      BY <1>14, <1>15, <3>1, NewlineColumn
  <2>2. z.pos = z.ind + 2 =>
          /\ y0.ind = z.ind + 1
          /\ y0.col = IF z.buf[z.ind] = "tab" THEN NextTab(z.col) ELSE z.col + 1
    BY <1>14, <1>15, NewlineSpace
  <2> HIDE DEF y0
  <2>3. z.pos <= z.ind + 1 => y0.ind = z.ind
    BY <1>15, <1>17
  <2>4. s = "margin" /\ b /\ over => z.pos <= z.ind + 1
    BY <1>15, <1>18
  <2>5. QED
    BY <1>18, <2>1, <2>2, <2>3, <2>4
<1>20. s = "margin" /\ b => z.buf[z.ind] = text[q]
  <2> SUFFICES ASSUME s = "margin", b PROVE z.buf[z.ind] = text[q]
    OBVIOUS
  <2>1. m.pos = m.ind + 1
    BY <1>3 DEF LineState
  <2>2. x.ind \in 0 .. x.end - 1 /\ x.num + x.ind + 1 = q
    <3> DEFINE i1 == x.num
               i2 == x.pos
               i3 == x.ind
               i4 == x.end
               k1 == m.num
               k2 == m.pos
               k3 == m.ind
    <3>1. /\ i1 \in Nat /\ i2 \in Nat /\ i3 \in Nat /\ i4 \in Nat
          /\ k1 \in Nat /\ k2 \in Nat /\ k3 \in Nat
          /\ i1 + i2 = k1 + k2 /\ i1 + i3 = k1 + k3 /\ i2 <= i4 /\ k2 = k3 + 1
      BY <1>7, <1>11, <2>1
    <3> HIDE DEF i1, i2, i3, i4, k1, k2, k3
    <3>2. i3 \in 0 .. i4 - 1 /\ i1 + i3 + 1 = k1 + k2
      BY ONLY <3>1
    <3>3. QED
      BY <3>2 DEF i1, i3, i4, k1, k2
  <2> HIDE DEF q
  <2>3. At(x, x.ind) = text[x.num + x.ind + 1]
    BY <1>9, <2>2 DEF Good, Holds
  <2>4. At(x, x.ind) = x.buf[x.ind]
    BY <1>9 DEF At
  <2>5. QED
    BY <1>14, <2>2, <2>3, <2>4
<1>21. \/ y = d
       \/ b /\ s # "word" /\ y = Take(d, 2, c)
       \/ b /\ s # "word" /\ Indent(d) /\ y = Take(d, 1, c)
  BY <1>3, <1>5, MarginOutcome
<1> HIDE DEF y, y0, over, ch, q, j, a
<1>22. /\ y0.num = z.num /\ y0.txt = z.txt /\ y0.pos = z.pos /\ y0.cap = z.cap
       /\ y0.cur = z.cur /\ y0.ded = z.ded /\ y0.tab = z.tab /\ y0.lpb = z.lpb
       /\ y0.lno = z.lno /\ y0.cno = z.cno
  BY <1>17 DEF Fields
<1>23. /\ DOMAIN d = Fields /\ d.num = x.num /\ d.txt = x.txt /\ d.pos = z.pos
       /\ d.cap = x.cap /\ d.cur = x.cur /\ d.ded = 0 /\ d.tab = m.tab
       /\ d.lpb = x.lpb /\ d.lno = x.lno /\ d.cno = x.cno
  BY <1>14, <1>15, <1>17, <1>22
<1>24. d.mrk = (m.mrk \/ (b /\ s # "word"))
  BY <1>6, <1>15, <1>17
<1>25. /\ ~ b \/ s # "margin" \/ over => d.col = m.col /\ d.ind = x.ind
       /\ b /\ s = "margin" /\ ~ over =>
            /\ d.ind = x.ind + 1
            /\ d.col = IF text[q] = "tab" THEN NextTab(m.col) ELSE m.col + 1
  <2>1. CASE b /\ s # "word"
    <3>1. s = "S0" \/ s = "margin"
      BY <1>5, <2>1
    <3>2. d = y0
      BY <2>1
    <3> HIDE DEF d
    <3>3. QED
      BY <1>14, <1>15, <1>19, <1>20, <2>1, <3>1, <3>2
  <2>2. CASE ~ (b /\ s # "word")
    BY <1>14, <1>15, <2>2
  <2>3. QED
    BY <2>1, <2>2
<1>26. s = "S0" /\ b => ~ Indent(d)
  <2>1. s = "S0" => m.col = 0
    BY <1>3 DEF DentState
  <2>2. s = "S0" => d.col = 0
    BY <1>25, <2>1
  <2>3. QED
    BY <2>2 DEF Indent
<1> HIDE DEF d
<1>27. ASSUME NEW r, y = Take(d, r, c)
       PROVE  /\ DOMAIN y = Fields /\ \A f \in Fields \ {"cap", "cur"} : y[f] = d[f]
              /\ y.cap = r /\ y.cur \in Nat /\ y.num + y.cur = q
  <2>1. y = [d EXCEPT !.cap = r, !.cur = IF c = "eof" THEN d.pos ELSE d.pos - 1]
    BY <1>27 DEF Take
  <2>2. /\ DOMAIN y = Fields /\ \A f \in Fields \ {"cap", "cur"} : y[f] = d[f]
        /\ y.cap = r /\ y.cur = IF c = "eof" THEN d.pos ELSE d.pos - 1
        /\ y.num = d.num
    BY <1>23, <2>1 DEF Fields
  <2>3. c = "eof" <=> over
    BY <1>13
  <2>4. y.cur = x.pos
    <3>1. over => y.cur = x.pos
      BY <1>14, <1>23, <2>2, <2>3
    <3>2. ~ over => y.cur = x.pos
      BY <1>11, <1>14, <1>23, <2>2, <2>3
    <3>3. QED
      BY <3>1, <3>2
  <2>5. QED
    BY <1>11, <1>23, <2>2, <2>4
<1>28. /\ DOMAIN y = Fields /\ \A f \in Fields \ {"cap", "cur"} : y[f] = d[f]
       /\ y.cur \in Nat /\ (y.cap # 0 => y.num + y.cur = q)
       /\ y.cap \in {e.cap, 1, 2}
       /\ s = "word" => y.cap = e.cap
       /\ s = "S0" => y.cap # 1
  <2>1. CASE y = d
    <3>1. y.cur \in Nat /\ (y.cap # 0 => y.num + y.cur = q) /\ y.cap = e.cap
      BY <1>11, <1>23, <2>1
    <3>2. e.cap # 1
      BY <1>10
    <3>3. QED
      BY <1>23, <2>1, <3>1, <3>2
  <2>2. CASE b /\ s # "word" /\ y = Take(d, 2, c)
    BY <1>27, <2>2
  <2>3. CASE b /\ s # "word" /\ Indent(d) /\ y = Take(d, 1, c)
    <3>1. s # "S0"
      BY <1>26, <2>3
    <3>2. QED
      BY <1>27, <2>3, <3>1
  <2>4. QED
    BY <1>21, <2>1, <2>2, <2>3
<1>29. /\ y.num = x.num /\ y.txt = x.txt /\ y.pos = z.pos /\ y.ded = 0 /\ y.tab = m.tab
       /\ y.lpb = x.lpb /\ y.lno = x.lno /\ y.cno = x.cno /\ y.col = d.col
       /\ y.mrk = d.mrk /\ y.ind = d.ind
  BY <1>23, <1>28 DEF Fields
<1>30. Counts(y)
  BY <1>9, <1>29 DEF Counts
<1>31. /\ s = "S0" => y.cap \in {0, 2}
       /\ s = "margin" => y.cap \in {1, 2, 4}
       /\ s = "word" => y.cap = 3
  BY <1>10, <1>28
<1>32. /\ y.num \in Nat /\ y.txt \in Nat /\ y.pos \in Nat /\ y.ind \in Nat
       /\ y.num + y.txt = a /\ y.num + y.pos = IF over THEN q ELSE q + 1
  <2>1. y.ind \in Nat
    <3>1. d.ind = x.ind \/ d.ind = x.ind + 1
      BY <1>25
    <3>2. QED
      BY <1>11, <1>29, <3>1
  <2>2. QED
    BY <1>11, <1>14, <1>15, <1>16, <1>29, <2>1
<1>33. /\ ~ b \/ s # "margin" \/ over => y.col = m.col /\ y.num + y.ind = j
       /\ b /\ s = "margin" /\ ~ over =>
            /\ y.num + y.ind = q
            /\ y.col = IF text[q] = "tab" THEN NextTab(m.col) ELSE m.col + 1
  <2>1. b /\ s = "margin" => x.num + (x.ind + 1) = q
    <3>1. b /\ s = "margin" => m.pos = m.ind + 1
      BY <1>3 DEF LineState
    <3>2. m.num + (m.ind + 1) = (m.num + m.ind) + 1
      BY <1>7
    <3>3. x.num + (x.ind + 1) = j + 1
      BY <1>11
    <3>4. j = m.num + m.ind /\ q = m.num + m.pos
      BY DEF j, q
    <3>5. QED
      BY <3>1, <3>2, <3>3, <3>4
  <2>2. QED
    BY <1>11, <1>25, <1>29, <2>1
<1>34. y.mrk = (m.mrk \/ (b /\ s # "word"))
  BY <1>24, <1>29
<1>35. /\ \/ /\ ch \in DOMAIN p.edge[s] /\ pc' = "fsm"
             /\ fsm' = [fsm EXCEPT !.state = p.edge[s][ch]]
          \/ ch \notin DOMAIN p.edge[s] /\ pc' = "scanned" /\ fsm' = fsm
  BY <1>9, <1>13
<1>36. m' = y
  BY <1>9
<1>37. y.cur \in Nat /\ (y.cap # 0 => y.num + y.cur = q)
  BY <1>28
<1> HIDE DEF s, b
<1>38. QED
  BY <1>5, <1>6, <1>12, <1>29, <1>30, <1>31, <1>32, <1>33, <1>34, <1>35, <1>36, <1>37
     DEF ch, over, q, j, a, p, s, b

\* A step within the margin or a word, at q.
LEMMA StepState ==
  ASSUME Usual, IsIndentLexer, Inv, DentInv, BeginInv, LineInv, Step
  PROVE  LET s == fsm.state
             a == m.num + m.txt
             q == m.num + m.pos
             j == m.num + m.ind
         IN  /\ LineState(m, fsm) /\ DentState(m, fsm) /\ fsm.bol \in BOOLEAN
             /\ DOMAIN fsm = {"state", "bol", "nul"}
             /\ a \in Nat /\ a < Len(text) /\ q \in Nat /\ Len(text) \in Nat
             /\ Known(m', a, fsm.bol) /\ (fsm.bol => BeginAt(a))
             /\ s = "S0" => q = a /\ j = a /\ m.col = 0
             /\ s # "S0" => a < q
             /\ AllSpaces(a, q) \/ s = "word"
             /\ s = "word" => /\ text[a + 1] = "a" /\ text[q] = "a" /\ j = a
                              /\ m.col = 0 /\ (fsm.bol => m.mrk)
             /\ s = "margin" => q \in 1 .. Len(text) /\ text[q] \in Spaces
             /\ s = "margin" /\ fsm.bol =>
                  q = j + 1 /\ j \in Nat /\ m.col = Cursor!ColumnAt(text, j)
<1> DEFINE s == fsm.state
           a == m.num + m.txt
           q == m.num + m.pos
           j == m.num + m.ind
<1>1. /\ s \in {"S0", "margin", "word"} /\ q <= Len(text) /\ m'.ded = 0 /\ m.ded = 0
      /\ m'.tab = m.tab
  BY StepPlaces
<1>2. pc = "fsm"
  BY DEF Step
<1>3. /\ LineState(m, fsm) /\ DentState(m, fsm) /\ fsm.bol \in BOOLEAN
      /\ DOMAIN fsm = {"state", "bol", "nul"}
  BY <1>2 DEF LineInv, DentInv
<1>4. /\ m.num \in Nat /\ m.txt \in Nat /\ m.pos \in Nat /\ m.ind \in Nat
      /\ Len(text) \in Nat /\ fed \in Nat /\ fed <= Len(text)
  BY TextPlaces
<1>5. a < fed
  BY <1>2 DEF BeginInv, Scanning
<1>6. a \in Nat /\ a < Len(text) /\ q \in Nat /\ j \in Nat
  BY <1>4, <1>5
<1>7. Known(m', a, fsm.bol) /\ (fsm.bol => BeginAt(a))
  BY <1>1, <1>3, KnownBy DEF LineState
<1>8. s = "S0" => q = a /\ j = a /\ m.col = 0
  BY <1>3 DEF LineState, DentState
<1>9. s # "S0" => a < q
  <2>1. s # "S0" => m.txt < m.pos
    BY <1>1, <1>3 DEF DentState
  <2>2. QED
    BY <1>4, <2>1
<1>10. AllSpaces(a, q) \/ s = "word"
  <2>1. CASE s = "S0"
    BY <1>6, <1>8, <2>1 DEF AllSpaces
  <2>2. CASE s # "S0"
    BY <1>1, <1>3, <2>2 DEF LineState
  <2>3. QED
    BY <2>1, <2>2
<1>11. s = "word" => /\ text[a + 1] = "a" /\ text[q] = "a" /\ j = a
                     /\ m.col = 0 /\ (fsm.bol => m.mrk)
  BY <1>3 DEF LineState, DentState
<1>12. s = "margin" => q \in 1 .. Len(text) /\ text[q] \in Spaces
  <2> SUFFICES ASSUME s = "margin" PROVE q \in 1 .. Len(text) /\ text[q] \in Spaces
    OBVIOUS
  <2>1. AllSpaces(a, q) /\ a < q
    BY <1>9, <1>10
  <2> HIDE DEF a, q
  <2>2. q \in a + 1 .. q /\ q \in 1 .. Len(text)
    BY <1>1, <1>4, <1>6, <2>1
  <2>3. QED
    BY <2>1, <2>2 DEF AllSpaces
<1>13. s = "margin" /\ fsm.bol =>
         q = j + 1 /\ j \in Nat /\ m.col = Cursor!ColumnAt(text, j)
  <2> SUFFICES ASSUME s = "margin", fsm.bol
               PROVE  q = j + 1 /\ j \in Nat /\ m.col = Cursor!ColumnAt(text, j)
    OBVIOUS
  <2>1. m.pos = m.ind + 1 /\ m.col = Cursor!ColumnAt(text, j)
    BY <1>3 DEF LineState
  <2>2. q = j + 1
    BY <1>4, <2>1
  <2>3. QED
    BY <1>6, <2>1, <2>2
<1>14. QED
  BY <1>3, <1>4, <1>6, <1>7, <1>8, <1>9, <1>10, <1>11, <1>12, <1>13

LEMMA LineStepOn ==
  ASSUME Usual, IsIndentLexer, Inv, DentInv, BeginInv, LineInv, Step, pc' # "scanned"
  PROVE  pc' = "fsm" /\ LineState(m', fsm')
<1> DEFINE s == fsm.state
           b == fsm.bol
           y == m'
           a == m.num + m.txt
           q == m.num + m.pos
           j == m.num + m.ind
           c == text[q + 1]
           t == fsm'.state
<1>1. /\ s \in {"S0", "margin", "word"} /\ m.ded = 0
      /\ y.num \in Nat /\ y.txt \in Nat /\ y.pos \in Nat /\ y.ind \in Nat
      /\ q <= Len(text) /\ y.num + y.txt = a
      /\ q # Len(text) => y.num + y.pos = q + 1
      /\ y.ded = 0 /\ y.tab = m.tab
      /\ y.mrk = (m.mrk \/ (b /\ s # "word"))
      /\ ~ b \/ s # "margin" => y.col = m.col /\ y.num + y.ind = j
      /\ b /\ s = "margin" /\ q # Len(text) =>
           /\ y.num + y.ind = q
           /\ y.col = IF text[q] = "tab" THEN NextTab(m.col) ELSE m.col + 1
  BY StepPlaces
<1>2. /\ q # Len(text) /\ c \in DOMAIN IndentPattern.edge[s] /\ pc' = "fsm"
      /\ fsm' = [fsm EXCEPT !.state = IndentPattern.edge[s][c]]
  <2>1. "eof" \notin DOMAIN IndentPattern.edge[s]
    BY <1>1, IndentEdges
  <2>2. QED
    BY <2>1, StepPlaces
<1>3. /\ DOMAIN fsm = {"state", "bol", "nul"} /\ b \in BOOLEAN
      /\ a \in Nat /\ a < Len(text) /\ q \in Nat /\ Len(text) \in Nat
      /\ Known(y, a, b) /\ (b => BeginAt(a))
      /\ s = "S0" => q = a /\ j = a /\ m.col = 0
      /\ s # "S0" => a < q
      /\ AllSpaces(a, q) \/ s = "word"
      /\ s = "word" => /\ text[a + 1] = "a" /\ text[q] = "a" /\ j = a
                       /\ m.col = 0 /\ (b => m.mrk)
      /\ s = "margin" => q \in 1 .. Len(text) /\ text[q] \in Spaces
      /\ s = "margin" /\ b => q = j + 1 /\ j \in Nat /\ m.col = Cursor!ColumnAt(text, j)
  BY StepState
<1>4. t = IndentPattern.edge[s][c] /\ fsm'.bol = b
  BY <1>2, <1>3
<1>5. \/ t = "margin" /\ c \in Spaces /\ s \in {"S0", "margin"}
      \/ t = "word" /\ c = "a" /\ s \in {"S0", "word"}
      \/ t = "newline" /\ c = "nl" /\ s = "S0"
  BY <1>1, <1>2, <1>4, IndentEdges DEF Spaces
<1> HIDE DEF s, b, y, a, q, j, c, t
<1>6. y.num + y.pos = q + 1
  BY <1>1, <1>2
<1>7. t = "margin" => AllSpaces(a, q + 1)
  <2> SUFFICES ASSUME t = "margin", NEW i \in a + 1 .. q + 1 PROVE text[i] \in Spaces
    BY DEF AllSpaces
  <2>1. AllSpaces(a, q) /\ text[q + 1] \in Spaces
    BY <1>3, <1>5 DEF c
  <2>2. i = q + 1 \/ i \in a + 1 .. q
    BY <1>3
  <2>3. QED
    BY <2>1, <2>2 DEF AllSpaces
<1>8. /\ t = "word" => text[a + 1] = "a" /\ text[q + 1] = "a"
      /\ t = "newline" => text[a + 1] = "nl" /\ text[q + 1] = "nl"
  BY <1>3, <1>5 DEF c
<1>9. b => y.mrk
  BY <1>1, <1>3
<1>10. t \in {"word", "newline"} => y.ind = y.txt
  <2>1. t \in {"word", "newline"} => y.num + y.ind = a
    BY <1>1, <1>3, <1>5
  <2>2. QED
    BY <1>1, <2>1
<1>11. t = "margin" /\ b =>
         y.pos = y.ind + 1 /\ y.col = Cursor!ColumnAt(text, y.num + y.ind)
  <2> SUFFICES ASSUME t = "margin", b
               PROVE  y.pos = y.ind + 1 /\ y.col = Cursor!ColumnAt(text, y.num + y.ind)
    OBVIOUS
  <2>1. CASE s = "S0"
    <3>1. q = a /\ j = a /\ y.num + y.ind = a /\ y.col = 0
      BY <1>1, <1>3, <2>1
    <3>2. Cursor!ColumnAt(text, a) = 0
      <4>1. a \in 0 .. Len(text)
        BY <1>3
      <4>2. QED
        BY <1>3, <4>1, BeginColumn
    <3>3. y.num \in Nat /\ y.pos \in Nat /\ y.ind \in Nat
          /\ y.num + y.pos = (y.num + y.ind) + 1
      BY <1>1, <1>6, <3>1
    <3>4. y.pos = y.ind + 1
      BY ONLY <3>3
    <3>5. QED
      BY <3>1, <3>2, <3>4
  <2>2. CASE s = "margin"
    <3>1. /\ q \in 1 .. Len(text) /\ text[q] \in Spaces /\ q = j + 1 /\ j \in Nat
          /\ m.col = Cursor!ColumnAt(text, j)
      BY <1>3, <2>2
    <3>2. j = q - 1
      BY <3>1
    <3>3. Cursor!ColumnAt(text, q) = IF text[q] = "tab" THEN NextTab(m.col)
                                     ELSE m.col + 1
      BY <1>3, <3>1, <3>2, SpaceColumn
    <3>4. y.num + y.ind = q /\ y.col = Cursor!ColumnAt(text, q)
      BY <1>1, <1>2, <2>2, <3>3
    <3>5. y.num \in Nat /\ y.pos \in Nat /\ y.ind \in Nat
          /\ y.num + y.pos = (y.num + y.ind) + 1
      BY <1>1, <1>6, <3>4
    <3>6. y.pos = y.ind + 1
      BY ONLY <3>5
    <3>7. QED
      BY <3>4, <3>6
  <2>3. QED
    BY <1>5, <2>1, <2>2
<1>12. t \notin {"S0", "dedent"}
  BY <1>5
<1>13. LineState(y, fsm')
  <2>1. a = y.num + y.txt /\ q + 1 = y.num + y.pos
    BY <1>1, <1>6
  <2>2. /\ Known(y, y.num + y.txt, fsm'.bol) /\ (fsm'.bol => BeginAt(y.num + y.txt))
        /\ t = "margin" => AllSpaces(y.num + y.txt, y.num + y.pos)
    BY <1>3, <1>4, <1>7, <2>1
  <2>3. /\ t = "word" => text[y.num + y.txt + 1] = "a" /\ text[y.num + y.pos] = "a"
        /\ t = "newline" => text[y.num + y.txt + 1] = "nl" /\ text[y.num + y.pos] = "nl"
    BY <1>8, <2>1
  <2>4. t = fsm'.state
    BY DEF t
  <2>5. QED
    BY <1>4, <1>9, <1>10, <1>11, <1>12, <2>2, <2>3, <2>4 DEF LineState
<1>14. QED
  BY <1>2, <1>13 DEF y

LEMMA LineStepOff ==
  ASSUME Usual, IsIndentLexer, Inv, DentInv, BeginInv, LineInv, Step, pc' = "scanned"
  PROVE  LineHalted(m', fsm')
<1> DEFINE s == fsm.state
           b == fsm.bol
           y == m'
           a == m.num + m.txt
           q == m.num + m.pos
           j == m.num + m.ind
           over == q = Len(text)
           c == IF over THEN "eof" ELSE text[q + 1]
<1>1. /\ s \in {"S0", "margin", "word"} /\ m.ded = 0
      /\ y.num \in Nat /\ y.txt \in Nat /\ y.pos \in Nat /\ y.ind \in Nat
      /\ y.cur \in Nat /\ q <= Len(text) /\ y.num + y.txt = a
      /\ y.ded = 0 /\ y.tab = m.tab
      /\ y.cap # 0 => y.num + y.cur = q
      /\ s = "S0" => y.cap \in {0, 2}
      /\ s = "margin" => y.cap \in {1, 2, 4}
      /\ s = "word" => y.cap = 3
      /\ y.mrk = (m.mrk \/ (b /\ s # "word"))
      /\ ~ b \/ s # "margin" \/ over => y.col = m.col /\ y.num + y.ind = j
      /\ b /\ s = "margin" /\ ~ over =>
           /\ y.num + y.ind = q
           /\ y.col = IF text[q] = "tab" THEN NextTab(m.col) ELSE m.col + 1
  BY StepPlaces
<1>2. c \notin DOMAIN IndentPattern.edge[s] /\ fsm' = fsm
  BY StepPlaces
<1>3. /\ b \in BOOLEAN
      /\ a \in Nat /\ a < Len(text) /\ q \in Nat /\ Len(text) \in Nat
      /\ Known(y, a, b) /\ (b => BeginAt(a))
      /\ s = "S0" => q = a /\ j = a /\ m.col = 0
      /\ s # "S0" => a < q
      /\ AllSpaces(a, q) \/ s = "word"
      /\ s = "word" => /\ text[a + 1] = "a" /\ text[q] = "a" /\ j = a
                       /\ m.col = 0 /\ (b => m.mrk)
      /\ s = "margin" => q \in 1 .. Len(text) /\ text[q] \in Spaces
      /\ s = "margin" /\ b => q = j + 1 /\ j \in Nat /\ m.col = Cursor!ColumnAt(text, j)
  BY StepState
<1>4. s \in {"S0", "margin"} => c \notin Spaces
  BY <1>2, IndentEdges DEF Spaces
<1> HIDE DEF s, b, y, a, q, j, c
<1>5. y.cap = 3 => /\ text[a + 1] = "a" /\ text[q] = "a" /\ y.num + y.cur = q
                   /\ b => y.mrk /\ y.col = 0
  <2>1. y.cap = 3 => s = "word"
    BY <1>1
  <2>2. QED
    BY <1>1, <1>3, <2>1
\* The margin ends at q and its column is known.
<1>6. b /\ s = "margin" /\ ~ over => y.col = Cursor!ColumnAt(text, q) /\ y.col > 0
  <2> SUFFICES ASSUME b, s = "margin", ~ over
               PROVE  y.col = Cursor!ColumnAt(text, q) /\ y.col > 0
    OBVIOUS
  <2>1. q \in 1 .. Len(text) /\ text[q] \in Spaces /\ j = q - 1
    BY <1>3
  <2>2. m.col = Cursor!ColumnAt(text, q - 1)
    BY <1>3, <2>1
  <2>3. /\ Cursor!ColumnAt(text, q) = IF text[q] = "tab" THEN NextTab(m.col)
                                      ELSE m.col + 1
        /\ Cursor!ColumnAt(text, q) > 0
    BY <1>3, <2>1, <2>2, SpaceColumn
  <2>4. QED
    BY <1>1, <2>3
<1>7. y.cap \in {1, 2, 4} /\ y.txt < y.cur => s = "margin" /\ y.num + y.cur = q
  <2>1. y.cap \in {1, 2, 4} => y.num + y.cur = q
    BY <1>1
  <2>2. y.txt < y.cur /\ y.num + y.cur = q => a < q
    BY <1>1
  <2>3. a < q => s # "S0"
    BY <1>3
  <2>4. y.cap \in {1, 2, 4} => s # "word"
    BY <1>1
  <2>5. QED
    BY <1>1, <2>1, <2>2, <2>3, <2>4
<1>8. y.cap \in {1, 2, 4} /\ y.txt < y.cur =>
        /\ AllSpaces(a, q) /\ y.num + y.cur = q
        /\ q < Len(text) => text[q + 1] \notin Spaces
        /\ q < Len(text) /\ b => y.mrk /\ y.col = Cursor!ColumnAt(text, q) /\ y.col > 0
  <2> SUFFICES ASSUME y.cap \in {1, 2, 4}, y.txt < y.cur
               PROVE  /\ AllSpaces(a, q) /\ y.num + y.cur = q
                      /\ q < Len(text) => text[q + 1] \notin Spaces
                      /\ q < Len(text) /\ b =>
                           y.mrk /\ y.col = Cursor!ColumnAt(text, q) /\ y.col > 0
    OBVIOUS
  <2>1. s = "margin" /\ y.num + y.cur = q /\ AllSpaces(a, q)
    BY <1>3, <1>7
  <2>2. q < Len(text) => ~ over
    BY <1>3
  <2>3. q < Len(text) => text[q + 1] \notin Spaces
    BY <1>4, <2>1, <2>2 DEF c
  <2>4. b => y.mrk
    BY <1>1, <2>1
  <2>5. QED
    BY <1>6, <2>1, <2>2, <2>3, <2>4
\* A dedent to the begin of the line.
<1>9. y.col = 0 /\ b => Ahead(a) /\ y.ind = y.txt
  <2> SUFFICES ASSUME y.col = 0, b PROVE Ahead(a) /\ y.ind = y.txt
    OBVIOUS
  <2>1. CASE s = "S0"
    <3>1. q = a /\ j = a /\ ~ over
      BY <1>3, <2>1
    <3>2. text[a + 1] \notin Spaces
      BY <1>4, <2>1, <3>1 DEF c
    <3>3. y.num + y.ind = a
      BY <1>1, <2>1, <3>1
    <3>4. y.ind = y.txt
      BY <1>1, <3>3
    <3>5. QED
      BY <3>2, <3>4 DEF Ahead
  <2>2. CASE s = "word"
    <3>1. text[a + 1] = "a" /\ y.num + y.ind = a
      BY <1>1, <1>3, <2>2
    <3>2. y.ind = y.txt
      BY <1>1, <3>1
    <3>3. QED
      BY <3>1, <3>2 DEF Ahead, Spaces
  <2>3. CASE s = "margin"
    <3>1. over
      <4>1. ~ over => y.col # 0
        <5>1. ~ over => y.col > 0
          BY <1>6, <2>3
        <5>2. ~ (0 > 0)
          OBVIOUS
        <5>3. QED
          BY <5>1, <5>2
      <4>2. QED
        BY <4>1
    <3>2. /\ y.num + y.ind = j /\ q = j + 1 /\ j \in Nat /\ a < q /\ AllSpaces(a, q)
          /\ Cursor!ColumnAt(text, j) = 0
      BY <1>1, <1>3, <2>3, <3>1
    <3>3. j = a
      <4>1. CASE a < j
        <5>1. j \in a + 1 .. q /\ j \in 1 .. Len(text)
          BY <1>1, <1>3, <3>2, <4>1
        <5>2. text[j] \in Spaces
          BY <3>2, <5>1 DEF AllSpaces
        <5>3. Cursor!ColumnAt(text, j) > 0
          BY <1>3, <5>1, <5>2, SpaceColumn
        <5>4. QED
          BY <3>2, <5>3
      <4>2. QED
        BY <1>3, <3>2, <4>1
    <3>4. a + 1 = Len(text)
      BY <3>1, <3>2, <3>3 DEF over
    <3>5. y.ind = y.txt
      BY <1>1, <3>2, <3>3
    <3>6. QED
      BY <3>4, <3>5 DEF Ahead
  <2>4. QED
    BY <1>1, <2>1, <2>2, <2>3
<1>10. y.ded = 0 /\ ~ (y.ded > 0) /\ y.cap # 5
  BY <1>1
<1>11. LineHalted(y, fsm)
  <2>1. a = y.num + y.txt
    BY <1>1
  <2>2. /\ Known(y, y.num + y.txt, fsm.bol) /\ (fsm.bol => BeginAt(y.num + y.txt))
        /\ y.col = 0 /\ fsm.bol => Ahead(y.num + y.txt) /\ y.ind = y.txt
    BY <1>3, <1>9, <2>1 DEF b
  <2>3. y.cap = 3 => /\ text[y.num + y.txt + 1] = "a" /\ text[y.num + y.cur] = "a"
                     /\ fsm.bol => y.mrk /\ y.col = 0
    BY <1>5, <2>1 DEF b
  <2>4. y.cap \in {1, 2, 4} /\ y.txt < y.cur =>
          /\ AllSpaces(y.num + y.txt, y.num + y.cur)
          /\ y.num + y.cur < Len(text) => text[y.num + y.cur + 1] \notin Spaces
          /\ y.num + y.cur < Len(text) /\ fsm.bol =>
               y.mrk /\ y.col = Cursor!ColumnAt(text, y.num + y.cur) /\ y.col > 0
    BY <1>8, <2>1 DEF b
  <2>5. QED
    BY <1>10, <2>2, <2>3, <2>4 DEF LineHalted
<1>12. QED
  BY <1>2, <1>11 DEF y

LEMMA LineStep ==
  ASSUME Usual, IsIndentLexer, Inv, DentInv, BeginInv, LineInv, Step PROVE LineInv'
<1>1. text' = text /\ Counts(m')
  BY StepPlaces DEF Step
<1>2. CASE pc' = "scanned"
  BY <1>1, <1>2, LineStepOff, LineWithin
<1>3. CASE pc' # "scanned"
  BY <1>1, <1>3, LineStepOn, LineWithin
<1>4. QED
  BY <1>2, <1>3

\* The match is known, and the stops behind it.
LEMMA LineScanEnd ==
  ASSUME Usual, IsIndentLexer, Inv, DentInv, BeginInv, LineInv, ScanEnd PROVE LineInv'
<1> DEFINE r == Restopped(m)
           b == fsm.bol
           g == IF m.cap = 0 THEN m.txt ELSE m.cur
           a == m.num + m.txt
           q == m.num + m.cur
           y == m'
           known == y.got \in {"bob", "nl"}
<1>1. pc = "scanned" /\ pc' = "deliver" /\ text' = text
  BY DEF ScanEnd
<1>2. r.ded = 0 \/ r.col # 0 \/ ~ b
  BY DEF ScanEnd
<1>3. a < fed
  BY <1>1 DEF BeginInv, Scanning
<1>4. /\ DentHalted(m, fsm) /\ DentOk(m) /\ LineHalted(m, fsm) /\ Counts(m)
      /\ b \in BOOLEAN
  BY <1>1 DEF DentInv, LineInv
<1>5. /\ y.num = m.num /\ y.txt = m.txt /\ y.cur = g /\ y.cap = m.cap /\ y.tab = r.tab
      /\ y.ded = IF r.ded > 0 THEN r.ded - 1 ELSE r.ded
      /\ y.got = IF g = 0 THEN "unk" ELSE text[m.num + g]
      /\ y.lpb = m.lpb /\ y.lno = m.lno /\ y.cno = m.cno
  BY <1>3, ScanEndPlaces
<1>6. /\ Len(text) \in Nat /\ fed \in Nat /\ fed <= Len(text) /\ DOMAIN m = Fields
      /\ m.num \in Nat /\ m.txt \in Nat /\ m.cur \in Nat /\ m.txt <= m.cur
  BY TextPlaces
<1>7. a \in Nat /\ q \in Nat /\ a < Len(text) /\ (m.txt < m.cur <=> a < q)
      /\ (m.cur = m.txt => q = a)
  BY <1>3, <1>6
<1>8. /\ DentOk(r) /\ (~ Moves(m) => r = m) /\ r.col = m.col
      /\ m.mrk /\ Indent(m) =>
           r.ded = m.ded /\ Len(r.tab) = Len(m.tab) + 1 /\ r.tab[Len(r.tab)] = m.col
      /\ m.mrk /\ Dedent(m) =>
           r.ded > m.ded /\ (r.tab # <<>> => r.tab[Len(r.tab)] = m.col)
  <2>1. r.col = m.col
    BY <1>6, RestoppedFacts DEF Fields
  <2>2. QED
    BY <1>4, <1>6, <2>1, RestoppedStops DEF LastStop
<1>9. m' = y
  OBVIOUS
<1> HIDE DEF r, y
<1>10. m.cap # 0 => y.num + y.cur = q
  BY <1>5
<1>11. Counts(y)
  BY <1>4, <1>5 DEF Counts
<1>12. /\ Known(m, a, b)
       /\ m.ded > 0 => m.cur = m.txt
       /\ m.cap = 3 => /\ text[a + 1] = "a" /\ text[q] = "a"
                       /\ b => m.mrk /\ m.col = 0
       /\ m.cap = 5 => text[q] = "nl"
       /\ m.cap \in {1, 2, 4} /\ m.txt < m.cur =>
            /\ AllSpaces(a, q)
            /\ q < Len(text) => text[q + 1] \notin Spaces
            /\ q < Len(text) /\ b =>
                 m.mrk /\ m.col = Cursor!ColumnAt(text, q) /\ m.col > 0
  BY <1>4 DEF LineHalted
<1>13. Looked(m, fsm)
  BY <1>4 DEF DentHalted
\* Behind a margin, the stops have been adjusted to it.
<1>14. ASSUME m.cap \in {1, 2, 4}, m.txt < m.cur,
              b /\ q < Len(text) => Aligned(r.tab, q)
       PROVE  Known(y, q, known)
  <2>1. Ahead(q)
    BY <1>12, <1>14 DEF Ahead
  <2>2. b \/ (FirstAt(q) => q = Len(text))
    <3> SUFFICES ASSUME ~ b, FirstAt(q) PROVE q = Len(text)
      OBVIOUS
    <3>1. AllSpaces(a, q) /\ a < q
      BY <1>7, <1>12, <1>14
    <3>2. FirstAt(a)
      <4> SUFFICES ASSUME NEW i \in 1 .. a, text[i] = "a"
                   PROVE  \E j \in i .. a : text[j] = "nl"
        BY DEF FirstAt
      <4> HIDE DEF a, q
      <4>1. i \in 1 .. q
        BY <1>7, <3>1
      <4>2. PICK j \in i .. q : text[j] = "nl"
        BY <4>1 DEF FirstAt
      <4>3. j \notin a + 1 .. q
        BY <3>1, <4>2 DEF AllSpaces, Spaces
      <4>4. j \in i .. a
        BY <1>7, <4>2, <4>3
      <4>5. QED
        BY <4>2, <4>4
    <3>3. Ahead(a)
      BY <1>12, <3>2 DEF Known
    <3> HIDE DEF a, q
    <3>4. a + 1 \in a + 1 .. q
      BY <1>7, <3>1
    <3>5. text[a + 1] \in Spaces
      BY <3>1, <3>4 DEF AllSpaces
    <3>6. a + 1 = Len(text)
      BY <1>7, <3>3, <3>5 DEF Ahead
    <3>7. q <= Len(text)
      <4>1. m.num + m.cur <= m.num + m.end /\ fed = m.num + m.end
        BY TextPlaces
      <4>2. q <= fed
        BY <4>1 DEF q
      <4>3. QED
        BY <1>6, <1>7, <4>2
    <3>8. QED
      BY <1>6, <1>7, <3>1, <3>6, <3>7
  <2>3. FirstAt(q) /\ q < Len(text) => Aligned(y.tab, q)
    <3>1. q < Len(text) => q # Len(text)
      BY <1>6, <1>7
    <3>2. QED
      BY <1>5, <1>14, <2>2, <3>1
  <2>4. QED
    BY <2>1, <2>3 DEF Known
<1>15. CASE m.cap = 0
  <2>1. y.cap = 0
    BY <1>5, <1>15
  <2>2. LineMatched(y)
    BY <2>1 DEF LineMatched
  <2>3. QED
    BY <1>1, <1>11, <1>9, <2>2, LineWithin
<1>16. ASSUME m.cap # 0, Known(y, q, known),
              m.cap = 3 /\ FirstAt(a) => y.ded = 0 /\ Aligned(y.tab, a)
       PROVE  LineInv'
  <2>1. y.num + y.txt = a /\ y.num + y.cur = q /\ y.cap = m.cap
    BY <1>5, <1>10, <1>16
  <2> HIDE DEF a, q
  <2>2. LineMatched(y)
    BY <1>16, <2>1 DEF LineMatched
  <2>3. QED
    BY <1>1, <1>11, <1>9, <2>2, LineWithin
<1> HIDE DEF a, q, b
<1>17. CASE m.cap # 0 /\ Repeated(m, fsm)
  <2>1. m.ded > 0 /\ m.cap = 2 /\ m.col = 0 /\ r = m
    BY <1>8, <1>17 DEF Repeated
  <2>2. q = a
    BY <1>7, <1>12, <2>1
  <2>3. m.ded # 0
    BY <2>1
  <2>4. ~ b
    BY <1>8, <1>2, <2>1, <2>3
  <2>5. Known(y, q, known)
    BY <1>5, <1>12, <2>1, <2>2, <2>4 DEF Known
  <2>6. QED
    BY <1>16, <2>1, <2>5
<1>18. CASE m.cap # 0 /\ Unmoved(m)
  <2>1. m.ded = 0 /\ m.cap \in {3, 4, 5} /\ ~ Moves(m) /\ m.txt < m.cur /\ r = m
    BY <1>8, <1>18 DEF Unmoved
  <2>2. y.ded = 0 /\ y.tab = m.tab
    BY <1>5, <2>1
  <2>3. CASE m.cap = 3
    <3>1. ~ FirstAt(q)
      <4>1. q \in 1 .. q /\ \A j \in q .. q : j = q
        BY <1>7, <2>1
      <4>2. text[q] = "a"
        BY <1>12, <2>3
      <4>3. QED
        BY <4>1, <4>2 DEF FirstAt
    <3>2. Known(y, q, known)
      BY <2>2, <3>1 DEF Known
    <3>3. FirstAt(a) => Aligned(m.tab, a)
      <4>1. CASE ~ b
        BY <1>7, <1>12, <2>3, <4>1 DEF Known
      <4>2. CASE b
        <5>1. m.mrk /\ m.col = 0 /\ ~ Dedent(m)
          BY <1>12, <2>1, <2>3, <4>2 DEF Moves
        <5>2. m.tab # <<>> => m.tab[Len(m.tab)] > 0
          <6>1. m.tab \in Seq(Nat \ {0})
            BY <1>4 DEF DentOk, Stops
          <6>2. m.tab # <<>> => m.tab[Len(m.tab)] \in Nat \ {0}
            BY <6>1
          <6>3. QED
            BY <6>2
        <5>3. m.tab = <<>>
          BY <5>1, <5>2 DEF Dedent, LastStop
        <5>4. QED
          BY <5>3 DEF Aligned
      <4>3. QED
        BY <4>1, <4>2
    <3>4. QED
      BY <1>16, <1>18, <2>2, <3>2, <3>3
  <2>4. CASE m.cap = 4
    <3>1. b /\ q < Len(text) => Aligned(r.tab, q)
      <4> SUFFICES ASSUME b, q < Len(text) PROVE Aligned(r.tab, q)
        OBVIOUS
      <4>1. m.mrk /\ m.col = Cursor!ColumnAt(text, q) /\ m.col > 0
        BY <1>12, <2>1, <2>4
      <4>2. m.tab # <<>> /\ ~ (LastStop(m) < m.col) /\ ~ (LastStop(m) > m.col)
        BY <2>1, <4>1 DEF Moves, Indent, Dedent
      <4>3. m.tab[Len(m.tab)] \in Nat /\ m.col \in Nat
        <5>1. m.tab \in Seq(Nat \ {0}) /\ m.col \in Nat
          BY <1>4 DEF DentOk, Stops
        <5>2. QED
          BY <4>2, <5>1
      <4>4. LastStop(m) = m.col
        BY <4>2, <4>3 DEF LastStop
      <4>5. QED
        BY <2>1, <4>1, <4>4 DEF Aligned, LastStop
    <3>2. Known(y, q, known)
      BY <1>14, <2>1, <2>4, <3>1
    <3>3. QED
      BY <1>16, <2>4, <3>2
  <2>5. CASE m.cap = 5
    <3>1. text[q] = "nl" /\ m.cur # 0
      BY <1>6, <1>12, <2>1, <2>5
    <3>2. y.got = "nl"
      BY <1>5, <2>5, <3>1 DEF q
    <3>3. Known(y, q, known)
      BY <2>2, <3>2 DEF Known
    <3>4. QED
      BY <1>16, <2>5, <3>3
  <2>6. QED
    BY <2>1, <2>3, <2>4, <2>5
<1>19. CASE m.cap # 0 /\ Indented(m)
  <2>1. m.ded = 0 /\ m.mrk /\ Indent(m) /\ m.cap = 1 /\ m.txt < m.cur
    BY <1>19 DEF Indented
  <2>2. b /\ q < Len(text) => Aligned(r.tab, q)
    BY <1>8, <1>12, <2>1 DEF Aligned
  <2>3. Known(y, q, known)
    BY <1>14, <2>1, <2>2
  <2>4. QED
    BY <1>16, <2>1, <2>3
<1>20. CASE m.cap # 0 /\ Dedented(m, fsm)
  <2>1. m.ded = 0 /\ m.mrk /\ Dedent(m)
    BY <1>20 DEF Dedented
  <2>2. r.ded # 0
    BY <1>8, <2>1
  <2>3. m.cap = 2 /\ m.txt < m.cur
    BY <1>8, <1>20, <1>2, <2>2 DEF Dedented, b
  <2>4. b /\ q < Len(text) => Aligned(r.tab, q)
    BY <1>8, <1>12, <2>1, <2>3 DEF Aligned
  <2>5. Known(y, q, known)
    BY <1>14, <2>3, <2>4
  <2>6. QED
    BY <1>16, <2>3, <2>5
<1>21. QED
  BY <1>4, <1>15, <1>17, <1>18, <1>19, <1>20 DEF DentHalted

LEMMA LineDeliver == ASSUME Inv, DentInv, LineInv, Deliver PROVE LineInv'
<1>1. pc = "deliver" /\ text' = text
  BY DEF Deliver
<1>2. m.cap \in 0 .. 5 /\ LineMatched(m) /\ Counts(m)
  BY <1>1 DEF DentInv, LineInv
<1>3. /\ m'.num = m.num /\ m'.txt = m.txt /\ m'.cur = m.cur /\ m'.tab = m.tab
      /\ m'.ded = m.ded /\ m'.got = m.got /\ m'.lpb = m.txt
      /\ token'.rule = m.cap /\ token'.col = m'.cno
      /\ pc' = IF m.cap > 0 THEN "loop" ELSE "done"
      /\ Counts(m')
  BY <1>2, DeliverPlaces
<1>4. pc' = "loop" => m.cap # 0
  <2>1. m.cap > 0 => m.cap # 0
    BY <1>2
  <2>2. QED
    BY <1>3, <2>1
<1>5. m'.cno = Cursor!ColumnAt(text, m.num + m.txt)
  BY <1>3 DEF Counts
<1>6. m.cap # 0 =>
        /\ Known(m', m.num + m.cur, m'.got \in {"bob", "nl"})
        /\ m.cap = 3 /\ FirstAt(m.num + m.txt) =>
             m'.ded = 0 /\ Aligned(m'.tab, m.num + m.txt)
  BY <1>2, <1>3, KnownBy DEF LineMatched
<1> DEFINE a == m.num + m.txt
           q == m.num + m.cur
<1>7. a = m'.num + m'.txt /\ q = m'.num + m'.cur
  BY <1>3
<1>8. (Counts(m))'
  BY <1>1, <1>3 DEF Counts
<1>9. \A i \in 1 .. Len(text') :
        text'[i] \notin {"bob", "eof"} /\ AsChar(text'[i]) # "eof"
  BY <1>1 DEF LineInv
<1>10. pc' \in {"loop", "done"}
  BY <1>3
<1>11. pc' = "loop" =>
         /\ (Known(m, m.num + m.cur, m.got \in {"bob", "nl"}))'
         /\ (token.rule = 3 /\ FirstAt(m.num + m.txt) =>
               /\ m.ded = 0 /\ Aligned(m.tab, m.num + m.txt)
               /\ token.col = Cursor!ColumnAt(text, m.num + m.txt))'
  <2> SUFFICES ASSUME pc' = "loop"
               PROVE  /\ (Known(m, m.num + m.cur, m.got \in {"bob", "nl"}))'
                      /\ (token.rule = 3 /\ FirstAt(m.num + m.txt) =>
                            /\ m.ded = 0 /\ Aligned(m.tab, m.num + m.txt)
                            /\ token.col = Cursor!ColumnAt(text, m.num + m.txt))'
    OBVIOUS
  <2>1. Known(m', m'.num + m'.cur, m'.got \in {"bob", "nl"})
    BY <1>4, <1>6, <1>7
  <2>2. (Known(m, m.num + m.cur, m.got \in {"bob", "nl"}))'
    BY <1>1, <2>1 DEF Known, Ahead, FirstAt, Aligned
  <2>3. token'.rule = 3 /\ FirstAt(m'.num + m'.txt) =>
          /\ m'.ded = 0 /\ Aligned(m'.tab, m'.num + m'.txt)
          /\ token'.col = Cursor!ColumnAt(text, m'.num + m'.txt)
    BY <1>3, <1>4, <1>5, <1>6, <1>7
  <2>4. (token.rule = 3 /\ FirstAt(m.num + m.txt) =>
            /\ m.ded = 0 /\ Aligned(m.tab, m.num + m.txt)
            /\ token.col = Cursor!ColumnAt(text, m.num + m.txt))'
    BY <1>1, <2>3 DEF FirstAt, Aligned
  <2>5. QED
    BY <2>2, <2>4
<1>12. QED
  BY <1>8, <1>9, <1>10, <1>11 DEF LineInv

LEMMA LineFinish == ASSUME Inv, LineInv, Finish PROVE LineInv'
<1>1. PICK k \in Chunks(m) : m' = Ready(m, k)
  BY DEF Finish
<1>2. pc' = "done" /\ text' = text
  BY DEF Finish
<1>3. Good(m, fed) /\ Len(text) \in Nat /\ fed \in Nat /\ fed <= Len(text)
  BY TextPlaces
<1>4. Counts(m) => Counts(Ready(m, k))
  BY <1>3, ReadyCarries
<1>5. Counts(m)'
  BY <1>1, <1>2, <1>4 DEF LineInv, Counts
<1>6. \A i \in 1 .. Len(text') :
        text'[i] \notin {"bob", "eof"} /\ AsChar(text'[i]) # "eof"
  BY <1>2 DEF LineInv
<1>7. QED
  BY <1>2, <1>5, <1>6 DEF LineInv

LEMMA LineNext ==
  ASSUME Usual, IsIndentLexer
  PROVE  Inv /\ DentInv /\ BeginInv /\ LineInv /\ [Next]_vars => LineInv'
<1> SUFFICES ASSUME Inv, DentInv, BeginInv, LineInv, [Next]_vars PROVE LineInv'
  OBVIOUS
<1>1. CASE Done \/ UNCHANGED vars
  <2>1. UNCHANGED <<text, fed, m, fsm, pc, user, token>>
    BY <1>1 DEF Done, vars
  <2>2. QED
    BY <2>1 DEF LineInv, Counts, LineState, LineHalted, LineMatched, Known, Ahead,
                FirstAt, Aligned, BeginAt, AllSpaces, Dedent, LastStop
<1>2. QED
  BY <1>1, LineScan, LineFinish, LineJump, LineStep, LineHalt, LineRescan,
     LineScanEnd, LineDeliver
  DEF Next

LEMMA LineSafe ==
  ASSUME Usual, IsIndentLexer, LineTexts
  PROVE  Spec => []Inv /\ []DentInv /\ []BeginInv /\ []LineInv
<1>1. Init => LineInv
  BY LineInit
<1>2. Inv /\ DentInv /\ BeginInv /\ LineInv /\ [Next]_vars => LineInv'
  BY LineNext
<1>3. NoBob
  BY DEF LineTexts, NoBob
<1>4. Spec => []Inv /\ []DentInv /\ []BeginInv
  BY <1>3, BeginSafe
<1>5. QED
  BY <1>1, <1>2, <1>4, PTL DEF Spec

(***************************************************************************)
(* On every text, wherever the buffer is shifted in it, the stops increase *)
(* and, where a word is the first of its line, no dedent is pending and    *)
(* the last stop is the word's column.                                     *)
(***************************************************************************)
THEOREM StopsAreThoseOfLine ==
  ASSUME Fresh = "nul", ShortReads = FALSE, IsIndentLexer, LineTexts
  PROVE  Spec => []StopsFollowTheLine
<1>1. Usual
  BY DEF Usual
<1>2. DentInv /\ LineInv => StopsFollowTheLine
  <2> SUFFICES ASSUME DentInv, LineInv PROVE StopsFollowTheLine
    OBVIOUS
  <2>1. Increasing(m.tab)
    BY DEF DentInv, DentOk, Stops
  <2>2. ASSUME pc = "loop", token.rule = 3, FirstOnLine
        PROVE  /\ m.ded = 0
               /\ m.tab # <<>> => LastStop(m) = token.col
               /\ token.col = 0 => m.tab = <<>>
    <3>1. FirstAt(m.num + m.txt)
      BY <2>2 DEF FirstOnLine, FirstAt
    <3> DEFINE k == Cursor!ColumnAt(text, m.num + m.txt)
    <3>2. m.ded = 0 /\ Aligned(m.tab, m.num + m.txt) /\ token.col = k
      BY <2>2, <3>1 DEF LineInv
    <3>3. m.tab = <<>> \/ (LastStop(m) = k /\ k > 0)
      BY <3>2 DEF Aligned, LastStop
    <3> HIDE DEF k
    <3>4. k > 0 => k # 0
      BY ONLY TRUE
    <3>5. QED
      BY <3>2, <3>3, <3>4
  <2>3. QED
    BY <2>1, <2>2 DEF StopsFollowTheLine
<1>3. QED
  BY <1>1, <1>2, LineSafe, PTL
=============================================================================
