--------------------------- MODULE FileInputProofs ---------------------------
(***************************************************************************)
(* The inputs of a lexer, for every file and every sequence of requests:   *)
(* what is carried from call to call stays in utf8_, an answer in what     *)
(* was asked for, and a byte that is none of utf8_ is counted as surplus.  *)
(***************************************************************************)
EXTENDS FileInput, SequenceTheorems, TLAPS

Byte == 0 .. 255
Encodings == {"plain", "utf8", "utf16be", "utf16le", "utf32be", "utf32le"}

-----------------------------------------------------------------------------
(***************************************************************************)
(* Characters.                                                             *)
(***************************************************************************)
LEMMA Range0 ==
  ASSUME NEW top \in Nat
  PROVE  \A n : n \in 0 .. top <=> n \in Int /\ 0 <= n /\ n <= top
OBVIOUS

LEMMA ByteFacts ==
  \A n : n \in Byte <=> n \in Int /\ 0 <= n /\ n <= 255
BY Range0 DEF Byte

LEMMA SubSeqBytes ==
  ASSUME NEW S, NEW s \in Seq(S), NEW a \in Nat \ {0}, NEW b \in Int, b <= Len(s)
  PROVE  /\ SubSeq(s, a, b) \in Seq(S)
         /\ Len(SubSeq(s, a, b)) = IF a <= b THEN b - a + 1 ELSE 0
<1>1. \A i \in a .. b : s[i] \in S
  <2>1. \A i \in a .. b : i \in 1 .. Len(s)
    BY LenProperties
  <2>2. QED
    BY <2>1, ElementOfSeq
<1>2. QED
  BY <1>1, SubSeqProperties

LEMMA Utf8Facts ==
  ASSUME NEW c \in Int
  PROVE  /\ Utf8(c) \in Seq(Byte) /\ Len(Utf8(c)) \in 1 .. 5
         /\ c < 128 => Len(Utf8(c)) = 1
<1> DEFINE Goal == /\ Utf8(c) \in Seq(Byte) /\ Len(Utf8(c)) \in 1 .. 5
                   /\ c < 128 => Len(Utf8(c)) = 1
<1>1. ASSUME c < 128 PROVE Goal
  <2>1. Utf8(c) = <<c % 256>>
    BY SMT, <1>1 DEF Utf8
  <2>2. c % 256 \in Byte
    BY SMT DEF Byte
  <2>3. QED
    BY SMT, <1>1, <2>1, <2>2
<1>2. ASSUME c > 1114111 PROVE Goal
  <2>1. Utf8(c) = <<248, 136, 128, 128, 128>>
    BY SMT, <1>2 DEF Utf8
  <2>2. QED
    BY SMT, <1>2, <2>1 DEF Byte
<1>3. ASSUME 128 <= c /\ c < 2048 PROVE Goal
  <2>1. Utf8(c) = <<192 + c \div 64, 128 + (c % 64)>>
    BY SMT, <1>3 DEF Utf8
  <2>2. 192 + c \div 64 \in Byte /\ 128 + (c % 64) \in Byte
    BY SMT, <1>3 DEF Byte
  <2>3. QED
    BY SMT, <1>3, <2>1, <2>2
<1>4. ASSUME 2048 <= c /\ c < 65536 PROVE Goal
  <2>1. Utf8(c) = <<224 + c \div 4096, 128 + ((c \div 64) % 64), 128 + (c % 64)>>
    BY SMT, <1>4 DEF Utf8
  <2>2. /\ 224 + c \div 4096 \in Byte /\ 128 + (c % 64) \in Byte
        /\ 128 + ((c \div 64) % 64) \in Byte
    BY SMT, <1>4 DEF Byte
  <2>3. QED
    BY SMT, <1>4, <2>1, <2>2
<1>5. ASSUME 65536 <= c /\ c <= 1114111 PROVE Goal
  <2>1. Utf8(c) = <<240 + c \div 262144, 128 + ((c \div 4096) % 64),
                    128 + ((c \div 64) % 64), 128 + (c % 64)>>
    BY SMT, <1>5 DEF Utf8
  <2>2. /\ 240 + c \div 262144 \in Byte /\ 128 + (c % 64) \in Byte
        /\ 128 + ((c \div 64) % 64) \in Byte
        /\ 128 + ((c \div 4096) % 64) \in Byte
    BY SMT, <1>5 DEF Byte
  <2>3. QED
    BY SMT, <1>5, <2>1, <2>2
<1>6. \/ c < 128 \/ c > 1114111
      \/ 128 <= c /\ c < 2048
      \/ 2048 <= c /\ c < 65536
      \/ 65536 <= c /\ c <= 1114111
  BY SMT
<1>7. Goal
  <2> HIDE DEF Goal
  <2>1. QED
    BY SMT, <1>1, <1>2, <1>3, <1>4, <1>5, <1>6
<1>8. QED
  BY SMT, <1>7

LEMMA NumberTyped ==
  ASSUME NEW e, NEW b \in Seq(Byte), Len(b) \in {2, 4}
  PROVE  Number(e, b) \in Int
<1> DEFINE big == IF e \in {"utf16be", "utf32be"} THEN b ELSE Reverse(b)
<1>1. \A i \in 1 .. Len(b) : b[i] \in Byte
  BY ElementOfSeq
<1>2. \A i \in 1 .. Len(b) : Reverse(b)[i] = b[Len(b) - i + 1]
  BY DEF Reverse
<1>3. ASSUME NEW i \in 1 .. Len(b) PROVE big[i] \in Byte
  <2>1. Len(b) - i + 1 \in 1 .. Len(b)
    BY LenProperties
  <2>2. Reverse(b)[i] \in Byte
    BY <1>1, <1>2, <2>1
  <2>3. QED
    BY <1>1, <2>2
<1> HIDE DEF big
<1>4. CASE Len(b) = 2
  <2>1. big[1] \in Int /\ big[2] \in Int
    BY <1>3, <1>4, ByteFacts
  <2>2. Number(e, b) = 256 * big[1] + big[2]
    BY <1>4 DEF Number, big
  <2>3. QED
    BY <2>1, <2>2
<1>5. CASE Len(b) = 4
  <2> DEFINE top == IF big[1] > 127 THEN big[1] - 256 ELSE big[1]
  <2>1. big[1] \in Int /\ big[2] \in Int /\ big[3] \in Int /\ big[4] \in Int
    BY <1>3, <1>5, ByteFacts
  <2>2. top \in Int
    BY <2>1
  <2>3. Number(e, b) = 256 * (256 * (256 * top + big[2]) + big[3]) + big[4]
    BY <1>5 DEF Number, big
  <2> HIDE DEF top
  <2>4. QED
    BY <2>1, <2>2, <2>3
<1>6. QED
  BY <1>4, <1>5

LEMMA CharacterTyped ==
  ASSUME NEW e, NEW b \in Seq(Byte), Len(b) >= Width(e)
  PROVE  Character(e, b).code \in Int /\ Character(e, b).used \in Nat
<1> DEFINE c == Number(e, SubSeq(b, 1, Width(e)))
           low == Number(e, SubSeq(b, 3, 4))
           pair == Len(b) >= 4 /\ Low(low)
           whole == 65536 + (c - 55296) * 1024 + low - 56320
<1>1. Len(b) \in Nat /\ Width(e) \in {2, 4}
  BY LenProperties DEF Width
<1>2. c \in Int
  <2>1. SubSeq(b, 1, Width(e)) \in Seq(Byte) /\ Len(SubSeq(b, 1, Width(e))) = Width(e)
    BY <1>1, SubSeqBytes
  <2>2. QED
    BY <1>1, <2>1, NumberTyped
<1>3. Len(b) >= 4 => low \in Int
  <2>1. SUFFICES ASSUME Len(b) >= 4 PROVE low \in Int
    OBVIOUS
  <2>2. SubSeq(b, 3, 4) \in Seq(Byte) /\ Len(SubSeq(b, 3, 4)) = 2
    BY <1>1, <2>1, SubSeqBytes
  <2>3. QED
    BY <2>2, NumberTyped
<1>4. Character(e, b) =
        IF Width(e) = 4 THEN [code |-> c, used |-> 4] ELSE
        CASE High(c) /\ pair -> [code |-> whole, used |-> 4]
          [] High(c) /\ ~pair -> [code |-> Nonchar, used |-> Least(4, Len(b))]
          [] Low(c) -> [code |-> Nonchar, used |-> 2]
          [] OTHER -> [code |-> c, used |-> 2]
  BY DEF Character
<1>5. ~(High(c) /\ Low(c))
  BY <1>2 DEF High, Low
<1>6. pair => whole \in Int
  BY <1>2, <1>3
<1> HIDE DEF c, low, pair, whole
<1>7. Least(4, Len(b)) \in Nat /\ Nonchar \in Int
  BY <1>1 DEF Least, Nonchar
<1>8. CASE Width(e) = 4
  BY <1>2, <1>4, <1>8
<1>9. CASE Width(e) # 4 /\ High(c) /\ pair
  <2>1. Character(e, b) = [code |-> whole, used |-> 4]
    BY <1>4, <1>5, <1>9
  <2>2. QED
    BY <1>6, <1>9, <2>1
<1>10. CASE Width(e) # 4 /\ High(c) /\ ~pair
  <2>1. Character(e, b) = [code |-> Nonchar, used |-> Least(4, Len(b))]
    BY <1>4, <1>5, <1>10
  <2>2. QED
    BY <1>7, <2>1
<1>11. CASE Width(e) # 4 /\ Low(c)
  <2>1. Character(e, b) = [code |-> Nonchar, used |-> 2]
    BY <1>4, <1>5, <1>11
  <2>2. QED
    BY <1>7, <2>1
<1>12. CASE Width(e) # 4 /\ ~High(c) /\ ~Low(c)
  <2>1. Character(e, b) = [code |-> c, used |-> 2]
    BY <1>4, <1>12
  <2>2. QED
    BY <1>2, <2>1
<1>13. QED
  BY <1>8, <1>9, <1>10, <1>11, <1>12

-----------------------------------------------------------------------------
(***************************************************************************)
(* Opening a file.                                                         *)
(***************************************************************************)

\* The bytes of a file in front of its text, when its bytes are passed on.
Behind(e) == IF e = "utf8" THEN 3 ELSE 0

\* A file of three bytes that begins like a mark of four: the third is lost.
Lossy(f) == Len(f) = 3 /\ SubSeq(f, 1, 2) \in {<<0, 0>>, <<255, 254>>}

OpenedOk(o, f) ==
  /\ o.utf8 \in Seq(Byte)
  /\ o.uidx \in Nat /\ o.ulen \in Nat /\ o.read \in Nat
  /\ o.uidx + o.ulen <= 8
  /\ o.encoding \in {"plain", "utf8"} /\ ~Lossy(f) =>
       /\ o.uidx = 0 /\ Len(o.utf8) = o.ulen
       /\ o.read = Behind(o.encoding) + o.ulen /\ o.read <= Len(f)
       /\ \A i \in 1 .. o.ulen : o.utf8[i] = f[Behind(o.encoding) + i]

LEMMA PlainOk ==
  ASSUME NEW f \in Seq(Byte), NEW n \in 0 .. 4, NEW r \in Nat, n <= Len(f),
         r = n \/ Lossy(f)
  PROVE  OpenedOk(Plain(f, n, r), f)
<1> DEFINE o == Plain(f, n, r)
<1>1. /\ o.encoding = "plain" /\ o.utf8 = SubSeq(f, 1, n) /\ o.uidx = 0
      /\ o.ulen = n /\ o.read = r
  BY DEF Plain
<1>2. n \in Int /\ 0 <= n /\ n <= 4 /\ n \in Nat
  BY Range0
<1>3. SubSeq(f, 1, n) \in Seq(Byte) /\ Len(SubSeq(f, 1, n)) = n
  BY <1>2, SubSeqBytes
<1>4. \A i \in 1 .. n : SubSeq(f, 1, n)[i] = f[i]
  BY <1>2
<1>5. Behind("plain") = 0
  BY DEF Behind
<1> HIDE DEF o
<1>6. o.utf8 \in Seq(Byte) /\ Len(o.utf8) = o.ulen
  BY <1>1, <1>3
<1>7. o.uidx \in Nat /\ o.ulen \in Nat /\ o.read \in Nat /\ o.uidx + o.ulen <= 8
  BY <1>1, <1>2
<1>8. ~Lossy(f) => /\ o.read = Behind(o.encoding) + o.ulen /\ o.read <= Len(f)
                   /\ \A i \in 1 .. o.ulen : o.utf8[i] = f[Behind(o.encoding) + i]
  BY <1>1, <1>2, <1>4, <1>5
<1>9. OpenedOk(o, f)
  BY <1>1, <1>6, <1>7, <1>8 DEF OpenedOk
<1>10. QED
  BY <1>9 DEF o

LEMMA MarkedOk ==
  ASSUME NEW f \in Seq(Byte), NEW e, NEW n \in Nat, e # "plain",
         e = "utf8" => n = 3 /\ n <= Len(f)
  PROVE  OpenedOk(Marked(e, n), f)
<1>1. Marked(e, n) = [encoding |-> e, utf8 |-> <<>>, uidx |-> 0, ulen |-> 0,
                      read |-> n]
  BY DEF Marked
<1>2. <<>> \in Seq(Byte) /\ Len(<<>>) = 0
  BY EmptySeq
<1>3. QED
  BY <1>1, <1>2 DEF OpenedOk, Behind

LEMMA MarkedLittleOk ==
  ASSUME NEW f \in Seq(Byte), Len(f) >= 4
  PROVE  OpenedOk(MarkedLittle(f), f)
<1> DEFINE wide == SubSeq(f, 3, 4) = <<0, 0>>
           c == Character("utf16le", SubSeq(f, 3, Len(f)))
           s == Utf8(c.code)
<1>1. Len(f) \in Nat
  BY LenProperties
<1>2. c.code \in Int /\ c.used \in Nat
  <2>1. SubSeq(f, 3, Len(f)) \in Seq(Byte) /\ Len(SubSeq(f, 3, Len(f))) = Len(f) - 2
    BY <1>1, SubSeqBytes
  <2>2. Len(SubSeq(f, 3, Len(f))) >= Width("utf16le")
    BY <1>1, <2>1 DEF Width
  <2>3. QED
    BY <2>1, <2>2, CharacterTyped
<1>3. s \in Seq(Byte) /\ Len(s) \in 1 .. 5
  BY <1>2, Utf8Facts
<1>4. MarkedLittle(f) =
        CASE wide -> Marked("utf32le", 4)
          [] ~wide /\ c.code \in 1..127 ->
               [encoding |-> "utf16le", utf8 |-> SubSeq(f, 1, 4), uidx |-> 2,
                ulen |-> 1, read |-> 4]
          [] OTHER ->
               [encoding |-> "utf16le", utf8 |-> s \o SubSeq(f, Len(s) + 1, 4),
                uidx |-> 0, ulen |-> Len(s), read |-> 2 + c.used]
  BY DEF MarkedLittle
<1> DEFINE small == c.code \in 1 .. 127
<1> HIDE DEF wide, c, s, small
<1>5. CASE wide
  <2>1. MarkedLittle(f) = Marked("utf32le", 4)
    BY <1>4, <1>5
  <2>2. QED
    BY <2>1, MarkedOk
<1>6. CASE ~wide /\ small
  <2>1. MarkedLittle(f) = [encoding |-> "utf16le", utf8 |-> SubSeq(f, 1, 4),
                           uidx |-> 2, ulen |-> 1, read |-> 4]
    BY <1>4, <1>6 DEF small
  <2>2. SubSeq(f, 1, 4) \in Seq(Byte)
    BY <1>1, SubSeqBytes
  <2>3. QED
    BY <2>1, <2>2 DEF OpenedOk
<1>7. CASE ~wide /\ ~small
  <2>1. MarkedLittle(f) =
          [encoding |-> "utf16le", utf8 |-> s \o SubSeq(f, Len(s) + 1, 4),
           uidx |-> 0, ulen |-> Len(s), read |-> 2 + c.used]
    BY <1>4, <1>7 DEF small
  <2>2. s \o SubSeq(f, Len(s) + 1, 4) \in Seq(Byte)
    <3>1. SubSeq(f, Len(s) + 1, 4) \in Seq(Byte)
      BY <1>1, <1>3, SubSeqBytes
    <3>2. QED
      BY <1>3, <3>1, ConcatProperties
  <2>3. Len(s) \in Nat /\ 0 + Len(s) <= 8 /\ 2 + c.used \in Nat
    <3>1. \A n \in 1 .. 5 : n \in Nat /\ 0 + n <= 8
      OBVIOUS
    <3>2. \A n \in Nat : 2 + n \in Nat
      OBVIOUS
    <3>3. QED
      BY <1>2, <1>3, <3>1, <3>2
  <2>4. QED
    BY <2>1, <2>2, <2>3 DEF OpenedOk
<1>8. QED
  BY <1>5, <1>6, <1>7

LEMMA OpenedFile ==
  ASSUME NEW f \in Seq(Byte)
  PROVE  OpenedOk(Opened(f), f)
<1> DEFINE first == IF f = <<>> THEN -1 ELSE f[1]
           mark == SubSeq(f, 1, 2)
           strange == first \in {0, 239, 254, 255}
           inner ==
             CASE mark = <<0, 0>> /\ Len(f) < 4 -> Plain(f, 2, Len(f))
               [] mark = <<0, 0>> /\ Len(f) >= 4 ->
                    IF SubSeq(f, 3, 4) = <<254, 255>>
                    THEN Marked("utf32be", 4) ELSE Plain(f, 4, 4)
               [] mark = <<254, 255>> -> Marked("utf16be", 2)
               [] mark = <<255, 254>> ->
                    IF Len(f) < 4 THEN Plain(f, 2, Len(f)) ELSE MarkedLittle(f)
               [] mark = <<239, 187>> /\ Len(f) > 2 ->
                    IF f[3] = 191 THEN Marked("utf8", 3) ELSE Plain(f, 3, 3)
               [] OTHER -> Plain(f, 2, 2)
<1>1. Len(f) \in Nat /\ (f = <<>> => Len(f) = 0)
  BY LenProperties, EmptySeq
<1>2. f # <<>> => Len(f) > 0
  BY <1>1, EmptySeq
<1>3. Opened(f) =
        CASE ~strange \/ Len(f) = 1 ->
               Plain(f, Least(1, Len(f)), Least(1, Len(f)))
          [] strange /\ Len(f) > 1 -> inner
  BY DEF Opened
<1>4. strange => f # <<>>
  OBVIOUS
<1>5. mark = <<0, 0>> \/ mark = <<255, 254>> => (Len(f) = 3 => Lossy(f))
  BY DEF Lossy
<1> DEFINE len == Len(f)
<1>6. len = Len(f) /\ len \in Nat
  BY <1>1
<1> HIDE DEF first, mark, strange, inner, len
<1>7. CASE ~strange \/ Len(f) = 1
  <2>1. Opened(f) = Plain(f, Least(1, Len(f)), Least(1, Len(f)))
    <3>1. ~(strange /\ len > 1)
      BY <1>7, <1>6
    <3>2. QED
      BY <1>3, <1>7, <1>6, <3>1
  <2>2. Least(1, len) \in 0 .. 4 /\ Least(1, len) <= len
    BY <1>6 DEF Least
  <2>3. Least(1, len) \in Nat
    BY <1>6 DEF Least
  <2>4. QED
    BY <1>6, <2>1, <2>2, <2>3, PlainOk
<1>8. CASE strange /\ Len(f) > 1
  <2>1. Opened(f) = inner
    BY <1>1, <1>3, <1>8
  <2>2. CASE mark = <<0, 0>> /\ Len(f) < 4
    <3>1. inner = Plain(f, 2, Len(f))
      BY <2>2 DEF inner
    <3>2. len = 2 \/ len = 3
      BY <1>8, <1>6, <2>2
    <3>3. len >= 2 /\ (len = 2 \/ Lossy(f))
      BY <1>5, <1>6, <2>2, <3>2
    <3>4. QED
      BY <1>6, <2>1, <3>1, <3>3, PlainOk
  <2>3. CASE mark = <<0, 0>> /\ ~(Len(f) < 4)
    <3>1. inner = IF SubSeq(f, 3, 4) = <<254, 255>>
                  THEN Marked("utf32be", 4) ELSE Plain(f, 4, 4)
      BY <1>1, <2>3 DEF inner
    <3>2. QED
      BY <1>1, <2>1, <2>3, <3>1, PlainOk, MarkedOk
  <2>4. CASE mark = <<254, 255>>
    <3>1. inner = Marked("utf16be", 2)
      BY <2>4 DEF inner
    <3>2. QED
      BY <2>1, <3>1, MarkedOk
  <2>5. CASE mark = <<255, 254>>
    <3>1. inner = IF Len(f) < 4 THEN Plain(f, 2, Len(f)) ELSE MarkedLittle(f)
      BY <2>5 DEF inner
    <3>2. CASE Len(f) < 4
      <4>1. len = 2 \/ len = 3
        BY <1>8, <1>6, <3>2
      <4>2. len >= 2 /\ (len = 2 \/ Lossy(f))
        BY <1>5, <1>6, <2>5, <4>1
      <4>3. QED
        BY <1>6, <2>1, <3>1, <3>2, <4>2, PlainOk
    <3>3. CASE ~(Len(f) < 4)
      BY <1>1, <2>1, <3>1, <3>3, MarkedLittleOk
    <3>4. QED
      BY <3>2, <3>3
  <2>6. CASE mark = <<239, 187>> /\ Len(f) > 2
    <3>1. inner = IF f[3] = 191 THEN Marked("utf8", 3) ELSE Plain(f, 3, 3)
      BY <2>6 DEF inner
    <3>2. QED
      BY <1>1, <2>1, <2>6, <3>1, PlainOk, MarkedOk
  <2>7. CASE /\ mark # <<0, 0>> /\ mark # <<254, 255>> /\ mark # <<255, 254>>
             /\ ~(mark = <<239, 187>> /\ Len(f) > 2)
    <3>1. inner = Plain(f, 2, 2)
      BY <2>7 DEF inner
    <3>2. QED
      BY <1>1, <1>8, <2>1, <3>1, PlainOk
  <2>8. QED
    BY <2>2, <2>3, <2>4, <2>5, <2>6, <2>7
<1>9. QED
  BY <1>1, <1>2, <1>4, <1>7, <1>8

-----------------------------------------------------------------------------
(***************************************************************************)
(* The invariant.                                                          *)
(***************************************************************************)
Typed ==
  /\ file \in Seq(Byte) /\ rest \in Seq(Byte) /\ delivered \in Seq(Int)
  /\ utf8 \in [0 .. 7 -> Byte]
  /\ uidx \in Nat /\ ulen \in Nat
  /\ length \in Nat /\ length <= 8

\* While a call reads, nothing is carried, unless its answer is full.
CallOk ==
  /\ call \in [pc : {"idle", "reading", "ended"}, want : Nat, got : Nat]
  /\ call.want + call.got <= MaxAsk
  /\ call.pc = "reading" => ulen = 0 \/ call.want = 0
  /\ call.pc = "reading" /\ Bytes => call.want > 0

\* What is delivered and no surplus is a byte: nothing behind the end of utf8_
\* is taken for a part of a character (input_get, the carried bytes).
OnlyBytes ==
  \A i \in 1 .. Len(delivered) : i \in surplus \/ delivered[i] \in 0 .. 255

Passing == Bytes /\ ~Lossy(file)

\* The bytes of a file that are passed on are delivered, carried or not read.
Passed ==
  Passing =>
    /\ surplus = {} /\ uidx + ulen = length
    /\ Behind(encoding) + Len(delivered) + ulen + Len(rest) = Len(file)
    /\ \A i \in 1 .. Len(delivered) : delivered[i] = file[Behind(encoding) + i]
    /\ \A i \in 1 .. ulen :
         utf8[uidx + i - 1] = file[Behind(encoding) + Len(delivered) + i]
    /\ \A i \in 1 .. Len(rest) :
         rest[i] = file[Behind(encoding) + Len(delivered) + ulen + i]
    /\ call.pc = "ended" => ulen = 0 /\ Len(rest) = 0

Inv == Typed /\ CallOk /\ CarryInside /\ OnlyBytes /\ Passed

LEMMA WrittenTyped ==
  ASSUME NEW old \in [0 .. 7 -> Byte], NEW s \in Seq(Byte)
  PROVE  /\ Written(old, s) \in [0 .. 7 -> Byte]
         /\ \A i \in 0 .. 7 : i < Len(s) => Written(old, s)[i] = s[i + 1]
<1>1. ASSUME NEW i \in 0 .. 7, i < Len(s) PROVE s[i + 1] \in Byte
  <2>1. Len(s) \in Nat /\ i \in Nat /\ i + 1 \in 1 .. Len(s)
    BY <1>1, LenProperties
  <2>2. QED
    BY <2>1, ElementOfSeq
<1>2. QED
  BY <1>1 DEF Written

LEMMA RestTyped ==
  ASSUME NEW s \in Seq(Byte), NEW k \in Nat
  PROVE  /\ SubSeq(s, k + 1, Len(s)) \in Seq(Byte)
         /\ k <= Len(s) => Len(SubSeq(s, k + 1, Len(s))) = Len(s) - k
         /\ \A i \in 1 .. Len(s) - k : SubSeq(s, k + 1, Len(s))[i] = s[k + i]
<1>1. Len(s) \in Nat /\ k + 1 \in Nat \ {0}
  BY LenProperties
<1>2. SubSeq(s, k + 1, Len(s)) \in Seq(Byte)
  BY <1>1, SubSeqBytes
<1>3. Len(SubSeq(s, k + 1, Len(s))) = IF k + 1 <= Len(s) THEN Len(s) - (k + 1) + 1 ELSE 0
  BY <1>1, SubSeqBytes
<1>4. \A i \in 1 .. Len(s) - k : SubSeq(s, k + 1, Len(s))[i] = s[k + i]
  <2>1. \A i \in k + 1 .. Len(s) : s[i] \in Byte
    BY <1>1, ElementOfSeq
  <2>2. \A i \in 1 .. Len(s) - (k + 1) + 1 :
          SubSeq(s, k + 1, Len(s))[i] = s[(k + 1) + i - 1]
    BY <1>1, <2>1, SubSeqProperties
  <2>3. QED
    BY <1>1, <2>2
<1>5. QED
  BY <1>1, <1>2, <1>3, <1>4

LEMMA InitInv == ASSUME Init PROVE Inv
<1> DEFINE o == IF source = "file" THEN Opened(file) ELSE OpenedBuffer
<1>1. /\ encoding = o.encoding /\ utf8 = Written(Blank, o.utf8)
      /\ uidx = o.uidx /\ ulen = o.ulen /\ length = o.uidx + o.ulen
      /\ rest = SubSeq(file, o.read + 1, Len(file))
      /\ delivered = <<>> /\ surplus = {} /\ call = Idle
  BY DEF Init
<1>2. file \in Seq(Byte)
  BY FilesAssumption DEF Init, Byte
<1>3. OpenedOk(o, file)
  <2>1. CASE source = "file"
    BY <1>2, <2>1, OpenedFile
  <2>2. CASE source # "file"
    <3>1. OpenedBuffer = Plain(file, 0, 0)
      <4>1. SubSeq(file, 1, 0) = <<>>
        BY SubSeqEmpty
      <4>2. QED
        BY <4>1 DEF OpenedBuffer, Plain
    <3>2. QED
      BY <1>2, <2>2, <3>1, LenProperties, PlainOk
  <2>3. QED
    BY <2>1, <2>2
<1> HIDE DEF o
<1>4. Len(file) \in Nat /\ o.uidx \in Nat /\ o.ulen \in Nat /\ o.read \in Nat
  BY <1>2, <1>3, LenProperties DEF OpenedOk
<1>5. Blank \in [0 .. 7 -> Byte]
  <2>1. 0 \in Byte
    BY ByteFacts
  <2>2. QED
    BY <2>1 DEF Blank
<1>6. /\ utf8 \in [0 .. 7 -> Byte]
      /\ \A i \in 0 .. 7 : i < Len(o.utf8) => utf8[i] = o.utf8[i + 1]
  BY <1>1, <1>3, <1>5, WrittenTyped DEF OpenedOk
<1>7. Typed
  <2>1. delivered \in Seq(Int)
    BY <1>1, EmptySeq
  <2>2. rest \in Seq(Byte)
    BY <1>1, <1>2, <1>4, RestTyped
  <2>3. uidx \in Nat /\ ulen \in Nat /\ length \in Nat /\ length <= 8
    BY <1>1, <1>3, <1>4 DEF OpenedOk
  <2>4. QED
    BY <1>2, <1>6, <2>1, <2>2, <2>3 DEF Typed
<1>8. CallOk
  BY <1>1, AskAssumption DEF CallOk, Idle
<1>9. CarryInside
  BY <1>1, <1>3 DEF CarryInside, OpenedOk
<1>10. Len(delivered) = 0
  BY <1>1, EmptySeq
<1>11. OnlyBytes
  BY <1>10 DEF OnlyBytes
<1>12. Passed
  <2>1. SUFFICES ASSUME Passing
                 PROVE  /\ uidx = 0
                        /\ Behind(encoding) + ulen + Len(rest) = Len(file)
                        /\ \A i \in 1 .. ulen :
                             utf8[i - 1] = file[Behind(encoding) + i]
                        /\ \A i \in 1 .. Len(rest) :
                             rest[i] = file[Behind(encoding) + ulen + i]
    <3>1. Behind(encoding) \in Nat
      BY DEF Behind
    <3>2. ulen \in Nat /\ Len(rest) \in Nat
      BY <1>7, LenProperties DEF Typed
    <3>3. call.pc # "ended"
      BY <1>1 DEF Idle
    <3>4. surplus = {} /\ uidx + ulen = length
      BY <1>1
    <3> DEFINE b == Behind(encoding)
               n == Len(rest)
               d == Len(delivered)
    <3> HIDE DEF b, n, d
    <3>5. b \in Nat /\ n \in Nat /\ d = 0
      BY <1>10, <3>1, <3>2 DEF b, n, d
    <3>6. b + d + ulen + n = b + ulen + n
      BY <3>2, <3>5
    <3>7. \A i \in 1 .. ulen : uidx = 0 => uidx + i - 1 = i - 1 /\ b + d + i = b + i
      BY <3>2, <3>5
    <3>8. \A i \in 1 .. n : b + d + ulen + i = b + ulen + i
      BY <3>2, <3>5
    <3>9. \A i \in 1 .. d : FALSE
      BY <3>5
    <3>10. SUFFICES ASSUME Passing,
                           /\ uidx = 0
                           /\ b + ulen + n = Len(file)
                           /\ \A i \in 1 .. ulen : utf8[i - 1] = file[b + i]
                           /\ \A i \in 1 .. n : rest[i] = file[b + ulen + i]
                    PROVE  /\ b + d + ulen + n = Len(file)
                           /\ \A i \in 1 .. d : delivered[i] = file[b + i]
                           /\ \A i \in 1 .. ulen :
                                utf8[uidx + i - 1] = file[b + d + i]
                           /\ \A i \in 1 .. n : rest[i] = file[b + d + ulen + i]
      BY <3>3, <3>4 DEF Passed, b, n, d
    <3>11. QED
      BY <3>6, <3>7, <3>8, <3>9, <3>10
  <2>2. /\ o.uidx = 0 /\ Len(o.utf8) = o.ulen
        /\ o.read = Behind(o.encoding) + o.ulen /\ o.read <= Len(file)
        /\ \A i \in 1 .. o.ulen : o.utf8[i] = file[Behind(o.encoding) + i]
    BY <1>1, <1>3, <2>1 DEF Passing, Bytes, OpenedOk
  <2>3. Behind(encoding) + ulen + Len(rest) = Len(file)
    <3>1. Len(rest) = Len(file) - o.read
      BY <1>1, <1>2, <1>4, <2>2, RestTyped
    <3>2. o.read = Behind(encoding) + ulen /\ Behind(encoding) \in Nat
      BY <1>1, <2>2 DEF Behind
    <3>3. ulen \in Nat /\ Len(rest) \in Nat /\ o.read \in Nat
      BY <1>4, <1>7, LenProperties DEF Typed
    <3>4. \A b, u, n, m \in Nat : n = m - (b + u) => b + u + n = m
      OBVIOUS
    <3>5. Len(rest) = Len(file) - (Behind(encoding) + ulen)
      BY <3>1, <3>2
    <3>6. Len(file) \in Nat
      BY <1>4
    <3>7. Behind(encoding) \in Nat /\ ulen \in Nat /\ Len(rest) \in Nat
      BY <3>2, <3>3
    <3>8. QED
      BY <3>4, <3>5, <3>6, <3>7
  <2>4. ASSUME NEW i \in 1 .. ulen PROVE utf8[i - 1] = file[Behind(encoding) + i]
    <3>1. i - 1 \in 0 .. 7 /\ i - 1 < Len(o.utf8) /\ (i - 1) + 1 = i
      BY <1>1, <1>3, <1>4, <2>2, <2>4 DEF OpenedOk
    <3>2. QED
      BY <1>1, <1>6, <2>2, <3>1
  <2>5. ASSUME NEW i \in 1 .. Len(rest)
        PROVE  rest[i] = file[Behind(encoding) + ulen + i]
    <3>1. Len(rest) = Len(file) - o.read
      BY <1>1, <1>2, <1>4, <2>2, RestTyped
    <3>2. rest[i] = file[o.read + i]
      BY <1>1, <1>2, <1>4, <2>5, <3>1, RestTyped
    <3>3. QED
      BY <1>1, <2>2, <3>2
  <2>6. QED
    BY <1>1, <2>2, <2>3, <2>4, <2>5
<1>13. QED
  BY <1>7, <1>8, <1>9, <1>11, <1>12 DEF Inv

LEMMA AskInv ==
  ASSUME Inv, NEW n \in 1 .. MaxAsk, Ask(n)
  PROVE  Inv'
<1> DEFINE k == Least(n, ulen)
           taken == [i \in 1 .. k |-> Carried(uidx + i - 1)]
           d == Len(delivered)
<1>1. Typed /\ CallOk /\ CarryInside /\ OnlyBytes /\ Passed
  BY DEF Inv
<1>2. /\ file \in Seq(Byte) /\ rest \in Seq(Byte) /\ delivered \in Seq(Int)
      /\ utf8 \in [0 .. 7 -> Byte]
      /\ uidx \in Nat /\ ulen \in Nat /\ length \in Nat /\ length <= 8
  BY <1>1 DEF Typed
<1>3. d \in Nat /\ n \in Nat /\ n > 0 /\ n <= MaxAsk
  BY <1>2, LenProperties, AskAssumption
<1>4. k \in Nat /\ k <= n /\ k <= ulen /\ (k # n => k = ulen)
  BY <1>2, <1>3 DEF Least
<1>5. /\ call.pc = "idle"
      /\ delivered' = delivered \o taken
      /\ surplus' = surplus \cup {d + i : i \in {j \in 1 .. k : uidx + j > length}}
      /\ uidx' = uidx + k
      /\ k = n => ulen' = ulen - k /\ call' = call
      /\ k # n => ulen' = 0 /\ call' = [pc |-> "reading", want |-> n - k, got |-> k]
      /\ rest' = rest /\ file' = file /\ encoding' = encoding /\ utf8' = utf8
      /\ length' = length
  BY DEF Ask
<1>6. \A i \in 1 .. k : /\ Carried(uidx + i - 1) \in Int
                        /\ uidx + i <= 8 => /\ uidx + i - 1 \in 0 .. 7
                                            /\ Carried(uidx + i - 1) = utf8[uidx + i - 1]
                                            /\ utf8[uidx + i - 1] \in Byte
  <2>1. SUFFICES ASSUME NEW i \in 1 .. k
                 PROVE  /\ Carried(uidx + i - 1) \in Int
                        /\ uidx + i <= 8 => /\ uidx + i - 1 \in 0 .. 7
                                            /\ Carried(uidx + i - 1) = utf8[uidx + i - 1]
                                            /\ utf8[uidx + i - 1] \in Byte
    OBVIOUS
  <2> DEFINE at == uidx + i - 1
  <2>2. at \in Int /\ at >= 0 /\ (uidx + i <= 8 <=> at <= 7)
    BY <1>2, <1>4
  <2> HIDE DEF at
  <2>3. CASE at <= 7
    <3>1. at \in 0 .. 7 /\ Carried(at) = utf8[at]
      BY <2>2, <2>3 DEF Carried
    <3>2. utf8[at] \in Byte
      BY <1>2, <3>1
    <3>3. utf8[at] \in Int
      BY <3>2, ByteFacts
    <3>4. QED
      BY <3>1, <3>2, <3>3 DEF at
  <2>4. CASE ~(at <= 7)
    BY <2>2, <2>4 DEF Carried, at
  <2>5. QED
    BY <2>3, <2>4
<1>7. taken \in Seq(Int) /\ Len(taken) = k
      /\ \A i \in 1 .. k : taken[i] = Carried(uidx + i - 1)
  BY <1>4, <1>6
<1> HIDE DEF k, taken, d
<1>8. /\ delivered' \in Seq(Int)
      /\ Len(delivered') = d + k
      /\ \A i \in 1 .. d + k :
           delivered'[i] = IF i <= d THEN delivered[i] ELSE taken[i - d]
  BY <1>2, <1>5, <1>7, ConcatProperties DEF d
<1>9. uidx' \in Nat /\ ulen' \in Nat /\ uidx' + ulen' = uidx + ulen
  <2>1. uidx \in Nat /\ ulen \in Nat
    BY <1>2
  <2>2. CASE k = n
    BY <1>4, <1>5, <2>1, <2>2
  <2>3. CASE k # n
    BY <1>4, <1>5, <2>1, <2>3
  <2>4. QED
    BY <2>2, <2>3
<1>10. Typed'
  BY <1>2, <1>5, <1>8, <1>9 DEF Typed
<1>11. CallOk'
  <2>1. CASE k = n
    BY <1>1, <1>5, <2>1 DEF CallOk
  <2>2. CASE k # n
    <3>1. n - k \in Nat /\ (n - k) + k <= MaxAsk /\ n - k > 0
      BY <1>3, <1>4, <2>2, AskAssumption
    <3>2. QED
      BY <1>4, <1>5, <2>2, <3>1 DEF CallOk
  <2>3. QED
    BY <2>1, <2>2
<1>12. CarryInside'
  <2>1. ulen' > 0 => ulen > 0
    BY <1>2, <1>4, <1>5
  <2>2. QED
    BY <1>1, <1>5, <1>9, <2>1 DEF CarryInside
<1>13. OnlyBytes'
  <2>1. SUFFICES ASSUME NEW i \in 1 .. d + k, i \notin surplus'
                 PROVE  delivered'[i] \in Byte
    BY <1>8 DEF OnlyBytes, Byte
  <2>2. CASE i <= d
    <3>1. i \in 1 .. d /\ i \notin surplus
      BY <1>3, <1>4, <1>5, <2>1, <2>2
    <3>2. QED
      BY <1>1, <1>8, <2>2, <3>1 DEF OnlyBytes, Byte, d
  <2>3. CASE ~(i <= d)
    <3> DEFINE j == i - d
    <3>1. j \in 1 .. k /\ i = d + j /\ delivered'[i] = taken[j]
      BY <1>3, <1>4, <1>8, <2>3
    <3> HIDE DEF j
    <3>2. ~(uidx + j > length)
      BY <1>5, <2>1, <3>1
    <3>3. uidx + j <= 8
      BY <1>2, <1>4, <3>1, <3>2
    <3>4. QED
      BY <1>6, <1>7, <3>1, <3>3
  <2>4. QED
    BY <2>2, <2>3
<1>14. Passed'
  <2> DEFINE b == Behind(encoding)
             m == Len(rest)
  <2>1. SUFFICES ASSUME Passing
                 PROVE  /\ surplus' = {} /\ uidx' + ulen' = length'
                        /\ b + Len(delivered') + ulen' + m = Len(file)
                        /\ \A i \in 1 .. Len(delivered') : delivered'[i] = file[b + i]
                        /\ \A i \in 1 .. ulen' :
                             utf8[uidx' + i - 1] = file[b + Len(delivered') + i]
                        /\ \A i \in 1 .. m :
                             rest[i] = file[b + Len(delivered') + ulen' + i]
                        /\ call'.pc # "ended"
    BY <1>5 DEF Passed, Passing, Bytes
  <2>2. /\ surplus = {} /\ uidx + ulen = length
        /\ b + d + ulen + m = Len(file)
        /\ \A i \in 1 .. d : delivered[i] = file[b + i]
        /\ \A i \in 1 .. ulen : utf8[uidx + i - 1] = file[b + d + i]
        /\ \A i \in 1 .. m : rest[i] = file[b + d + ulen + i]
    BY <1>1, <2>1 DEF Passed, d
  <2>3. b \in Nat /\ m \in Nat
    BY <1>2, LenProperties DEF Behind
  <2> HIDE DEF b, m
  <2>4. call'.pc # "ended"
    BY <1>5
  <2>5. surplus' = {} /\ uidx' + ulen' = length'
    <3>1. \A j \in 1 .. k : ~(uidx + j > length)
      BY <1>2, <1>4, <2>2
    <3>2. QED
      BY <1>5, <1>9, <2>2, <3>1
  <2>6. ASSUME NEW i \in 1 .. d + k PROVE delivered'[i] = file[b + i]
    <3>1. CASE i <= d
      <4>1. i \in 1 .. d
        BY <1>3, <1>4, <3>1
      <4>2. QED
        BY <1>8, <2>2, <3>1, <4>1
    <3>2. CASE ~(i <= d)
      <4> DEFINE j == i - d
      <4>1. /\ j \in 1 .. k /\ i = d + j /\ delivered'[i] = taken[j]
            /\ j \in 1 .. ulen
        <5>1. j \in 1 .. k /\ i = d + j
          BY <1>3, <1>4, <3>2
        <5>2. delivered'[i] = taken[j]
          BY <1>8, <3>2
        <5>3. \A x \in 1 .. k : x \in 1 .. ulen
          BY <1>2, <1>4
        <5>4. QED
          BY <5>1, <5>2, <5>3
      <4> HIDE DEF j
      <4>2. uidx + j <= 8 /\ b + d + j = b + i
        <5>1. uidx \in Nat /\ ulen \in Nat /\ uidx + ulen <= 8
          BY <1>2, <2>2
        <5>2. uidx + j <= 8
          BY <4>1, <5>1
        <5>3. b + d + j = b + (d + j)
          BY <1>3, <2>3, <4>1
        <5>4. QED
          BY <4>1, <5>2, <5>3
      <4>3. QED
        BY <1>6, <1>7, <2>2, <4>1, <4>2
    <3>3. QED
      BY <3>1, <3>2
  <2>7. ulen' \in Nat /\ b + (d + k) + ulen' = b + d + ulen
    BY <1>2, <1>3, <1>4, <1>5, <2>3
  <2>8. ASSUME NEW i \in 1 .. ulen'
        PROVE  utf8[uidx' + i - 1] = file[b + (d + k) + i]
    <3>1. k + i \in 1 .. ulen /\ uidx' + i - 1 = uidx + (k + i) - 1
      BY <1>2, <1>4, <1>5, <2>8
    <3>2. b + (d + k) + i = b + d + (k + i)
      BY <1>3, <1>4, <2>3, <2>7
    <3>3. QED
      BY <2>2, <3>1, <3>2
  <2>9. QED
    BY <1>8, <2>2, <2>4, <2>5, <2>6, <2>7, <2>8
<1>15. QED
  BY <1>10, <1>11, <1>12, <1>13, <1>14 DEF Inv

LEMMA ReadInv ==
  ASSUME Inv, Read
  PROVE  Inv'
<1> DEFINE k == Least(call.want, Len(rest))
           m == Len(rest)
           d == Len(delivered)
<1>1. Typed /\ CallOk /\ CarryInside /\ OnlyBytes /\ Passed
  BY DEF Inv
<1>2. /\ file \in Seq(Byte) /\ rest \in Seq(Byte) /\ delivered \in Seq(Int)
      /\ uidx \in Nat /\ ulen \in Nat /\ length \in Nat /\ length <= 8
  BY <1>1 DEF Typed
<1>3. /\ call \in [pc : {"idle", "reading", "ended"}, want : Nat, got : Nat]
      /\ call.want + call.got <= MaxAsk /\ call.want > 0 /\ ulen = 0
  BY <1>1 DEF CallOk, Read
<1>4. m \in Nat /\ d \in Nat /\ call.want \in Nat /\ call.got \in Nat
  BY <1>2, <1>3, LenProperties
<1>5. k \in Nat /\ k <= m /\ (k = 0 => m = 0)
  BY <1>3, <1>4 DEF Least
<1>6. /\ call.pc = "reading" /\ Bytes
      /\ delivered' = delivered \o SubSeq(rest, 1, k)
      /\ rest' = SubSeq(rest, k + 1, Len(rest))
      /\ call' = IF call.got + k > 0 THEN Idle ELSE [Idle EXCEPT !.pc = "ended"]
      /\ file' = file /\ encoding' = encoding /\ utf8' = utf8 /\ uidx' = uidx
      /\ ulen' = ulen /\ length' = length /\ surplus' = surplus
  BY DEF Read, Return
<1>7. /\ SubSeq(rest, 1, k) \in Seq(Byte) /\ Len(SubSeq(rest, 1, k)) = k
      /\ \A i \in 1 .. k : SubSeq(rest, 1, k)[i] = rest[i]
  <2>1. \A i \in 1 .. k : rest[i] \in Byte
    BY <1>2, <1>4, <1>5, ElementOfSeq
  <2>2. \A i \in 1 .. k - 1 + 1 : SubSeq(rest, 1, k)[i] = rest[1 + i - 1]
    BY <1>5, <2>1, SubSeqProperties
  <2>3. SubSeq(rest, 1, k) \in Seq(Byte)
        /\ Len(SubSeq(rest, 1, k)) = IF 1 <= k THEN k - 1 + 1 ELSE 0
    BY <1>5, <2>1, SubSeqProperties
  <2>4. QED
    BY <1>5, <2>2, <2>3
<1> HIDE DEF k, m, d
<1>8. SubSeq(rest, 1, k) \in Seq(Int)
  <2>1. \A n \in Byte : n \in Int
    BY ByteFacts
  <2>2. QED
    BY <1>7, <2>1
<1>9. /\ delivered' \in Seq(Int) /\ Len(delivered') = d + k
      /\ \A i \in 1 .. d + k :
           delivered'[i] = IF i <= d THEN delivered[i] ELSE rest[i - d]
  <2>1. /\ delivered' \in Seq(Int) /\ Len(delivered') = d + k
        /\ \A i \in 1 .. d + k : delivered'[i] =
             IF i <= d THEN delivered[i] ELSE SubSeq(rest, 1, k)[i - d]
    BY <1>2, <1>6, <1>7, <1>8, ConcatProperties DEF d
  <2>2. \A i \in 1 .. d + k : ~(i <= d) => i - d \in 1 .. k
    BY <1>4, <1>5
  <2>3. QED
    BY <1>7, <2>1, <2>2
<1>10. /\ rest' \in Seq(Byte) /\ Len(rest') = m - k
       /\ \A i \in 1 .. m - k : rest'[i] = rest[k + i]
  BY <1>2, <1>5, <1>6, RestTyped DEF m
<1>11. Typed'
  BY <1>1, <1>6, <1>9, <1>10 DEF Typed
<1>12. CallOk'
  <2>1. call' = [pc |-> "idle", want |-> 0, got |-> 0]
        \/ call' = [pc |-> "ended", want |-> 0, got |-> 0]
    BY <1>6 DEF Idle
  <2>2. QED
    BY <2>1, AskAssumption DEF CallOk
<1>13. CarryInside'
  BY <1>3, <1>6 DEF CarryInside
<1>14. OnlyBytes'
  <2>1. SUFFICES ASSUME NEW i \in 1 .. d + k, i \notin surplus
                 PROVE  delivered'[i] \in Byte
    BY <1>6, <1>9 DEF OnlyBytes, Byte
  <2>2. CASE i <= d
    <3>1. i \in 1 .. d
      BY <1>4, <1>5, <2>2
    <3>2. QED
      BY <1>1, <1>9, <2>1, <2>2, <3>1 DEF OnlyBytes, Byte, d
  <2>3. CASE ~(i <= d)
    <3>1. i - d \in 1 .. m
      BY <1>4, <1>5, <2>3
    <3>2. QED
      BY <1>2, <1>9, <2>3, <3>1, ElementOfSeq DEF m
  <2>4. QED
    BY <2>2, <2>3
<1>15. Passed'
  <2> DEFINE b == Behind(encoding)
  <2>1. SUFFICES ASSUME Passing
                 PROVE  /\ surplus = {} /\ uidx + ulen = length
                        /\ b + (d + k) + ulen + (m - k) = Len(file)
                        /\ \A i \in 1 .. d + k : delivered'[i] = file[b + i]
                        /\ \A i \in 1 .. m - k :
                             rest'[i] = file[b + (d + k) + ulen + i]
                        /\ call'.pc = "ended" => m - k = 0
    <3>1. Passing' <=> Passing
      BY <1>6 DEF Passing, Bytes
    <3>2. Behind(encoding)' = b
      BY <1>6
    <3> HIDE DEF b
    <3>3. /\ Len(delivered)' = d + k /\ Len(rest)' = m - k /\ ulen' = ulen
          /\ surplus' = surplus /\ uidx' = uidx /\ length' = length
          /\ utf8' = utf8 /\ file' = file
      BY <1>6, <1>9, <1>10
    <3>4. ulen' = 0 /\ \A i \in 1 .. ulen' : FALSE
      BY <1>3, <1>6
    <3>5. QED
      BY <3>1, <3>2, <3>3, <3>4 DEF Passed
  <2>2. /\ surplus = {} /\ uidx + ulen = length
        /\ b + d + ulen + m = Len(file)
        /\ \A i \in 1 .. d : delivered[i] = file[b + i]
        /\ \A i \in 1 .. m : rest[i] = file[b + d + ulen + i]
    BY <1>1, <2>1 DEF Passed, d, m
  <2>3. b \in Nat
    BY DEF Behind
  <2> HIDE DEF b
  <2>4. b + (d + k) + ulen + (m - k) = b + d + ulen + m
    BY <1>2, <1>4, <1>5, <2>3
  <2>5. ASSUME NEW i \in 1 .. d + k PROVE delivered'[i] = file[b + i]
    <3>1. CASE i <= d
      <4>1. i \in 1 .. d
        BY <1>4, <1>5, <3>1
      <4>2. QED
        BY <1>9, <2>2, <3>1, <4>1
    <3>2. CASE ~(i <= d)
      <4>1. i - d \in 1 .. m /\ b + d + ulen + (i - d) = b + i
        BY <1>3, <1>4, <1>5, <2>3, <3>2
      <4>2. QED
        BY <1>9, <2>2, <3>2, <4>1
    <3>3. QED
      BY <3>1, <3>2
  <2>6. ASSUME NEW i \in 1 .. m - k
        PROVE  rest'[i] = file[b + (d + k) + ulen + i]
    <3>1. k + i \in 1 .. m /\ b + (d + k) + ulen + i = b + d + ulen + (k + i)
      BY <1>2, <1>4, <1>5, <2>3, <2>6
    <3>2. QED
      BY <1>10, <2>2, <2>6, <3>1
  <2>7. call'.pc = "ended" => m - k = 0
    <3>1. call'.pc = "ended" => ~(call.got + k > 0)
      BY <1>6 DEF Idle
    <3>2. QED
      BY <1>4, <1>5, <3>1
  <2>8. QED
    BY <2>2, <2>4, <2>5, <2>6, <2>7
<1>16. QED
  BY <1>11, <1>12, <1>13, <1>14, <1>15 DEF Inv

LEMMA DecodeInv ==
  ASSUME Inv, Decode
  PROVE  Inv'
<1> DEFINE c == Character(encoding, rest)
           s == Utf8(c.code)
           k == Least(call.want, Len(s))
           d == Len(delivered)
<1>1. Typed /\ CallOk /\ CarryInside /\ OnlyBytes /\ Passed
  BY DEF Inv
<1>2. /\ file \in Seq(Byte) /\ rest \in Seq(Byte) /\ delivered \in Seq(Int)
      /\ utf8 \in [0 .. 7 -> Byte]
      /\ uidx \in Nat /\ ulen \in Nat /\ length \in Nat /\ length <= 8
  BY <1>1 DEF Typed
<1>3. /\ call \in [pc : {"idle", "reading", "ended"}, want : Nat, got : Nat]
      /\ call.pc = "reading" /\ call.want + call.got <= MaxAsk
      /\ call.want > 0 /\ ulen = 0
  BY <1>1, <1>2 DEF CallOk, Decode
<1>4. d \in Nat /\ call.want \in Nat /\ call.got \in Nat
  BY <1>2, <1>3, LenProperties
<1>5. c.code \in Int /\ c.used \in Nat
  <2>1. Len(rest) >= Width(encoding)
    BY DEF Decode
  <2>2. QED
    BY <1>2, <2>1, CharacterTyped
<1>6. s \in Seq(Byte) /\ Len(s) \in Nat /\ Len(s) >= 1 /\ Len(s) <= 5
      /\ (c.code < 128 => Len(s) = 1)
  <2>1. \A n \in 1 .. 5 : n \in Nat /\ n >= 1 /\ n <= 5
    OBVIOUS
  <2>2. QED
    BY <1>5, <2>1, Utf8Facts
<1>7. ~Bytes /\ Bytes' = Bytes
  BY DEF Decode, Bytes
<1>8. /\ rest' = SubSeq(rest, c.used + 1, Len(rest))
      /\ delivered' = delivered \o SubSeq(s, 1, k)
      /\ call' = [call EXCEPT !.want = @ - k, !.got = @ + k]
      /\ c.code < 128 => utf8' = utf8 /\ length' = length
      /\ ~(c.code < 128) => utf8' = Written(utf8, s) /\ length' = Len(s)
      /\ k < Len(s) => uidx' = k /\ ulen' = Len(s)
      /\ ~(k < Len(s)) => uidx' = uidx /\ ulen' = ulen
      /\ file' = file /\ surplus' = surplus
  BY DEF Decode
<1>9. k \in Nat /\ k >= 1 /\ k <= call.want /\ k <= Len(s)
      /\ (k < Len(s) => k = call.want)
  BY <1>3, <1>4, <1>6 DEF Least
<1> HIDE DEF c, s, k, d
<1>10. /\ SubSeq(s, 1, k) \in Seq(Byte) /\ Len(SubSeq(s, 1, k)) = k
  BY <1>6, <1>9, SubSeqBytes
<1>11. SubSeq(s, 1, k) \in Seq(Int)
  <2>1. \A n \in Byte : n \in Int
    BY ByteFacts
  <2>2. QED
    BY <1>10, <2>1
<1>12. /\ delivered' \in Seq(Int) /\ Len(delivered') = d + k
       /\ \A i \in 1 .. d + k : delivered'[i] =
            IF i <= d THEN delivered[i] ELSE SubSeq(s, 1, k)[i - d]
  <2> DEFINE piece == SubSeq(s, 1, k)
  <2>1. piece \in Seq(Int) /\ Len(piece) = k /\ delivered' = delivered \o piece
    BY <1>8, <1>10, <1>11
  <2>2. delivered \in Seq(Int)
    BY <1>2
  <2> HIDE DEF piece
  <2>3. /\ delivered' \in Seq(Int) /\ Len(delivered') = d + k
        /\ \A i \in 1 .. d + k : delivered'[i] =
             IF i <= d THEN delivered[i] ELSE piece[i - d]
    BY <2>1, <2>2, ConcatProperties DEF d
  <2>4. QED
    BY <2>3 DEF piece
<1>13. Typed'
  <2>1. rest' \in Seq(Byte)
    BY <1>2, <1>5, <1>8, RestTyped
  <2>2. utf8' \in [0 .. 7 -> Byte]
    BY <1>2, <1>6, <1>8, WrittenTyped
  <2>3. length' \in Nat /\ length' <= 8
    <3>1. length' = length \/ length' = Len(s)
      BY <1>8
    <3>2. \A n \in Nat : n <= 5 => n <= 8
      OBVIOUS
    <3>3. QED
      BY <1>2, <1>6, <3>1, <3>2
  <2>4. uidx' \in Nat /\ ulen' \in Nat
    BY <1>2, <1>6, <1>8, <1>9
  <2>5. file' \in Seq(Byte)
    BY <1>2, <1>8
  <2>6. QED
    BY <1>12, <2>1, <2>2, <2>3, <2>4, <2>5 DEF Typed
<1>14. CallOk'
  <2>1. /\ call'.pc = call.pc /\ call'.want = call.want - k
        /\ call'.got = call.got + k
        /\ call' \in [pc : {"idle", "reading", "ended"}, want : Int, got : Int]
    <3>1. call = [pc |-> call.pc, want |-> call.want, got |-> call.got]
      BY <1>3
    <3>2. call' = [pc |-> call.pc, want |-> call.want - k, got |-> call.got + k]
      BY <1>8, <3>1
    <3>3. call.want - k \in Int /\ call.got + k \in Int
      BY <1>4, <1>9
    <3>4. QED
      BY <1>3, <3>2, <3>3
  <2>2. /\ call.want - k \in Nat /\ call.got + k \in Nat
        /\ (call.want - k) + (call.got + k) = call.want + call.got
        /\ (k < Len(s) => call.want - k = 0)
    BY <1>4, <1>6, <1>9
  <2>3. call' \in [pc : {"idle", "reading", "ended"}, want : Nat, got : Nat]
    BY <2>1, <2>2
  <2>4. ulen' = 0 \/ call'.want = 0
    BY <1>3, <1>8, <2>1, <2>2
  <2>5. QED
    BY <1>3, <1>7, <2>1, <2>2, <2>3, <2>4 DEF CallOk
<1>15. CarryInside'
  <2>1. CASE k < Len(s)
    <3>1. uidx' = k /\ ulen' = Len(s) /\ length' = Len(s)
      BY <1>6, <1>8, <1>9, <2>1
    <3>2. k + Len(s) <= 8 \/ (Len(s) = 5 /\ k + Len(s) = 9)
      <4>1. \A n, x \in Nat :
              n <= 5 /\ x < n => x + n <= 8 \/ (n = 5 /\ x + n = 9)
        OBVIOUS
      <4>2. QED
        BY <1>6, <1>9, <2>1, <4>1
    <3>3. QED
      BY <3>1, <3>2 DEF CarryInside
  <2>2. CASE ~(k < Len(s))
    BY <1>3, <1>8, <2>2 DEF CarryInside
  <2>3. QED
    BY <2>1, <2>2
<1>16. OnlyBytes'
  <2>1. SUFFICES ASSUME NEW i \in 1 .. d + k, i \notin surplus
                 PROVE  delivered'[i] \in Byte
    BY <1>8, <1>12 DEF OnlyBytes, Byte
  <2>2. CASE i <= d
    <3>1. i \in 1 .. d
      BY <1>4, <1>9, <2>2
    <3>2. QED
      BY <1>1, <1>12, <2>1, <2>2, <3>1 DEF OnlyBytes, Byte, d
  <2>3. CASE ~(i <= d)
    <3>1. i - d \in 1 .. k
      BY <1>4, <1>9, <2>3
    <3>2. QED
      BY <1>10, <1>12, <2>3, <3>1, ElementOfSeq
  <2>4. QED
    BY <2>2, <2>3
<1>17. Passed'
  BY <1>7 DEF Passed, Passing
<1>18. QED
  BY <1>13, <1>14, <1>15, <1>16, <1>17 DEF Inv

LEMMA StopInv ==
  ASSUME Inv, Stop
  PROVE  Inv'
<1>1. Typed /\ CallOk /\ CarryInside /\ OnlyBytes /\ Passed
  BY DEF Inv
<1>2. ~Bytes /\ Bytes' = Bytes
  BY DEF Stop, Bytes
<1>3. rest' \in Seq(Byte)
  <2>1. rest' = rest \/ rest' = <<>>
    BY DEF Stop
  <2>2. QED
    BY <1>1, <2>1, EmptySeq DEF Typed
<1>4. /\ file' = file /\ utf8' = utf8 /\ uidx' = uidx /\ ulen' = ulen
      /\ length' = length /\ delivered' = delivered /\ surplus' = surplus
  BY DEF Stop
<1>5. Typed'
  BY <1>1, <1>3, <1>4 DEF Typed
<1>6. CallOk'
  <2>1. call' = [pc |-> "idle", want |-> 0, got |-> 0]
        \/ call' = [pc |-> "ended", want |-> 0, got |-> 0]
    BY DEF Stop, Return, Idle
  <2>2. QED
    BY <2>1, AskAssumption DEF CallOk
<1>7. CarryInside' /\ OnlyBytes'
  BY <1>1, <1>4 DEF CarryInside, OnlyBytes
<1>8. Passed'
  BY <1>2 DEF Passed, Passing
<1>9. QED
  BY <1>5, <1>6, <1>7, <1>8 DEF Inv

LEMMA SameInv == ASSUME Inv, UNCHANGED vars PROVE Inv'
BY DEF Inv, vars, Typed, CallOk, CarryInside, OnlyBytes, Passed, Passing, Bytes

LEMMA InvHolds == Spec => []Inv
<1>1. Inv /\ [Next]_vars => Inv'
  BY AskInv, ReadInv, DecodeInv, StopInv, SameInv DEF Next, Done
<1>2. QED
  BY InitInv, <1>1, PTL DEF Spec

-----------------------------------------------------------------------------
(***************************************************************************)
(* The theorems.                                                           *)
(***************************************************************************)

\* What is carried is inside utf8_ after every sequence of requests and for
\* every file, but for the replacement of an invalid character that was cut in
\* front of its last byte (input_file_get, the carry of a cut character).
THEOREM CarryStaysInside == Spec => []CarryInside
<1>1. Inv => CarryInside
  BY DEF Inv
<1>2. QED
  BY InvHolds, <1>1, PTL

\* What input_get puts into an answer without counting it as surplus is a
\* byte of the file or of a character: it never reads behind utf8_ for it; and
\* an answer is never longer than the request.
AnswersFit == OnlyBytes /\ call.got + call.want <= MaxAsk

THEOREM AnswersAreBytes == Spec => []AnswersFit
<1>1. Inv => AnswersFit
  BY DEF Inv, CallOk, AnswersFit
<1>2. QED
  BY InvHolds, <1>1, PTL

\* A file without a mark, one behind the mark of UTF-8, and a text in memory
\* are passed on byte by byte (input_file_get, input_buffer_get): what has been
\* delivered is the begin of the text, nothing else is put in between, and
\* when an answer is empty it is all of it.  The files that begin like a mark
\* of four and have three bytes are left out.
Text == SubSeq(file, Behind(encoding) + 1, Len(file))

BytesPassedOn ==
  Passing => /\ surplus = {}
             /\ Len(delivered) <= Len(Text)
             /\ \A i \in 1 .. Len(delivered) : delivered[i] = Text[i]
             /\ call.pc = "ended" => delivered = Text

LEMMA InvImpliesPassedOn == ASSUME Inv PROVE BytesPassedOn
<1> DEFINE b == Behind(encoding)
           d == Len(delivered)
           m == Len(rest)
<1>1. SUFFICES ASSUME Passing
               PROVE  /\ surplus = {}
                      /\ d <= Len(Text)
                      /\ \A i \in 1 .. d : delivered[i] = Text[i]
                      /\ call.pc = "ended" => delivered = Text
  BY DEF BytesPassedOn
<1>2. /\ surplus = {} /\ b + d + ulen + m = Len(file)
      /\ \A i \in 1 .. d : delivered[i] = file[b + i]
      /\ call.pc = "ended" => ulen = 0 /\ m = 0
  BY <1>1 DEF Inv, Passed
<1>3. /\ file \in Seq(Byte) /\ rest \in Seq(Byte) /\ delivered \in Seq(Int)
      /\ ulen \in Nat
  BY DEF Inv, Typed
<1>4. b \in Nat /\ d \in Nat /\ m \in Nat /\ Len(file) \in Nat
  BY <1>3, LenProperties DEF Behind
<1>5. /\ Text \in Seq(Byte)
      /\ b <= Len(file) => Len(Text) = Len(file) - b
      /\ \A i \in 1 .. Len(file) - b : Text[i] = file[b + i]
  BY <1>3, <1>4, RestTyped DEF Text
<1> DEFINE t == Len(Text)
           n == Len(file)
<1>6. /\ n \in Nat /\ b + d + ulen + m = n /\ (b <= n => t = n - b)
  BY <1>2, <1>4, <1>5
<1>7. /\ \A i \in 1 .. n - b : Text[i] = file[b + i]
      /\ \A i \in 1 .. d : delivered[i] = file[b + i]
  BY <1>2, <1>5
<1>8. DOMAIN delivered = 1 .. d /\ DOMAIN Text = 1 .. t
      /\ delivered = [i \in 1 .. d |-> delivered[i]]
      /\ Text = [i \in 1 .. t |-> Text[i]]
  BY <1>3, <1>5, LenProperties
<1> HIDE DEF b, d, m, t, n
<1>9. t = n - b /\ d <= t /\ \A i \in 1 .. d : i \in 1 .. n - b
  BY <1>3, <1>4, <1>6
<1>10. \A i \in 1 .. d : delivered[i] = Text[i]
  BY <1>7, <1>9
<1>11. call.pc = "ended" => delivered = Text
  <2>1. SUFFICES ASSUME ulen = 0, m = 0 PROVE delivered = Text
    BY <1>2
  <2>2. d = t
    BY <1>4, <1>6, <1>9, <2>1
  <2>3. QED
    BY <1>8, <1>10, <2>2
<1>12. QED
  BY <1>2, <1>9, <1>10, <1>11 DEF d, t

THEOREM TextIsPassedOn == Spec => []BytesPassedOn
BY InvHolds, InvImpliesPassedOn, PTL
=============================================================================
