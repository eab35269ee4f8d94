----------------------------- MODULE FileInput -----------------------------
(***************************************************************************)
(* The inputs of a lexer (src/src/lexer/input.c): a file whose encoding is *)
(* found by its byte order mark and which is delivered in UTF-8, or a text *)
(* in memory.  A caller asks for up to n bytes; one character is decoded   *)
(* per step.  What does not fit into the answer stays in utf8_, from       *)
(* uidx_ on, for the next call.                                            *)
(*                                                                         *)
(* Bytes are numbers.  The encoding parameter of the constructor is        *)
(* ignored by the code, so the encodings without a mark (latin, the code   *)
(* pages) are never entered.  size_ is written and never read.             *)
(***************************************************************************)
EXTENDS Integers, Sequences, SequencesExt

CONSTANTS Files,      \* what the source can contain, sequences of bytes
          MaxAsk      \* bound: how many bytes are asked for at most

ASSUME FilesAssumption == \A f \in Files : f \in Seq(0..255)
ASSUME AskAssumption   == MaxAsk \in Nat

Nonchar == 2097152    \* REFLEX_NONCHAR, U+200000

VARIABLES source,     \* what is read, "file" or "buffer"
          file,       \* its contents
          rest,       \* what fread or cstring_ is in front of
          encoding,   \* encoding_
          utf8,       \* utf8_, eight bytes
          uidx, ulen, \* where the carried bytes begin, how many they are
          length,     \* the length of the character in utf8_
          delivered,  \* everything delivered so far
          surplus,    \* the positions in it that are not of a character
          call        \* the running call: bytes wanted and got

vars == <<source, file, rest, encoding, utf8, uidx, ulen, length, delivered,
          surplus, call>>

Idle  == [pc |-> "idle", want |-> 0, got |-> 0]
Least(a, b) == IF a < b THEN a ELSE b

-----------------------------------------------------------------------------
(* Characters.                                                             *)

\* The function utf8: a character of UCS-4, taken as a signed integer.
Utf8(c) ==
    CASE c < 128                -> <<c % 256>>
      [] c > 1114111            -> <<248, 136, 128, 128, 128>>
      [] 128 <= c /\ c < 2048   -> <<192 + c \div 64, 128 + (c % 64)>>
      [] 2048 <= c /\ c < 65536 ->
           <<224 + c \div 4096, 128 + ((c \div 64) % 64), 128 + (c % 64)>>
      [] OTHER ->
           <<240 + c \div 262144, 128 + ((c \div 4096) % 64),
             128 + ((c \div 64) % 64), 128 + (c % 64)>>

\* The number of a unit; the highest byte of four has the sign.
Number(e, b) ==
    LET big == IF e \in {"utf16be", "utf32be"} THEN b ELSE Reverse(b)
        top == IF big[1] > 127 THEN big[1] - 256 ELSE big[1]
    IN  IF Len(b) = 2 THEN 256 * big[1] + big[2]
        ELSE 256 * (256 * (256 * top + big[2]) + big[3]) + big[4]

Width(e) == IF e \in {"utf16be", "utf16le"} THEN 2 ELSE 4

\* The two ranges of surrogates.
High(c) == 55296 <= c /\ c < 56320
Low(c)  == 56320 <= c /\ c < 57344

\* The character at the begin of b, and how many bytes have been read for it:
\* a high surrogate takes another unit, a low one or not.
Character(e, b) ==
    LET c    == Number(e, SubSeq(b, 1, Width(e)))
        low  == Number(e, SubSeq(b, 3, 4))
        pair == Len(b) >= 4 /\ Low(low)
    IN  IF Width(e) = 4 THEN [code |-> c, used |-> 4] ELSE
        CASE High(c) /\ pair ->
               [code |-> 65536 + (c - 55296) * 1024 + low - 56320, used |-> 4]
          [] High(c) /\ ~pair -> [code |-> Nonchar, used |-> Least(4, Len(b))]
          [] Low(c)           -> [code |-> Nonchar, used |-> 2]
          [] OTHER            -> [code |-> c, used |-> 2]

\* utf8_ after the bytes of a sequence have been written to its begin.
Written(old, s) == [i \in 0..7 |-> IF i < Len(s) THEN s[i + 1] ELSE old[i]]
Blank == [i \in 0..7 |-> 0]

-----------------------------------------------------------------------------
(* input_file_init: bytes are read as long as they look like a mark; those *)
(* that are none are carried.                                              *)

Plain(f, n, read) ==
    [encoding |-> "plain", utf8 |-> SubSeq(f, 1, n), uidx |-> 0, ulen |-> n,
     read |-> read]

Marked(e, n) ==
    [encoding |-> e, utf8 |-> <<>>, uidx |-> 0, ulen |-> 0, read |-> n]

\* Behind the mark FFFE the first character has been read with the mark.
MarkedLittle(f) ==
    LET wide == SubSeq(f, 3, 4) = <<0, 0>>
        c    == Character("utf16le", SubSeq(f, 3, Len(f)))
        s    == Utf8(c.code)
    IN  CASE wide -> Marked("utf32le", 4)
          [] ~wide /\ c.code \in 1..127 ->
               [encoding |-> "utf16le", utf8 |-> SubSeq(f, 1, 4), uidx |-> 2,
                ulen |-> 1, read |-> 4]
          [] OTHER ->
               [encoding |-> "utf16le", utf8 |-> s \o SubSeq(f, Len(s) + 1, 4),
                uidx |-> 0, ulen |-> Len(s), read |-> 2 + c.used]

Opened(f) ==
    LET first == IF f = <<>> THEN -1 ELSE f[1]
        mark  == SubSeq(f, 1, 2)
    IN  CASE first \notin {0, 239, 254, 255} \/ Len(f) = 1 ->
               Plain(f, Least(1, Len(f)), Least(1, Len(f)))
          [] first \in {0, 239, 254, 255} /\ Len(f) > 1 ->
               CASE mark = <<0, 0>> /\ Len(f) < 4 -> Plain(f, 2, Len(f))
                 [] mark = <<0, 0>> /\ Len(f) >= 4 ->
                      IF SubSeq(f, 3, 4) = <<254, 255>>
                      THEN Marked("utf32be", 4) ELSE Plain(f, 4, 4)
                 [] mark = <<254, 255>> -> Marked("utf16be", 2)
                 [] mark = <<255, 254>> ->
                      IF Len(f) < 4 THEN Plain(f, 2, Len(f))
                      ELSE MarkedLittle(f)
                 [] mark = <<239, 187>> /\ Len(f) > 2 ->
                      IF f[3] = 191 THEN Marked("utf8", 3) ELSE Plain(f, 3, 3)
                 [] OTHER -> Plain(f, 2, 2)

OpenedBuffer ==
    [encoding |-> "plain", utf8 |-> <<>>, uidx |-> 0, ulen |-> 0, read |-> 0]

Init ==
    /\ file \in Files
    /\ source \in {"file", "buffer"}
    /\ LET o == IF source = "file" THEN Opened(file) ELSE OpenedBuffer
       IN  /\ encoding = o.encoding
           /\ utf8 = Written(Blank, o.utf8)
           /\ uidx = o.uidx /\ ulen = o.ulen /\ length = o.uidx + o.ulen
           /\ rest = SubSeq(file, o.read + 1, Len(file))
    /\ delivered = <<>> /\ surplus = {}
    /\ call = Idle

-----------------------------------------------------------------------------
(* input_get.                                                              *)

Bytes == encoding \in {"plain", "utf8"}

\* What utf8_ holds at i; what is behind it is not of the array.
Carried(i) == IF i <= 7 THEN utf8[i] ELSE -1

\* Mutant: what is carried is forgotten after a call that took some of it.
AskForgets(n) ==
    LET k == Least(n, ulen)
    IN  /\ call.pc = "idle"
        /\ delivered' = delivered \o [i \in 1..k |-> Carried(uidx + i - 1)]
        /\ surplus' = surplus \cup {Len(delivered) + i :
                                      i \in {j \in 1..k : uidx + j > length}}
        /\ uidx' = uidx + k /\ ulen' = 0
        /\ IF k = n THEN UNCHANGED call
           ELSE call' = [pc |-> "reading", want |-> n - k, got |-> k]
        /\ UNCHANGED <<source, file, rest, encoding, utf8, length>>

\* A call begins with what is carried.  When that is enough it returns,
\* otherwise nothing is carried any more.
Ask(n) ==
    LET k == Least(n, ulen)
    IN  /\ call.pc = "idle"
        /\ delivered' = delivered \o [i \in 1..k |-> Carried(uidx + i - 1)]
        /\ surplus' = surplus \cup {Len(delivered) + i :
                                      i \in {j \in 1..k : uidx + j > length}}
        /\ uidx' = uidx + k
        /\ IF k = n
           THEN /\ ulen' = ulen - k
                /\ UNCHANGED call
           ELSE /\ ulen' = 0
                /\ call' = [pc |-> "reading", want |-> n - k, got |-> k]
        /\ UNCHANGED <<source, file, rest, encoding, utf8, length>>

Return(got) == call' = IF got > 0 THEN Idle ELSE [Idle EXCEPT !.pc = "ended"]

\* Bytes are passed on as they are.
Read ==
    LET k == Least(call.want, Len(rest))
    IN  /\ call.pc = "reading" /\ Bytes
        /\ delivered' = delivered \o SubSeq(rest, 1, k)
        /\ rest' = SubSeq(rest, k + 1, Len(rest))
        /\ Return(call.got + k)
        /\ UNCHANGED <<source, file, encoding, utf8, uidx, ulen, length,
                       surplus>>

\* Mutant: the carry begins behind the character.
DecodeBehind ==
    LET c == Character(encoding, rest)
        s == Utf8(c.code)
        k == Least(call.want, Len(s))
    IN  /\ call.pc = "reading" /\ ~Bytes
        /\ call.want > 0 /\ Len(rest) >= Width(encoding)
        /\ rest' = SubSeq(rest, c.used + 1, Len(rest))
        /\ delivered' = delivered \o SubSeq(s, 1, k)
        /\ call' = [call EXCEPT !.want = @ - k, !.got = @ + k]
        /\ utf8' = Written(utf8, s) /\ length' = Len(s)
        /\ IF k < Len(s)
           THEN uidx' = Len(s) /\ ulen' = Len(s)
           ELSE UNCHANGED <<uidx, ulen>>
        /\ UNCHANGED <<source, file, encoding, surplus>>

\* A character is decoded.  Of one that does not fit the begin is delivered,
\* and the rest is carried: with the length of the whole.
Decode ==
    LET c == Character(encoding, rest)
        s == Utf8(c.code)
        k == Least(call.want, Len(s))
    IN  /\ call.pc = "reading" /\ ~Bytes
        /\ call.want > 0 /\ Len(rest) >= Width(encoding)
        /\ rest' = SubSeq(rest, c.used + 1, Len(rest))
        /\ delivered' = delivered \o SubSeq(s, 1, k)
        /\ call' = [call EXCEPT !.want = @ - k, !.got = @ + k]
        /\ IF c.code < 128
           THEN UNCHANGED <<utf8, length>>
           ELSE utf8' = Written(utf8, s) /\ length' = Len(s)
        /\ IF k < Len(s)
           THEN uidx' = k /\ ulen' = Len(s)
           ELSE UNCHANGED <<uidx, ulen>>
        /\ UNCHANGED <<source, file, encoding, surplus>>

\* Mutant: the caller does not learn of the end.
StopUnnoticed ==
    /\ call.pc = "reading" /\ ~Bytes
    /\ call.want = 0 \/ Len(rest) < Width(encoding)
    /\ rest' = IF call.want = 0 THEN rest ELSE <<>>
    /\ call' = Idle
    /\ UNCHANGED <<source, file, encoding, utf8, uidx, ulen, length, delivered,
                   surplus>>

\* The answer is full, or no whole unit is left.
Stop ==
    /\ call.pc = "reading" /\ ~Bytes
    /\ call.want = 0 \/ Len(rest) < Width(encoding)
    /\ rest' = IF call.want = 0 THEN rest ELSE <<>>
    /\ Return(call.got)
    /\ UNCHANGED <<source, file, encoding, utf8, uidx, ulen, length, delivered,
                   surplus>>

Done == call.pc = "ended" /\ UNCHANGED vars

Next == (\E n \in 1..MaxAsk : Ask(n)) \/ Read \/ Decode \/ Stop \/ Done

Spec == Init /\ [][Next]_vars /\ WF_vars(Next)

-----------------------------------------------------------------------------
\* What is carried is inside utf8_, unless the replacement of an invalid
\* character was cut in front of its last byte.
CarryInside ==
    ulen > 0 => uidx + ulen <= 8 \/ (length = 5 /\ uidx + ulen = 9)
=============================================================================
