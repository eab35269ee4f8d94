---------------------------- MODULE MCFileInput ----------------------------
(***************************************************************************)
(* Files in every encoding that has a mark, files without one, and texts   *)
(* in memory; and what the bytes delivered have to do with them.           *)
(***************************************************************************)
EXTENDS FileInput, FiniteSets, TLC

CONSTANT MaxUnits   \* bound: units of a file behind its mark

SeqsUpTo(S, n) == UNION {[1..k -> S] : k \in 0..n}

\* Units of UTF-16: a letter, characters of two and three bytes, a high and a
\* low surrogate; units of UTF-32 that need one to four bytes or are none.
Units16 == {<<0, 97>>, <<0, 233>>, <<32, 172>>, <<216, 61>>, <<222, 0>>}
Units32 == {<<0, 0, 0, 97>>, <<0, 0, 0, 233>>, <<0, 1, 246, 0>>,
            <<0, 32, 0, 0>>, <<128, 0, 0, 98>>}

In(mark, units, turn(_)) ==
    {FlattenSeq(<<mark>> \o [i \in DOMAIN u |-> turn(u[i])]) :
       u \in SeqsUpTo(units, MaxUnits)}

Same(u) == u

\* Left out are what the code takes for plain after all: nothing but the mark
\* of UTF-16LE; and two zeros with one byte behind them, which it loses.
MCFiles ==
    In(<<254, 255>>, Units16, Same)
    \cup (In(<<255, 254>>, Units16, Reverse) \ {<<255, 254>>})
    \cup In(<<0, 0, 254, 255>>, Units32, Same)
    \cup In(<<255, 254, 0, 0>>, Units32, Reverse)
    \cup In(<<239, 187, 191>>, {<<97>>, <<195, 169>>}, Same)
    \cup {f \in SeqsUpTo({0, 97, 187, 239, 254}, 3) :
            Len(f) = 3 => SubSeq(f, 1, 2) # <<0, 0>>}

-----------------------------------------------------------------------------
(* What the text of a file is, from its bytes alone.                       *)

Begins(s, t) == Len(s) <= Len(t) /\ SubSeq(t, 1, Len(s)) = s

Mark(f) ==
    CASE Begins(<<0, 0, 254, 255>>, f) -> [encoding |-> "utf32be", length |-> 4]
      [] Begins(<<255, 254, 0, 0>>, f) -> [encoding |-> "utf32le", length |-> 4]
      [] Begins(<<254, 255>>, f)       -> [encoding |-> "utf16be", length |-> 2]
      [] Begins(<<255, 254>>, f) /\ ~Begins(<<255, 254, 0, 0>>, f) ->
           [encoding |-> "utf16le", length |-> 2]
      [] Begins(<<239, 187, 191>>, f)  -> [encoding |-> "utf8", length |-> 3]
      [] OTHER                         -> [encoding |-> "plain", length |-> 0]

\* A text in memory is delivered as it is, a file behind its mark and decoded.
TextOf(f, kind) ==
    LET mark == IF kind = "file" THEN Mark(f)
                ELSE [encoding |-> "plain", length |-> 0]
        from[i \in 1..Len(f) + 4] ==
          IF i + Width(mark.encoding) - 1 > Len(f) THEN <<>>
          ELSE LET c == Character(mark.encoding, SubSeq(f, i, Len(f)))
               IN  Utf8(c.code) \o from[i + c.used]
    IN  IF mark.encoding \in {"utf8", "plain"}
        THEN SubSeq(f, mark.length + 1, Len(f))
        ELSE from[mark.length + 1]

Genuine == LET at == {i \in DOMAIN delivered : i \notin surplus}
           IN  [i \in 1..Cardinality(at) |->
                  delivered[CHOOSE j \in at :
                              Cardinality({k \in at : k <= j}) = i]]

Stream == INSTANCE ByteStream WITH
            Texts <- {TextOf(f, kind) : f \in Files, kind \in {"file", "buffer"}},
            text <- TextOf(file, source),
            given <- Genuine,
            ended <- (call.pc = "ended")

\* The bytes of the text arrive in order, none is lost or delivered twice, and
\* an empty answer is given only behind the last, in every encoding and for
\* every sequence of requests; what is carried too much (README, known gaps)
\* is put in between and replaces nothing.
ImplementsStream == Stream!Spec

\* A request is answered with what was asked for at most.
TypeOK ==
    /\ Range(delivered) \subseteq -1..255
    /\ DOMAIN utf8 = 0..7 /\ Range(utf8) \subseteq 0..255
    /\ ulen \in 0..5 /\ uidx \in 0..9
    /\ call.got + call.want <= MaxAsk /\ call.want >= 0
    /\ surplus \subseteq DOMAIN delivered

\* What is carried is no more than what is left of the character: nothing is
\* delivered that no character of the file stands for.
NothingInBetween == surplus = {}

\* Whoever keeps asking comes to the end.
StreamEnds == <>(call.pc = "ended")
=============================================================================
