----------------------------- MODULE ByteStream -----------------------------
(***************************************************************************)
(* What the matcher expects of its input: the bytes of a text, in order    *)
(* and in pieces of any size, and an empty piece only at the end           *)
(* (src/src/lexer/matcher.c takes an empty read for the end of the text).  *)
(***************************************************************************)
EXTENDS Naturals, Sequences

CONSTANT Texts

VARIABLES text,   \* the whole text
          given,  \* what has been read of it
          ended   \* an empty piece has been read

vars == <<text, given, ended>>

Init == text \in Texts /\ given = <<>> /\ ended = FALSE

Give ==
    /\ ~ended
    /\ \E k \in 1..Len(text) - Len(given) :
         given' = given \o SubSeq(text, Len(given) + 1, Len(given) + k)
    /\ UNCHANGED <<text, ended>>

End ==
    /\ given = text
    /\ ended' = TRUE
    /\ UNCHANGED <<text, given>>

Next == Give \/ End

Spec == Init /\ [][Next]_vars
=============================================================================
