---------------------------- MODULE MCFirstSets ----------------------------
(***************************************************************************)
(* Instances of FirstSets: every grammar of three tokens with one or two   *)
(* productions each, taken from short lists.                               *)
(***************************************************************************)
EXTENDS FirstSets

Choices == [S |-> {<<"T">>, <<"T", "U">>, <<"a">>},
            T |-> {<<"U">>, <<"S", "b">>, <<"T", "a">>},
            U |-> {<<>>, <<"S">>, <<"b">>}]

Bodies(A) == {<<p>> : p \in Choices[A]}
             \cup {<<p, q>> : p, q \in Choices[A]}

\* In the last of them U has no rule: a production that begins with it is
\* reported, one that has it further on is not.
MCProductionMaps ==
  {[S |-> s, T |-> t, U |-> u] : s \in Bodies("S"), t \in Bodies("T"),
                                 u \in Bodies("U")}
  \cup {[S |-> s, T |-> t] : s \in Bodies("S"), t \in Bodies("T")}

-----------------------------------------------------------------------------
(***************************************************************************)
(* "We can now merge the initialized bit vectors together"                 *)
(* (canonical_collection.cc:121): a vector that is merged into another one *)
(* is complete.                                                            *)
(***************************************************************************)
MergesInitialized ==
  [][\A B \in Keys : Merge(B) /\ B # Top.token => B \in initialized]_vars

(***************************************************************************)
(* The recursion ends: no cycle of first symbols is followed forever.      *)
(***************************************************************************)
DescentEnds == <>Done
=============================================================================
