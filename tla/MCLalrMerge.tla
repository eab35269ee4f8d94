---------------------------- MODULE MCLalrMerge ----------------------------
(***************************************************************************)
(* Instances of LalrMerge: every way to give N states their LR(0) items,   *)
(* up to names.                                                            *)
(***************************************************************************)
EXTENDS LalrMerge

(***************************************************************************)
(* A core is named by the lowest state that has it.  That of the augment   *)
(* state is no other's: the augment token stands in no rule.               *)
(***************************************************************************)
MCCores ==
  {c \in [States -> States] :
     /\ \A s \in States : c[s] <= s /\ c[c[s]] = c[s]
     /\ \A s \in States \ {0} : c[s] # 0}

\* A mark of its own for each state: a union tells who was merged.
OwnLook == [s \in States |-> {s}]
=============================================================================
