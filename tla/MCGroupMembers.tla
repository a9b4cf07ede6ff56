---------------------------- MODULE MCGroupMembers ----------------------------
(***************************************************************************)
(* Instances of GroupMembers for TLC.                                      *)
(***************************************************************************)
EXTENDS GroupMembers, TLC

CONSTANTS r1, t1, a, b

OneHome   == [w \in Workers |-> r1]
AllOfThem == t1 :> {a, b}

Symmetry == Permutations(Chats) \cup Permutations(Operators) \cup Permutations(Workers)
===============================================================================
