----------------------------- MODULE MCGroupChat -----------------------------
(***************************************************************************)
(* Instances of GroupChat for TLC.                                         *)
(***************************************************************************)
EXTENDS GroupChat, TLC

CONSTANTS r1

OneHome  == [w \in Workers |-> r1]

Symmetry == Permutations(Chats) \cup Permutations(Operators) \cup Permutations(Workers)
===============================================================================
