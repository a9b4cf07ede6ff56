--------------------------- MODULE MCFileTokenStore ---------------------------
(***************************************************************************)
(* Instances of FileTokenStore for TLC: two fields, so that two updates    *)
(* can conflict, one or two replicas, and one collector.                   *)
(***************************************************************************)
EXTENDS FileTokenStore, TLC

CONSTANTS p1, p2, g1, r1, r2, chat, creator

OneHome  == [p \in Procs |-> r1]
TwoHomes == [p \in Procs |-> IF p = p2 THEN r2 ELSE r1]

BothFields == {chat, creator}
Blank      == {[f \in BothFields |-> 0]}
OnePatch   == {chat :> 1}
TwoPatches == {chat :> 1, creator :> 1}

===============================================================================
