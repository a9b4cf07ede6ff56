--------------------------- MODULE MCFeishuCallback ---------------------------
(***************************************************************************)
(* Instances of FeishuCallback for TLC: two clicks on the same button, of  *)
(* which only e1 has an event id.  t1 carries credentials, t2 only the id  *)
(* of another application.                                                 *)
(***************************************************************************)
EXTENDS FeishuCallback, TLC

CONSTANTS e1, e2, i1, b1, t1, t2, app1, app2

Ids       == e1 :> i1 @@ e2 :> NoId
Buttons   == e1 :> b1 @@ e2 :> b1
Carried   == t1 :> [id |-> app1, secret |-> app1] @@ t2 :> [id |-> app2, secret |-> Nothing]
NotSet     == NoCredentials

Symmetry == Permutations(Replicas) \cup Permutations(Workers)
===============================================================================
