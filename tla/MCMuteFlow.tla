------------------------------ MODULE MCMuteFlow ------------------------------
(***************************************************************************)
(* Instances of MuteFlow for TLC: a1 and a2 are alerts of one alert rule   *)
(* on two instances, and a1 is aggregated, with both as its members.       *)
(***************************************************************************)
EXTENDS MuteFlow

CONSTANTS a1, a2, i1, i2, g

OneGroup  == [a \in Alerts |-> g]
SameName  == [a \in Alerts |-> Alerts]
OwnTag    == [a \in Alerts |-> IF a = a1 THEN i1 ELSE i2]
Gathering == [a \in Alerts |-> IF a = a1 THEN {i1, i2} ELSE {}]
===============================================================================
