-------------------------- MODULE MCRedisTokenStore --------------------------
(***************************************************************************)
(* Instances of RedisTokenStore for TLC.  The patches are those of         *)
(* asyncCreateChat and asyncDismissChat: both set chat, and the first one  *)
(* also creator, which stands for all that only one of them sets.  None    *)
(* sets rule.                                                              *)
(***************************************************************************)
EXTENDS RedisTokenStore, TLC

CONSTANTS chat, creator, rule

EntryFields == {chat, creator, rule}
Blank       == {[f \in EntryFields |-> 0]}
ChatPatches == {chat :> 1 @@ creator :> 1, chat :> 0}
Symmetry    == Permutations(Procs)
===============================================================================
