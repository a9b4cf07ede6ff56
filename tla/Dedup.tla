-------------------------------- MODULE Dedup --------------------------------
(***************************************************************************)
(* isDuplicate of internal/gateway/handlers.go as functions of the map     *)
(* behind a dedupCache: Keys to the second of acceptance, or NotSeen.      *)
(* The whole call holds the mutex, so it is one step of its caller.        *)
(***************************************************************************)
EXTENDS Integers

NotSeen == -1

NoItems(keys) == [k \in keys |-> NotSeen]

\* Fault: an entry is swept when it is just ttl seconds old.
PurgeEarly(items, at, ttl) ==
  [k \in DOMAIN items |-> IF at - items[k] >= ttl THEN NotSeen ELSE items[k]]

\* The sweep at the start of every call.
Purge(items, at, ttl) ==
  [k \in DOMAIN items |-> IF at - items[k] > ttl THEN NotSeen ELSE items[k]]

IsDuplicate(items, k, at, ttl) == Purge(items, at, ttl)[k] # NotSeen

\* Fault: every repeat refreshes the timestamp.
CheckedRefreshes(items, k, at, ttl) == [Purge(items, at, ttl) EXCEPT ![k] = at]

\* The map after the call.  A duplicate does not refresh its timestamp.
Checked(items, k, at, ttl) ==
  LET kept == Purge(items, at, ttl) IN
  IF kept[k] # NotSeen THEN kept ELSE [kept EXCEPT ![k] = at]
===============================================================================
