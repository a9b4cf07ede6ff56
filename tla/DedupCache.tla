------------------------------ MODULE DedupCache ------------------------------
(***************************************************************************)
(* A dedupCache of handlers.go on its own: every replica of the gateway    *)
(* has one, in memory, so a restart empties it and the replicas do not     *)
(* share it.  Deliveries of the same key may reach any replica, at any     *)
(* time, any number of times.                                              *)
(***************************************************************************)
EXTENDS Dedup

CONSTANTS
  Replicas,    \* gateway processes
  Keys,        \* event ids (dedup), or token_operator keys (aiDedup, gcDedup)
  Window,      \* the ttl of the cache: 300 s or 60 s
  MaxTime,     \* bound on the clock, for TLC only
  MaxRestarts  \* bound on the restarts, for TLC only

ASSUME DedupCacheAssumption == Window \in Nat /\ MaxTime \in Nat /\ MaxRestarts \in Nat

VARIABLES
  now,       \* the clock, in seconds
  items,     \* items[r]: the map of replica r
  restarts,  \* restarts so far
  accepted   \* history: accepted[r][k] is when r, since its start, last let k through

vars == <<now, items, restarts, accepted>>

Never == -1

TypeOK ==
  /\ now \in Nat
  /\ items \in [Replicas -> [Keys -> Nat \cup {NotSeen}]]
  /\ restarts \in Nat
  /\ accepted \in [Replicas -> [Keys -> Nat \cup {Never}]]

Init ==
  /\ now = 0
  /\ items = [r \in Replicas |-> NoItems(Keys)]
  /\ restarts = 0
  /\ accepted = [r \in Replicas |-> [k \in Keys |-> Never]]

Refuse(r, k) ==
  /\ IsDuplicate(items[r], k, now, Window)
  /\ items' = [items EXCEPT ![r] = Checked(@, k, now, Window)]
  /\ UNCHANGED <<now, restarts, accepted>>

Accept(r, k) ==
  /\ ~IsDuplicate(items[r], k, now, Window)
  /\ items' = [items EXCEPT ![r] = Checked(@, k, now, Window)]
  /\ accepted' = [accepted EXCEPT ![r][k] = now]
  /\ UNCHANGED <<now, restarts>>

Restart(r) ==
  /\ restarts < MaxRestarts
  /\ restarts' = restarts + 1
  /\ items' = [items EXCEPT ![r] = NoItems(Keys)]
  /\ accepted' = [accepted EXCEPT ![r] = [k \in Keys |-> Never]]
  /\ UNCHANGED now

Tick ==
  /\ now < MaxTime
  /\ now' = now + 1
  /\ UNCHANGED <<items, restarts, accepted>>

Next ==
  \/ \E r \in Replicas, k \in Keys : Refuse(r, k) \/ Accept(r, k)
  \/ \E r \in Replicas : Restart(r)
  \/ Tick

Spec == Init /\ [][Next]_vars

(***************************************************************************)
(* Properties.                                                             *)
(***************************************************************************)
\* At every moment, what the cache will answer is what it should: it refuses a
\* key exactly while no more than Window seconds have passed since it last let
\* that key through.  Neither refused repeats nor the sweeps that other keys
\* cause lengthen or shorten that time.
RefusesExactlyWindow ==
  \A r \in Replicas, k \in Keys :
    IsDuplicate(items[r], k, now, Window)
      <=> (accepted[r][k] # Never /\ now - accepted[r][k] <= Window)
===============================================================================
