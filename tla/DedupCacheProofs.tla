--------------------------- MODULE DedupCacheProofs ---------------------------
(***************************************************************************)
(* For every set of replicas and keys and every window, a dedupCache       *)
(* answers as it should, restarts and refused repeats included.            *)
(***************************************************************************)
EXTENDS DedupCache, TLAPS

(***************************************************************************)
(* What the map remembers of the acceptances: all of them, except those    *)
(* that a sweep has found older than the window.                           *)
(***************************************************************************)
Remembers ==
  \A r \in Replicas, k \in Keys :
    IF items[r][k] = NotSeen
    THEN accepted[r][k] = Never \/ now - accepted[r][k] > Window
    ELSE items[r][k] = accepted[r][k]

\* One call of isDuplicate keeps the type of the map.
LEMMA CheckedType ==
  ASSUME NEW d \in [Keys -> Nat \cup {NotSeen}], NEW k \in Keys, NEW at \in Nat
  PROVE  /\ Checked(d, k, at, Window) \in [Keys -> Nat \cup {NotSeen}]
         /\ Purge(d, at, Window) \in [Keys -> Nat \cup {NotSeen}]
BY DEF Checked, Purge

\* One call of isDuplicate changes the entry of another key only by the sweep,
\* and its own entry to the time of the call unless it is a duplicate.
LEMMA CheckedEntry ==
  ASSUME NEW d \in [Keys -> Nat \cup {NotSeen}], NEW k \in Keys, NEW j \in Keys,
         NEW at \in Nat
  PROVE  Checked(d, k, at, Window)[j] =
           IF j = k /\ ~IsDuplicate(d, k, at, Window) THEN at
           ELSE IF at - d[j] > Window THEN NotSeen ELSE d[j]
BY DEF Checked, Purge, IsDuplicate

\* The map and the history variables are well typed initially and after every step.
LEMMA TypeInvariant == Spec => []TypeOK
<1>1. Init => TypeOK
  BY DEF Init, TypeOK, NoItems, NotSeen, Never
<1>2. TypeOK /\ [Next]_vars => TypeOK'
  <2> SUFFICES ASSUME TypeOK, [Next]_vars
               PROVE  TypeOK'
    OBVIOUS
  <2>1. ASSUME NEW r \in Replicas, NEW k \in Keys, Refuse(r, k) \/ Accept(r, k)
        PROVE  TypeOK'
    <3>1. Checked(items[r], k, now, Window) \in [Keys -> Nat \cup {NotSeen}]
      BY CheckedType DEF TypeOK
    <3>2. CASE Refuse(r, k)
      BY <3>1, <3>2 DEF Refuse, TypeOK
    <3>3. CASE Accept(r, k)
      <4>1. items' \in [Replicas -> [Keys -> Nat \cup {NotSeen}]]
        BY <3>1, <3>3 DEF Accept, TypeOK
      <4>2. accepted' \in [Replicas -> [Keys -> Nat \cup {Never}]]
        BY <3>3 DEF Accept, TypeOK
      <4> QED
        BY <3>3, <4>1, <4>2 DEF Accept, TypeOK
    <3> QED
      BY <2>1, <3>2, <3>3
  <2>2. ASSUME NEW r \in Replicas, Restart(r)
        PROVE  TypeOK'
    BY <2>2 DEF Restart, TypeOK, NoItems, NotSeen, Never
  <2>3. ASSUME Tick
        PROVE  TypeOK'
    BY <2>3 DEF Tick, TypeOK
  <2>4. CASE UNCHANGED vars
    BY <2>4 DEF vars, TypeOK
  <2> QED
    BY <2>1, <2>2, <2>3, <2>4 DEF Next
<1> QED
  BY <1>1, <1>2, PTL DEF Spec

\* Every step keeps what the map remembers in agreement with the acceptances.
LEMMA RemembersInductive == TypeOK /\ Remembers /\ [Next]_vars => Remembers'
<1> SUFFICES ASSUME TypeOK, Remembers, [Next]_vars,
                    NEW s \in Replicas, NEW j \in Keys
             PROVE  (IF items[s][j] = NotSeen
                     THEN accepted[s][j] = Never \/ now - accepted[s][j] > Window
                     ELSE items[s][j] = accepted[s][j])'
  BY DEF Remembers
<1> DEFINE Old == IF items[s][j] = NotSeen
                  THEN accepted[s][j] = Never \/ now - accepted[s][j] > Window
                  ELSE items[s][j] = accepted[s][j]
<1>0. /\ Old
      /\ items[s] \in [Keys -> Nat \cup {NotSeen}]
      /\ items[s][j] \in Nat \cup {NotSeen}
      /\ accepted[s][j] \in Nat \cup {Never}
      /\ now \in Nat
  BY DEF Remembers, TypeOK
<1>1. ASSUME NEW r \in Replicas, NEW k \in Keys, Refuse(r, k)
      PROVE  Old'
  <2>1. CASE s # r
    <3>1. items'[s] = items[s]
      BY <1>1, <2>1 DEF Refuse, TypeOK
    <3> QED
      BY <1>0, <1>1, <3>1 DEF Refuse
  <2>2. CASE s = r
    <3>1. items'[s] = Checked(items[s], k, now, Window)
      BY <1>1, <2>2 DEF Refuse, TypeOK
    <3>2. items'[s][j] = IF now - items[s][j] > Window THEN NotSeen ELSE items[s][j]
      BY <1>0, <1>1, <2>2, <3>1, CheckedEntry DEF Refuse
    <3> QED
      BY <1>0, <1>1, <3>2 DEF Refuse, NotSeen, Never
  <2> QED
    BY <2>1, <2>2
<1>2. ASSUME NEW r \in Replicas, NEW k \in Keys, Accept(r, k)
      PROVE  Old'
  <2>1. CASE s # r
    <3>1. items'[s] = items[s] /\ accepted'[s] = accepted[s]
      BY <1>2, <2>1 DEF Accept, TypeOK
    <3> QED
      BY <1>0, <1>2, <3>1 DEF Accept
  <2>2. CASE s = r /\ j = k
    <3>1. items'[s] = Checked(items[s], k, now, Window) /\ accepted'[s][j] = now
      BY <1>2, <2>2 DEF Accept, TypeOK
    <3>2. items'[s][j] = now
      BY <1>0, <1>2, <2>2, <3>1, CheckedEntry DEF Accept
    <3> QED
      BY <1>0, <3>1, <3>2 DEF NotSeen
  <2>3. CASE s = r /\ j # k
    <3>1. items'[s] = Checked(items[s], k, now, Window) /\ accepted'[s][j] = accepted[s][j]
      BY <1>2, <2>3 DEF Accept, TypeOK
    <3>2. items'[s][j] = IF now - items[s][j] > Window THEN NotSeen ELSE items[s][j]
      BY <1>0, <2>3, <3>1, CheckedEntry
    <3> QED
      BY <1>0, <1>2, <3>1, <3>2 DEF Accept, NotSeen, Never
  <2> QED
    BY <2>1, <2>2, <2>3
<1>3. ASSUME NEW r \in Replicas, Restart(r)
      PROVE  Old'
  BY <1>0, <1>3 DEF Restart, NoItems, TypeOK
<1>4. ASSUME Tick
      PROVE  Old'
  BY <1>0, <1>4, DedupCacheAssumption DEF DedupCacheAssumption, Tick, NotSeen, Never
<1>5. CASE UNCHANGED vars
  BY <1>0, <1>5 DEF vars
<1> QED
  BY <1>1, <1>2, <1>3, <1>4, <1>5 DEF Next

\* Whatever the deliveries, restarts and passing of time, a cache refuses a key
\* exactly while its last acceptance is no older than the window.
THEOREM RefusesExactly == Spec => []RefusesExactlyWindow
<1>1. Init => Remembers
  BY DEF Init, Remembers, NoItems, NotSeen, Never
<1>2. TypeOK /\ Remembers => RefusesExactlyWindow
  BY DedupCacheAssumption
  DEF DedupCacheAssumption, TypeOK, Remembers, RefusesExactlyWindow, IsDuplicate, Purge, NotSeen, Never
<1> QED
  BY <1>1, <1>2, TypeInvariant, RemembersInductive, PTL DEF Spec
===============================================================================
