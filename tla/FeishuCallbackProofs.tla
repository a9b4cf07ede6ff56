------------------------- MODULE FeishuCallbackProofs -------------------------
(***************************************************************************)
(* For any number of replicas, handlers, events and tokens: the callbacks  *)
(* use the cache as DedupCache says, the credentials fit, what Feishu has  *)
(* been told is handled was handled, and no click is handled more often    *)
(* than lives and windows explain.                                         *)
(***************************************************************************)
EXTENDS FeishuCallback, DedupCacheProofs, FiniteSetTheorems

\* Every step is a step of the caches or leaves them alone.
LEMMA CacheStep == [CallbackNext]_callbackVars => [Next]_vars
<1> SUFFICES ASSUME CallbackNext, vars' # vars
             PROVE  Next
  BY DEF callbackVars
<1>1. ASSUME NEW r \in Replicas, Exit(r) \/ Kill(r)
      PROVE  Next
  BY <1>1 DEF Exit, Kill, Gone, Next
<1>2. ASSUME NEW r \in Replicas, NEW e \in Events, Repeat(e, r)
      PROVE  Next
  BY <1>2, FeishuCallbackAssumption DEF FeishuCallbackAssumption, Repeat, Next
<1>3. ASSUME NEW r \in Replicas, NEW e \in Events, NEW w \in Workers, Begin(w, e, r)
      PROVE  Next
  BY <1>3, FeishuCallbackAssumption DEF FeishuCallbackAssumption, Begin, Next
<1>4. ASSUME Pass
      PROVE  Next
  BY <1>4 DEF Pass, Next
<1> QED
  BY <1>1, <1>2, <1>3, <1>4
  DEF CallbackNext, Start, StartFails, Started, StopEarly, Stop, Register, End

\* The service implements DedupCache: it starts like it, and every one of its
\* steps is a call of isDuplicate, a restart, a tick, or nothing to the caches.
THEOREM CallbackUsesCache == CallbackSpec => Spec
<1>1. CallbackInit => Init
  BY DEF CallbackInit
<1> QED
  BY <1>1, CacheStep, PTL DEF CallbackSpec, Spec

\* In the running service, too, a key is refused exactly while it should be.
THEOREM CallbackRefusesExactly == CallbackSpec => []RefusesExactlyWindow
BY CallbackUsesCache, RefusesExactly, PTL

(***************************************************************************)
(* Types.                                                                  *)
(***************************************************************************)
FullPairs == {pair \in Credentials : Full(pair)}

\* NoJob is not a job, and an entry for a job has its parts.
LEMMA JobParts ==
  /\ NoJob.rep \notin Replicas
  /\ NoJob \notin Job
  /\ \A j \in Job : j.event \in Events /\ j.rep \in Replicas /\ j.at \in Nat
<1>1. NoJob.rep = "none"
  BY DEF NoJob
<1>2. \A j \in Job : j.event \in Events /\ j.rep \in Replicas /\ j.at \in Nat
  BY DEF Job
<1> QED
  BY <1>1, <1>2, FeishuCallbackAssumption DEF FeishuCallbackAssumption

\* What a register request leaves to be remembered is complete or was there before.
LEMMA RememberType ==
  ASSUME NEW r \in Replicas, NEW t \in Tokens,
         remembered \in [Replicas -> FullPairs \cup {NoCredentials}]
  PROVE  Remember(r, t) \in FullPairs \cup {NoCredentials}
BY FeishuCallbackAssumption DEF FeishuCallbackAssumption, Remember, FullPairs

\* The variables of the callback handlers and of the replicas are always well typed.
THEOREM CallbackTypeCorrect == CallbackSpec => []CallbackTypeOK
<1>1. CallbackInit => CallbackTypeOK
  <2> SUFFICES ASSUME CallbackInit
               PROVE  CallbackTypeOK
    OBVIOUS
  <2>1. TypeOK
    BY DEF CallbackInit, Init, TypeOK, NoItems, NotSeen, Never
  <2> QED
    BY <2>1 DEF CallbackInit, CallbackTypeOK, Stages
<1>2. CallbackTypeOK /\ TypeOK' /\ [CallbackNext]_callbackVars => CallbackTypeOK'
  <2> SUFFICES ASSUME CallbackTypeOK, TypeOK', [CallbackNext]_callbackVars
               PROVE  CallbackTypeOK'
    OBVIOUS
  <2> USE DEF CallbackTypeOK
  <2>1. ASSUME NEW r \in Replicas, Start(r) \/ StartFails(r) \/ Started(r) \/ StopEarly(r)
        PROVE  CallbackTypeOK'
    BY <2>1 DEF Start, StartFails, Started, StopEarly, Goto, Stages, creds, fate, vars
  <2>2. ASSUME NEW r \in Replicas, Stop(r)
        PROVE  CallbackTypeOK'
    BY <2>2 DEF Stop, Goto, Stages, creds, fate, vars, TypeOK
  <2>3. ASSUME NEW r \in Replicas, Exit(r) \/ Kill(r)
        PROVE  CallbackTypeOK'
    <3>1. \A w \in InProgress(r) : job[w] \in Job /\ job[w].event \in Events
      BY JobParts DEF InProgress
    <3>2. stage' \in [Replicas -> Stages] /\ since' \in [Replicas -> Nat]
      BY <2>3 DEF Exit, Kill, Gone, Goto, Stages
    <3>3. job' \in [Workers -> Job \cup {NoJob}]
      BY <2>3 DEF Exit, Kill, Gone
    <3>4. /\ remembered' \in [Replicas -> {pair \in Credentials : Full(pair)} \cup {NoCredentials}]
          /\ taught' \subseteq Replicas
      BY <2>3 DEF Exit, Kill, Gone
    <3>5. dropped' \subseteq Events /\ killed' \subseteq Events
      BY <2>3, <3>1 DEF Exit, Kill
    <3> QED
      BY <2>3, <3>2, <3>3, <3>4, <3>5 DEF Exit, Kill
  <2>4. ASSUME NEW r \in Replicas, NEW t \in Tokens, Register(r, t)
        PROVE  CallbackTypeOK'
    <3>1. Remember(r, t) \in {pair \in Credentials : Full(pair)} \cup {NoCredentials}
      BY RememberType DEF FullPairs
    <3> QED
      BY <2>4, <3>1 DEF Register, vars, service, fate
  <2>5. ASSUME NEW r \in Replicas, NEW e \in Events, Repeat(e, r)
        PROVE  CallbackTypeOK'
    BY <2>5 DEF Repeat, service, creds
  <2>6. ASSUME NEW r \in Replicas, NEW e \in Events, NEW w \in Workers, Begin(w, e, r)
        PROVE  CallbackTypeOK'
    <3>1. [event |-> e, rep |-> r, at |-> now] \in Job
      BY DEF Job, TypeOK
    <3> QED
      BY <2>6, <3>1 DEF Begin, service, creds
  <2>7. ASSUME NEW w \in Workers, End(w)
        PROVE  CallbackTypeOK'
    <3>1. job[w] \in Job /\ job[w].event \in Events
      BY <2>7, JobParts DEF End
    <3> QED
      BY <2>7, <3>1 DEF End, vars, service, creds
  <2>8. ASSUME Pass
        PROVE  CallbackTypeOK'
    BY <2>8 DEF Pass, service, creds, fate
  <2>9. CASE UNCHANGED callbackVars
    BY <2>9 DEF callbackVars, vars, service, creds, fate
  <2> QED
    BY <2>1, <2>2, <2>3, <2>4, <2>5, <2>6, <2>7, <2>8, <2>9 DEF CallbackNext
<1>3. CallbackSpec => []TypeOK
  BY CallbackUsesCache, TypeInvariant, PTL
<1> QED
  BY <1>1, <1>2, <1>3, PTL DEF CallbackSpec

(***************************************************************************)
(* Credentials.                                                            *)
(***************************************************************************)
\* What is remembered is of one application, and there is something if there was.
Complete ==
  /\ \A r \in Replicas : Fits(remembered[r])
  /\ \A r \in taught : Full(remembered[r])

\* Credentials that a click resolves to are of one application, the token's own
\* if it has them, and complete after the first complete registration.
THEOREM CredentialsAlwaysFit == CallbackSpec => []CredentialsFit
<1>1. CallbackInit => Complete
  BY DEF CallbackInit, Complete, Fits, Full, NoCredentials
<1>2. CallbackTypeOK /\ Complete /\ [CallbackNext]_callbackVars => Complete'
  <2> SUFFICES ASSUME CallbackTypeOK, Complete, [CallbackNext]_callbackVars,
                      ~UNCHANGED <<remembered, taught>>
               PROVE  Complete'
    BY DEF Complete, Fits, Full
  <2>1. ASSUME NEW r \in Replicas, Exit(r) \/ Kill(r)
        PROVE  Complete'
    <3>1. \A q \in Replicas : remembered'[q] = IF q = r THEN NoCredentials ELSE remembered[q]
      BY <2>1 DEF Exit, Kill, Gone, CallbackTypeOK
    <3>2. taught' = taught \ {r}
      BY <2>1 DEF Exit, Kill, Gone
    <3>3. Fits(NoCredentials)
      BY DEF Fits, Full, NoCredentials
    <3> QED
      BY <3>1, <3>2, <3>3 DEF Complete, Fits, Full, CallbackTypeOK
  <2>2. ASSUME NEW r \in Replicas, NEW t \in Tokens, Register(r, t)
        PROVE  Complete'
    <3>1. \A q \in Replicas : remembered'[q] = IF q = r THEN Remember(r, t) ELSE remembered[q]
      BY <2>2 DEF Register, CallbackTypeOK
    <3>2. taught' = IF Full(Own[t]) THEN taught \cup {r} ELSE taught
      BY <2>2 DEF Register
    <3>3. Fits(Remember(r, t)) /\ (r \in taught' => Full(Remember(r, t)))
      BY <3>2, FeishuCallbackAssumption DEF FeishuCallbackAssumption, Remember, Complete
    <3> QED
      BY <3>1, <3>2, <3>3 DEF Complete, Fits, Full, CallbackTypeOK
  <2> QED
    BY <2>1, <2>2
    DEF CallbackNext, callbackVars, creds, Start, StartFails, Started, StopEarly, Stop,
        Repeat, Begin, End, Pass
<1>3. CallbackTypeOK /\ Complete => CredentialsFit
  BY FeishuCallbackAssumption
  DEF FeishuCallbackAssumption, CallbackTypeOK, Complete, CredentialsFit, ResolveFeishuCreds, Fits
<1> QED
  BY <1>1, <1>2, <1>3, CallbackTypeCorrect, PTL DEF CallbackSpec

(***************************************************************************)
(* Answers.                                                                *)
(***************************************************************************)
Handling == {job[w].event : w \in {v \in Workers : job[v] # NoJob}}
Accounted == handled \cup killed \cup dropped \cup Handling

\* A cache holds the key of a click with an id of its own only if the click was
\* taken up, and what was answered was taken up.
Marked ==
  \A e \in Events : HasOwnId(e) =>
    /\ \A r \in Replicas : items[r][DedupKey(e)] # NotSeen => e \in Accounted
    /\ e \in answered => e \in Accounted

\* A click with an id of its own shares its key with no other.
LEMMA OwnKey ==
  ASSUME NEW e \in Events, HasOwnId(e), NEW f \in Events, DedupKey(f) = DedupKey(e)
  PROVE  f = e
BY FeishuCallbackAssumption DEF FeishuCallbackAssumption, HasOwnId, DedupKey

\* No step loses track of a click that was taken up.
LEMMA StaysAccounted ==
  ASSUME CallbackTypeOK, [CallbackNext]_callbackVars
  PROVE  Accounted \subseteq Accounted'
<1>1. ASSUME NEW r \in Replicas, Exit(r) \/ Kill(r)
      PROVE  Accounted \subseteq Accounted'
  <2>1. \A w \in Workers : job[w] # NoJob => w \in InProgress(r) \/ job'[w] = job[w]
    BY <1>1 DEF Exit, Kill, Gone, InProgress
  <2>2. {job[w].event : w \in InProgress(r)} \subseteq killed' \cup dropped'
    BY <1>1 DEF Exit, Kill
  <2>3. handled \cup killed \cup dropped \subseteq handled' \cup killed' \cup dropped'
    BY <1>1 DEF Exit, Kill
  <2>4. ASSUME NEW w \in Workers, job[w] # NoJob
        PROVE  job[w].event \in Accounted'
    <3>1. CASE w \in InProgress(r)
      BY <2>2, <3>1 DEF Accounted
    <3>2. CASE job'[w] = job[w]
      BY <2>4, <3>2 DEF Accounted, Handling
    <3> QED
      BY <2>1, <2>4, <3>1, <3>2
  <2> QED
    BY <2>3, <2>4 DEF Accounted, Handling
<1>2. ASSUME NEW r \in Replicas, NEW e \in Events, NEW w \in Workers, Begin(w, e, r)
      PROVE  Accounted \subseteq Accounted'
  <2>1. \A v \in Workers : job[v] # NoJob => job'[v] = job[v]
    BY <1>2 DEF Begin, CallbackTypeOK
  <2> QED
    BY <1>2, <2>1 DEF Begin, Accounted, Handling
<1>3. ASSUME NEW w \in Workers, End(w)
      PROVE  Accounted \subseteq Accounted'
  <2>1. \A v \in Workers : v # w => job'[v] = job[v]
    BY <1>3 DEF End, CallbackTypeOK
  <2> QED
    BY <1>3, <2>1 DEF End, Accounted, Handling
<1>4. CASE UNCHANGED <<handled, killed, dropped, job>>
  BY <1>4 DEF Accounted, Handling
<1> QED
  BY <1>1, <1>2, <1>3, <1>4
  DEF CallbackNext, callbackVars, creds, fate, Start, StartFails, Started, StopEarly, Stop,
      Register, Repeat, Pass

\* After a call of isDuplicate another key is in the map only if it was before,
\* and after a restart none is.
LEMMA StaysUnseen ==
  ASSUME TypeOK, NEW r \in Replicas, NEW k \in Keys, NEW q \in Replicas, NEW j \in Keys,
         items[q][j] = NotSeen,
         Refuse(r, k) \/ (Accept(r, k) /\ (q # r \/ j # k)) \/ Restart(r)
  PROVE  items'[q][j] = NotSeen
<1>0. \A p \in Replicas : items[p] \in [Keys -> Nat \cup {NotSeen}]
  BY DEF TypeOK
<1>1. CASE Restart(r)
  BY <1>1 DEF Restart, NoItems, TypeOK
<1>2. CASE q # r /\ (Refuse(r, k) \/ Accept(r, k))
  BY <1>2 DEF Refuse, Accept, TypeOK
<1>3. CASE q = r /\ (Refuse(r, k) \/ (Accept(r, k) /\ j # k))
  <2>1. items'[r] = Checked(items[r], k, now, Window) /\ now \in Nat
    BY <1>3 DEF Refuse, Accept, TypeOK
  <2>2. items'[r][j] = IF j = k /\ ~IsDuplicate(items[r], k, now, Window) THEN now
                       ELSE IF now - items[r][j] > Window THEN NotSeen ELSE items[r][j]
    BY <1>0, <2>1, CheckedEntry
  <2>3. ~(j = k /\ ~IsDuplicate(items[r], k, now, Window))
    BY <1>3 DEF Refuse
  <2> QED
    BY <1>3, <2>2, <2>3
<1> QED
  BY <1>1, <1>2, <1>3

\* A click with an event id of its own that is answered has been taken up by a
\* handler: no restart, redelivery or other click passes for it.
THEOREM AnsweredAlwaysHandled == CallbackSpec => []AnsweredWasHandled
<1>1. CallbackInit => Marked
  BY FeishuCallbackAssumption
  DEF FeishuCallbackAssumption, CallbackInit, Init, NoItems, Marked
<1>2. CallbackTypeOK /\ Marked /\ [CallbackNext]_callbackVars => Marked'
  <2> SUFFICES ASSUME CallbackTypeOK, Marked, [CallbackNext]_callbackVars,
                      NEW e \in Events, HasOwnId(e)
               PROVE  /\ \A q \in Replicas : items'[q][DedupKey(e)] # NotSeen => e \in Accounted'
                      /\ e \in answered' => e \in Accounted'
    BY DEF Marked, HasOwnId, DedupKey
  <2> DEFINE Key == DedupKey(e)
  <2>0. /\ Key \in Keys
        /\ TypeOK
        /\ Accounted \subseteq Accounted'
        /\ \A q \in Replicas : items[q][Key] # NotSeen => e \in Accounted
        /\ e \in answered => e \in Accounted
    BY StaysAccounted, FeishuCallbackAssumption DEF FeishuCallbackAssumption, CallbackTypeOK, Marked
  <2> HIDE DEF Key
  <2>1. ASSUME NEW r \in Replicas, Exit(r) \/ Kill(r)
        PROVE  /\ \A q \in Replicas : items'[q][Key] # NotSeen => e \in Accounted'
               /\ e \in answered' => e \in Accounted'
    <3>1. Restart(r) /\ answered' = answered
      BY <2>1 DEF Exit, Kill, Gone
    <3> QED
      BY <2>0, <3>1, StaysUnseen
  <2>2. ASSUME NEW r \in Replicas, NEW f \in Events, Repeat(f, r)
        PROVE  /\ \A q \in Replicas : items'[q][Key] # NotSeen => e \in Accounted'
               /\ e \in answered' => e \in Accounted'
    <3>1. DedupKey(f) \in Keys /\ Refuse(r, DedupKey(f)) /\ answered' = answered \cup {f}
      BY <2>2, FeishuCallbackAssumption DEF FeishuCallbackAssumption, Repeat
    <3>2. \A q \in Replicas : items'[q][Key] # NotSeen => e \in Accounted'
      BY <2>0, <3>1, StaysUnseen
    <3>3. f = e => items[r][Key] # NotSeen
      BY <2>0, <3>1 DEF Refuse, IsDuplicate, Purge, Key, TypeOK
    <3> QED
      BY <2>0, <3>1, <3>2, <3>3
  <2>3. ASSUME NEW r \in Replicas, NEW f \in Events, NEW w \in Workers, Begin(w, f, r)
        PROVE  /\ \A q \in Replicas : items'[q][Key] # NotSeen => e \in Accounted'
               /\ e \in answered' => e \in Accounted'
    <3>1. /\ DedupKey(f) \in Keys /\ Accept(r, DedupKey(f))
          /\ answered' = answered
          /\ job'[w] = [event |-> f, rep |-> r, at |-> now]
      BY <2>3, FeishuCallbackAssumption DEF FeishuCallbackAssumption, Begin, CallbackTypeOK
    <3>2. CASE f = e
      <4>1. job'[w] # NoJob /\ job'[w].event = e
        BY <3>1, <3>2, JobParts
      <4>2. e \in Accounted'
        BY <4>1 DEF Accounted, Handling
      <4> QED
        BY <4>2
    <3>3. CASE f # e
      <4>1. DedupKey(f) # Key
        BY <3>3, OwnKey DEF Key
      <4> QED
        BY <2>0, <3>1, <4>1, StaysUnseen
    <3> QED
      BY <3>2, <3>3
  <2>4. ASSUME NEW w \in Workers, End(w)
        PROVE  /\ \A q \in Replicas : items'[q][Key] # NotSeen => e \in Accounted'
               /\ e \in answered' => e \in Accounted'
    <3>1. items' = items /\ answered' = answered \cup {job[w].event} /\ job[w].event \in handled'
      BY <2>4 DEF End, vars
    <3> QED
      BY <2>0, <3>1 DEF Accounted
  <2>5. CASE UNCHANGED <<items, answered>>
    BY <2>0, <2>5 DEF Key
  <2> QED
    BY <2>1, <2>2, <2>3, <2>4, <2>5
    DEF Key, CallbackNext, callbackVars, vars, fate, Start, StartFails, Started, StopEarly, Stop,
        Register, Pass, Tick
<1>3. CallbackTypeOK /\ Marked => AnsweredWasHandled
  BY DEF CallbackTypeOK, Marked, Accounted, Handling, AnsweredWasHandled
<1> QED
  BY <1>1, <1>2, <1>3, CallbackTypeCorrect, PTL DEF CallbackSpec

(***************************************************************************)
(* Handlings.  Each handling of a click is booked under the life of the    *)
(* process that took it up and the number of windows that had gone by: no  *)
(* two fall together, because a process lets a key through once a window.  *)
(***************************************************************************)
Epoch(t) == t \div (Window + 1)

\* The process of a replica after the n-th restart of any of them.
Lives == Replicas \X Nat

\* `life` numbers the processes that run, `lives` are all that there have been,
\* and `taken` are the lives and epochs of the handlings of e, those of the
\* present life no later than the last acceptance.
Booked(e, life, lives, taken) ==
  /\ IsFiniteSet(lives)
  /\ Cardinality(lives) <= Cardinality(Replicas) + restarts
  /\ \A r \in Replicas, n \in Nat : <<r, n>> \in lives => n <= restarts
  /\ \A r \in Replicas : <<r, life[r]>> \in lives
  /\ taken \subseteq lives \X (0 .. Epoch(now))
  /\ IsFiniteSet(taken)
  /\ Cardinality(taken) = times[e]
  /\ \A r \in Replicas, n \in Nat :
       <<<<r, life[r]>>, n>> \in taken =>
         /\ accepted[r][DedupKey(e)] # Never
         /\ n <= Epoch(accepted[r][DedupKey(e)])

IsBooked(e) ==
  \E life \in [Replicas -> Nat], lives \in SUBSET Lives, taken \in SUBSET (Lives \X Nat) :
    Booked(e, life, lives, taken)

AllBooked == \A e \in Events : IsBooked(e)

\* Epochs are in the order of the times, and a window apart they differ.
LEMMA EpochOrder ==
  ASSUME NEW m \in Nat, NEW a \in Nat, NEW b \in Nat
  PROVE  /\ a \div (m + 1) \in Nat
         /\ a <= b => a \div (m + 1) <= b \div (m + 1)
         /\ b - a > m => a \div (m + 1) < b \div (m + 1)
OBVIOUS

\* The same in terms of Epoch.
LEMMA Epochs ==
  /\ \A t \in Nat : Epoch(t) \in Nat
  /\ \A s, t \in Nat : s <= t => Epoch(s) <= Epoch(t)
  /\ \A s, t \in Nat : t - s > Window => Epoch(s) < Epoch(t)
BY EpochOrder, DedupCacheAssumption DEF DedupCacheAssumption, Epoch

\* So many lives and so many epochs have at most their product of pairs.
LEMMA BookedBounds ==
  ASSUME CallbackTypeOK, NEW e \in Events, IsBooked(e)
  PROVE  times[e] <= (Cardinality(Replicas) + restarts) * (now \div (Window + 1) + 1)
<1> DEFINE N == Cardinality(Replicas) + restarts
           Q == Epoch(now)
<1>1. PICK life \in [Replicas -> Nat], lives \in SUBSET Lives, taken \in SUBSET (Lives \X Nat) :
        Booked(e, life, lives, taken)
  BY DEF IsBooked
<1>2. /\ now \in Nat /\ restarts \in Nat /\ Cardinality(Replicas) \in Nat /\ N \in Nat
      /\ Q \in Nat
  <2>1. now \in Nat /\ restarts \in Nat
    BY DEF CallbackTypeOK, TypeOK
  <2>2. Cardinality(Replicas) \in Nat
    BY FS_CardinalityType, FeishuCallbackAssumption DEF FeishuCallbackAssumption
  <2> QED
    BY <2>1, <2>2, Epochs
<1>3. IsFiniteSet(0 .. Q) /\ Cardinality(0 .. Q) = Q + 1
  <2> HIDE DEF Q
  <2>1. 0 \in Int /\ Q \in Int /\ ~(0 > Q) /\ Q - 0 + 1 = Q + 1
    BY <1>2
  <2> QED
    BY <2>1, FS_Interval
<1>4. IsFiniteSet(lives) /\ Cardinality(lives) \in Nat /\ Cardinality(lives) <= N
  BY <1>1, FS_CardinalityType DEF Booked
<1>5. /\ IsFiniteSet(lives \X (0 .. Q))
      /\ Cardinality(lives \X (0 .. Q)) = Cardinality(lives) * (Q + 1)
  <2> HIDE DEF Q
  <2> QED
    BY <1>3, <1>4, FS_Product
<1>6. times[e] <= Cardinality(lives) * (Q + 1)
  <2>1. taken \in SUBSET (lives \X (0 .. Q)) /\ times[e] = Cardinality(taken)
    BY <1>1 DEF Booked
  <2> HIDE DEF Q
  <2> QED
    BY <1>5, <2>1, FS_Subset
<1>7. \A a, b, c \in Nat : a <= b => a * (c + 1) <= b * (c + 1)
  OBVIOUS
<1>8. times[e] \in Nat /\ Cardinality(lives) * (Q + 1) \in Nat /\ N * (Q + 1) \in Nat
  <2> HIDE DEF N, Q
  <2> QED
    BY <1>2, <1>4 DEF CallbackTypeOK
<1>9. Cardinality(lives) * (Q + 1) <= N * (Q + 1)
  <2> HIDE DEF N, Q
  <2> QED
    BY <1>2, <1>4, <1>7
<1>10. times[e] <= N * (Q + 1)
  <2> HIDE DEF N, Q
  <2> QED
    BY <1>6, <1>8, <1>9
<1> QED
  BY <1>10 DEF Epoch

\* At the start each replica lives its first life and nothing has been handled.
LEMMA BookedFirst ==
  ASSUME CallbackInit, NEW e \in Events
  PROVE  IsBooked(e)
<1> DEFINE life == [r \in Replicas |-> 0]
           lives == Replicas \X {0}
<1>1. IsFiniteSet(Replicas) /\ Cardinality(Replicas) \in Nat
  BY FS_CardinalityType, FeishuCallbackAssumption DEF FeishuCallbackAssumption
<1>2. IsFiniteSet({0}) /\ Cardinality({0}) = 1
  BY FS_Singleton
<1>3. IsFiniteSet(lives) /\ Cardinality(lives) = Cardinality(Replicas) * 1
  BY <1>1, <1>2, FS_Product
<1>4. IsFiniteSet({}) /\ Cardinality({}) = 0
  BY FS_EmptySet
<1>5. restarts = 0 /\ times[e] = 0
  BY DEF CallbackInit, Init
<1>6. Cardinality(lives) <= Cardinality(Replicas) + restarts
  <2> HIDE DEF lives
  <2> QED
    BY <1>1, <1>3, <1>5
<1>7. Booked(e, life, lives, {})
  BY <1>3, <1>4, <1>5, <1>6 DEF Booked
<1>8. life \in [Replicas -> Nat] /\ lives \in SUBSET Lives /\ {} \in SUBSET (Lives \X Nat)
  BY DEF Lives
<1> HIDE DEF life, lives
<1> QED
  BY <1>7, <1>8 DEF IsBooked

\* A step that handles no e and ends no process leaves the bookings of e as they
\* are: the clock goes on, and other acceptances of its key are of now.
LEMMA BookedStays ==
  ASSUME CallbackTypeOK, NEW e \in Events, IsBooked(e),
         now' \in Nat, now <= now', restarts' = restarts, times'[e] = times[e],
         \A q \in Replicas : \/ accepted'[q][DedupKey(e)] = accepted[q][DedupKey(e)]
                             \/ accepted'[q][DedupKey(e)] = now
  PROVE  IsBooked(e)'
<1>1. PICK life \in [Replicas -> Nat], lives \in SUBSET Lives, taken \in SUBSET (Lives \X Nat) :
        Booked(e, life, lives, taken)
  BY DEF IsBooked
<1>2. /\ now \in Nat /\ Epoch(now) \in Nat /\ Epoch(now') \in Nat /\ Epoch(now) <= Epoch(now')
      /\ now # Never
  BY Epochs DEF CallbackTypeOK, TypeOK, Never
<1>3. taken \subseteq lives \X (0 .. Epoch(now'))
  <2>1. 0 .. Epoch(now) \subseteq 0 .. Epoch(now')
    BY <1>2
  <2>2. taken \subseteq lives \X (0 .. Epoch(now))
    BY <1>1 DEF Booked
  <2> QED
    BY <2>1, <2>2
<1>4. ASSUME NEW r \in Replicas, NEW n \in Nat, <<<<r, life[r]>>, n>> \in taken
      PROVE  accepted'[r][DedupKey(e)] # Never /\ n <= Epoch(accepted'[r][DedupKey(e)])
  <2>1. accepted[r][DedupKey(e)] # Never /\ n <= Epoch(accepted[r][DedupKey(e)])
    BY <1>1, <1>4 DEF Booked
  <2>2. n \in 0 .. Epoch(now)
    BY <1>1, <1>4 DEF Booked
  <2> QED
    BY <1>2, <2>1, <2>2
<1>5. Booked(e, life, lives, taken)'
  BY <1>1, <1>3, <1>4 DEF Booked
<1> QED
  BY <1>5 DEF IsBooked, Lives

\* A process that ends takes none of its bookings into its next life.
LEMMA BookedRestart ==
  ASSUME CallbackTypeOK, NEW e \in Events, IsBooked(e), NEW r \in Replicas,
         Restart(r), times'[e] = times[e]
  PROVE  IsBooked(e)'
<1>1. PICK life \in [Replicas -> Nat], lives \in SUBSET Lives, taken \in SUBSET (Lives \X Nat) :
        Booked(e, life, lives, taken)
  BY DEF IsBooked
<1> PICK after, more : /\ after = [life EXCEPT ![r] = restarts + 1]
                       /\ more = lives \cup {<<r, restarts + 1>>}
  OBVIOUS
<1>2. restarts \in Nat /\ Cardinality(Replicas) \in Nat
  BY FS_CardinalityType, FeishuCallbackAssumption
  DEF FeishuCallbackAssumption, CallbackTypeOK, TypeOK
<1>3. /\ restarts' = restarts + 1 /\ now' = now
      /\ \A q \in Replicas : q # r => accepted'[q] = accepted[q]
  BY DEF Restart, CallbackTypeOK, TypeOK
<1>4. \A q \in Replicas : after[q] = IF q = r THEN restarts + 1 ELSE life[q]
  OBVIOUS
<1>5. after \in [Replicas -> Nat] /\ more \in SUBSET Lives
  BY <1>2 DEF Lives
<1>6. /\ IsFiniteSet(more) /\ Cardinality(more) <= Cardinality(Replicas) + restarts'
  <2>1. IsFiniteSet(lives) /\ Cardinality(lives) \in Nat
        /\ Cardinality(lives) <= Cardinality(Replicas) + restarts
    BY <1>1, FS_CardinalityType DEF Booked
  <2>2. /\ IsFiniteSet(more)
        /\ Cardinality(more) = Cardinality(lives) \/ Cardinality(more) = Cardinality(lives) + 1
    BY <2>1, FS_AddElement
  <2> QED
    BY <1>2, <1>3, <2>1, <2>2
<1>7. ASSUME NEW q \in Replicas, NEW n \in Nat, <<q, n>> \in more
      PROVE  n <= restarts'
  <2>1. <<q, n>> \in lives => n <= restarts
    BY <1>1 DEF Booked
  <2>2. <<q, n>> \in lives \/ n = restarts + 1
    BY <1>7
  <2> QED
    BY <1>2, <1>3, <2>1, <2>2
<1>8. \A q \in Replicas : <<q, after[q]>> \in more
  BY <1>1, <1>4 DEF Booked
<1>9. ASSUME NEW q \in Replicas, NEW n \in Nat, <<<<q, after[q]>>, n>> \in taken
      PROVE  accepted'[q][DedupKey(e)] # Never /\ n <= Epoch(accepted'[q][DedupKey(e)])
  <2>1. <<q, after[q]>> \in lives
    BY <1>1, <1>9 DEF Booked
  <2>2. q # r
    <3>1. ASSUME q = r PROVE FALSE
      <4>1. <<r, restarts + 1>> \in lives /\ restarts + 1 \in Nat
        BY <1>2, <1>4, <2>1, <3>1
      <4>2. restarts + 1 <= restarts
        BY <1>1, <4>1 DEF Booked
      <4> QED
        BY <1>2, <4>2
    <3> QED
      BY <3>1
  <2>3. after[q] = life[q] /\ accepted'[q] = accepted[q]
    BY <1>3, <1>4, <2>2
  <2> QED
    BY <1>1, <1>9, <2>3 DEF Booked
<1>10. taken \subseteq more \X (0 .. Epoch(now'))
  BY <1>1, <1>3 DEF Booked
<1>11. Booked(e, after, more, taken)'
  BY <1>1, <1>3, <1>6, <1>7, <1>8, <1>9, <1>10 DEF Booked
<1> QED
  BY <1>5, <1>11 DEF IsBooked, Lives

\* A handling of e opens an account: the last acceptance in this life is more than
\* a window ago.
LEMMA BookedAgain ==
  ASSUME CallbackTypeOK, RefusesExactlyWindow, NEW e \in Events, IsBooked(e), NEW r \in Replicas,
         Accept(r, DedupKey(e)), times'[e] = times[e] + 1
  PROVE  IsBooked(e)'
<1>1. PICK life \in [Replicas -> Nat], lives \in SUBSET Lives, taken \in SUBSET (Lives \X Nat) :
        Booked(e, life, lives, taken)
  BY DEF IsBooked
<1> DEFINE Key == DedupKey(e)
           here == <<r, life[r]>>
<1> PICK more : more = taken \cup {<<here, Epoch(now)>>}
  OBVIOUS
<1>2. /\ now \in Nat /\ Epoch(now) \in Nat /\ Key \in Keys /\ now # Never
      /\ accepted[r][Key] \in Nat \cup {Never}
  BY Epochs, FeishuCallbackAssumption DEF FeishuCallbackAssumption, CallbackTypeOK, TypeOK, Never
<1>3. /\ now' = now /\ restarts' = restarts
      /\ \A q \in Replicas : accepted'[q][Key] = IF q = r THEN now ELSE accepted[q][Key]
  BY <1>2 DEF Accept, CallbackTypeOK, TypeOK
<1>4. accepted[r][Key] = Never \/ now - accepted[r][Key] > Window
  <2>1. ~(accepted[r][Key] # Never /\ now - accepted[r][Key] <= Window)
    BY <1>2 DEF RefusesExactlyWindow, Accept, IsDuplicate
  <2> QED
    BY <1>2, <2>1, DedupCacheAssumption DEF DedupCacheAssumption, Never
<1>5. accepted[r][Key] = Never \/ Epoch(accepted[r][Key]) < Epoch(now)
  BY <1>2, <1>4, Epochs
<1>6. accepted[r][Key] # Never => Epoch(accepted[r][Key]) \in Nat
  BY <1>2, Epochs
<1>7. <<here, Epoch(now)>> \notin taken
  <2>1. <<here, Epoch(now)>> \in taken =>
          accepted[r][Key] # Never /\ Epoch(now) <= Epoch(accepted[r][Key])
    BY <1>1, <1>2 DEF Booked
  <2> HIDE DEF Key, here
  <2> QED
    BY <1>2, <1>5, <1>6, <2>1
<1>8. here \in lives /\ here \in Lives
  BY <1>1 DEF Booked
<1>9. IsFiniteSet(more) /\ Cardinality(more) = times'[e]
  <2> HIDE DEF here
  <2> QED
    BY <1>1, <1>7, FS_AddElement DEF Booked
<1>10. more \subseteq lives \X (0 .. Epoch(now')) /\ more \in SUBSET (Lives \X Nat)
  <2>1. Epoch(now) \in 0 .. Epoch(now) /\ taken \subseteq lives \X (0 .. Epoch(now))
    BY <1>1, <1>2 DEF Booked
  <2> HIDE DEF here
  <2> QED
    BY <1>2, <1>3, <1>8, <2>1
<1>11. ASSUME NEW q \in Replicas, NEW n \in Nat, <<<<q, life[q]>>, n>> \in more
       PROVE  accepted'[q][Key] # Never /\ n <= Epoch(accepted'[q][Key])
  <2>1. CASE <<<<q, life[q]>>, n>> \in taken /\ q # r
    <3>1. accepted[q][Key] # Never /\ n <= Epoch(accepted[q][Key])
      BY <1>1, <2>1 DEF Booked
    <3> HIDE DEF Key
    <3> QED
      BY <1>3, <2>1, <3>1
  <2>2. CASE <<<<q, life[q]>>, n>> \in taken /\ q = r
    <3>1. n \in 0 .. Epoch(now)
      BY <1>1, <2>2 DEF Booked
    <3> HIDE DEF Key
    <3> QED
      BY <1>2, <1>3, <2>2, <3>1
  <2>3. CASE <<<<q, life[q]>>, n>> = <<here, Epoch(now)>>
    <3>1. q = r /\ n = Epoch(now)
      BY <2>3
    <3> HIDE DEF Key
    <3> QED
      BY <1>2, <1>3, <3>1
  <2> QED
    BY <1>11, <2>1, <2>2, <2>3
<1>12. Booked(e, life, lives, more)'
  BY <1>1, <1>3, <1>9, <1>10, <1>11 DEF Booked
<1> QED
  BY <1>10, <1>12 DEF IsBooked, Lives

\* Every step keeps the handlings booked.
LEMMA BookedInductive ==
  CallbackTypeOK /\ RefusesExactlyWindow /\ AllBooked /\ [CallbackNext]_callbackVars => AllBooked'
<1> SUFFICES ASSUME CallbackTypeOK, RefusesExactlyWindow, AllBooked, [CallbackNext]_callbackVars,
                    NEW e \in Events
             PROVE  IsBooked(e)'
  BY DEF AllBooked
<1>0. IsBooked(e) /\ now \in Nat /\ now <= now
  BY DEF AllBooked, CallbackTypeOK, TypeOK
<1>1. ASSUME NEW r \in Replicas, Exit(r) \/ Kill(r)
      PROVE  IsBooked(e)'
  <2>1. Restart(r) /\ times'[e] = times[e]
    BY <1>1 DEF Exit, Kill, Gone
  <2> QED
    BY <1>0, <2>1, BookedRestart
<1>2. ASSUME NEW r \in Replicas, NEW f \in Events, NEW w \in Workers, Begin(w, f, r)
      PROVE  IsBooked(e)'
  <2>1. Accept(r, DedupKey(f)) /\ times' = [times EXCEPT ![f] = @ + 1]
    BY <1>2 DEF Begin
  <2>2. CASE f = e
    <3>1. times'[e] = times[e] + 1
      BY <2>1, <2>2 DEF CallbackTypeOK
    <3> QED
      BY <1>0, <2>1, <2>2, <3>1, BookedAgain
  <2>3. CASE f # e
    <3>1. times'[e] = times[e] /\ now' = now /\ restarts' = restarts
      BY <2>1, <2>3 DEF CallbackTypeOK, Accept
    <3>2. \A q \in Replicas : \/ accepted'[q][DedupKey(e)] = accepted[q][DedupKey(e)]
                              \/ accepted'[q][DedupKey(e)] = now
      BY <2>1, FeishuCallbackAssumption DEF FeishuCallbackAssumption, Accept, CallbackTypeOK, TypeOK
    <3> QED
      BY <1>0, <3>1, <3>2, BookedStays
  <2> QED
    BY <2>2, <2>3
<1>3. ASSUME Pass
      PROVE  IsBooked(e)'
  <2>1. /\ now' \in Nat /\ now <= now' /\ restarts' = restarts
        /\ times' = times /\ accepted' = accepted
    BY <1>0, <1>3 DEF Pass, Tick, fate
  <2> QED
    BY <1>0, <2>1, BookedStays
<1>4. CASE UNCHANGED <<now, restarts, times, accepted>>
  BY <1>0, <1>4, BookedStays
<1> QED
  BY <1>1, <1>2, <1>3, <1>4
  DEF CallbackNext, callbackVars, vars, fate, Start, StartFails, Started, StopEarly, Stop, Register,
      Repeat, Refuse, End

\* A click is handled at most once per life of a process and window, however often
\* and to whichever replica Feishu delivers it.
THEOREM HandlingsAreBounded == CallbackSpec => []HandlingsBounded
<1>1. CallbackInit => AllBooked
  BY BookedFirst DEF AllBooked
<1>2. CallbackTypeOK /\ AllBooked => HandlingsBounded
  BY BookedBounds DEF AllBooked, HandlingsBounded
<1> QED
  BY <1>1, <1>2, BookedInductive, CallbackTypeCorrect, CallbackRefusesExactly, PTL DEF CallbackSpec
===============================================================================
