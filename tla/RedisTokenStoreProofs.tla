------------------------ MODULE RedisTokenStoreProofs ------------------------
(***************************************************************************)
(* For every number of goroutines, whatever fails: the Redis store is well *)
(* typed, no token is immortal and none is deleted in the first half of    *)
(* its time; and the store, though its Update is three commands and its    *)
(* SETs may be lost, repeated and late, implements RetriedTokenStore.      *)
(***************************************************************************)
EXTENDS RedisTokenStore, TLAPS

(***************************************************************************)
(* The inductive invariant.                                                *)
(***************************************************************************)
Drawn(t) == base[t] \in Data

\* The fields that no patch sets are those of the registration.
LikeBase(t, d) ==
  \A f \in Shared : (\A patch \in Patches : f \notin DOMAIN patch) => d[f] = base[t][f]

\* A SET that may be carried out at any time without harm.
Sound(x) ==
  /\ Drawn(x.tok) /\ LikeBase(x.tok, x.data)
  /\ TTL > 0 => x.seconds > 0

\* What a goroutine is about follows from where it stands; an Update never SETs a
\* key without an expiry.
Placed(p) ==
  /\ pc[p] = "idle" <=> req[p] = Idle
  /\ pc[p] \in {"ttl", "set"} =>
       req[p].op = "update" /\ got[p] \in Data /\ LikeBase(req[p].tok, got[p])
  /\ pc[p] = "set" /\ TTL > 0 => ttl[p] > 0

\* A token that is being generated is nobody else's business yet.
Private(p) ==
  /\ req[p].op = "gen" =>
       /\ req[p].tok \notin issued
       /\ base[req[p].tok] = req[p].arg
       /\ \A q \in Procs : req[q].op = "gen" /\ req[q].tok = req[p].tok => q = p
  /\ req[p].op \in {"load", "update"} => req[p].tok \in issued

\* What Redis holds and what may still reach it was written for tokens that were drawn.
Written ==
  /\ \A t \in Tokens : keys[t] # Absent => Drawn(t) /\ LikeBase(t, keys[t].data)
  /\ \A x \in strays : Sound(x)

IInv ==
  /\ TypeOK /\ EveryKeyExpires /\ Written
  /\ \A t \in issued : Drawn(t)
  /\ \A p \in Procs : Placed(p) /\ Private(p)

(***************************************************************************)
(* Lemmas about the operators.                                             *)
(***************************************************************************)
\* The kind of a call determines the fields of its request.
LEMMA RequestFields ==
  ASSUME NEW rq \in Request
  PROVE  /\ rq.op \in {"idle", "gen", "load", "update"}
         /\ rq.op = "idle" <=> rq = Idle
         /\ rq.op # "idle" => rq.tok \in Tokens
         /\ rq.op = "gen" => rq.arg \in Registered /\ rq.at \in Nat
         /\ rq.op = "update" => rq.arg \in Patches
BY DEF Request, Idle

\* The requests that Call makes.
LEMMA RequestType ==
  /\ Idle \in Request /\ Idle.op = "idle"
  /\ \A t \in Tokens, d \in Registered, at \in Nat :
       [op |-> "gen", tok |-> t, arg |-> d, at |-> at] \in Request
  /\ \A t \in Tokens : [op |-> "load", tok |-> t] \in Request
  /\ \A t \in Tokens, patch \in Patches :
       [op |-> "update", tok |-> t, arg |-> patch] \in Request
BY DEF Request, Idle

\* The constants are numbers.
LEMMA Numbers == TTL \in Nat /\ MaxTime \in Nat /\ Unit \in Nat \ {0} /\ Forever \notin Nat
BY TokenCallsAssumption, RedisTokenStoreAssumption
   DEF TokenCallsAssumption, RedisTokenStoreAssumption

\* An integer quotient of an integer.
LEMMA QuotientType ==
  ASSUME NEW a \in Int, NEW b \in Nat \ {0}
  PROVE  a \div b \in Int
OBVIOUS

\* A product of naturals.
LEMMA ProductType ==
  ASSUME NEW a \in Nat, NEW b \in Nat
  PROVE  a * b \in Nat
OBVIOUS

\* A patch keeps the type of the data.
LEMMA MergeType ==
  ASSUME NEW d \in Data, NEW patch \in Patches
  PROVE  Merge(d, patch) \in Data
BY TokenCallsAssumption DEF TokenCallsAssumption, Merge, Data

\* The answers to the calls.
LEMMA ResultType ==
  /\ Done \in Result /\ Failed \in Result
  /\ \A d \in Data : Found(d) \in Result
BY DEF Done, Failed, Found, Result

\* A key has data, and an expiry that is a number unless it is forever.
LEMMA KeyFields ==
  ASSUME TypeOK, NEW t \in Tokens, keys[t] # Absent
  PROVE  /\ keys[t] \in Key /\ keys[t].data \in Data
         /\ keys[t].exp \in Nat \/ keys[t].exp = Forever
BY DEF TypeOK, Key

\* What Update takes for the remaining lifetime is a number of seconds, and is not
\* zero unless TTL is.
LEMMA LifetimesType ==
  ASSUME TypeOK, NEW t \in Tokens, NEW seconds \in Lifetimes(t)
  PROVE  seconds \in Nat /\ (TTL > 0 => seconds > 0)
<1>1. Remaining(t) \in Int
  <2>1. CASE keys[t] = Absent
    BY <2>1 DEF Remaining
  <2>2. CASE keys[t] # Absent /\ keys[t].exp = Forever
    BY <2>2 DEF Remaining
  <2>3. CASE keys[t] # Absent /\ keys[t].exp # Forever
    <3>1. keys[t].exp \in Nat /\ now \in Nat
      BY <2>3, KeyFields DEF TypeOK
    <3>2. 2 * (keys[t].exp - now) + Unit \in Int /\ 2 * Unit \in Nat \ {0}
      BY <3>1, Numbers
    <3> QED
      BY <2>3, <3>2, QuotientType DEF Remaining
  <2> QED
    BY <2>1, <2>2, <2>3
<1> QED
  BY <1>1, Numbers DEF Lifetimes

\* A SET has the fields of one, and the data of its token.
LEMMA WriteFields ==
  ASSUME NEW x \in Write
  PROVE  x.tok \in Tokens /\ x.data \in Data /\ x.seconds \in Nat
BY DEF Write

\* The registrations are data, and the nil map is none.
LEMMA RegisteredType == Registered \subseteq Data /\ NoData \notin Data
BY TokenCallsAssumption DEF TokenCallsAssumption

(***************************************************************************)
(* Type correctness, and what the keys are like.                           *)
(***************************************************************************)
\* A SET of data leaves well typed keys, and an expiry unless it is for 0 seconds.
LEMMA SetType ==
  ASSUME TypeOK, NEW x \in Write, Set(x)
  PROVE  /\ keys' \in [Tokens -> Key \cup {Absent}]
         /\ keys'[x.tok] # Absent /\ keys'[x.tok].data = x.data
         /\ x.seconds > 0 => keys'[x.tok].exp # Forever
         /\ \A u \in Tokens \ {x.tok} : keys'[u] = keys[u]
<1> DEFINE exp == IF x.seconds = 0 THEN Forever ELSE now + x.seconds * Unit
           new == [data |-> x.data, exp |-> exp]
<1>0. x.tok \in Tokens /\ x.data \in Data /\ x.seconds \in Nat
  BY WriteFields
<1>1. exp \in Nat \cup {Forever} /\ (x.seconds > 0 => exp # Forever)
  <2>1. x.seconds * Unit \in Nat
    BY <1>0, Numbers, ProductType
  <2>2. now + x.seconds * Unit \in Nat
    BY <2>1 DEF TypeOK
  <2> QED
    BY <1>0, <2>2, Numbers
<1> HIDE DEF exp
<1>2. new \in Key /\ new.data = x.data /\ new.exp = exp
  BY <1>0, <1>1 DEF Key
<1>3. new # Absent
  BY <1>2, RedisTokenStoreAssumption DEF RedisTokenStoreAssumption, Key
<1>4. keys' = [keys EXCEPT ![x.tok] = new] /\ keys \in [Tokens -> Key \cup {Absent}]
  BY DEF Set, TypeOK, exp
<1> HIDE DEF new
<1> QED
  BY <1>0, <1>1, <1>2, <1>3, <1>4

\* A call that returns leaves its goroutine idle, and the others alone.
LEMMA ReturnStep ==
  ASSUME TypeOK, NEW p \in Procs, NEW result \in Result, Return(p, result)
  PROVE  /\ req' \in [Procs -> Request]
         /\ res' \in [Procs -> Result]
         /\ pc' \in [Procs -> {"idle", "start", "ttl", "set"}]
         /\ got' \in [Procs -> Data \cup {NoData}]
         /\ ttl' \in [Procs -> Nat]
         /\ pc'[p] = "idle" /\ req'[p] = Idle
         /\ \A q \in Procs \ {p} :
              pc'[q] = pc[q] /\ req'[q] = req[q] /\ got'[q] = got[q] /\ ttl'[q] = ttl[q]
BY RequestType DEF TypeOK, Return

\* The SET of GenToken is sound.
LEMMA GenWriteSound ==
  ASSUME IInv, NEW p \in Procs, req[p].op = "gen"
  PROVE  /\ GenWrite(p) \in Write /\ Sound(GenWrite(p))
         /\ GenWrite(p).tok = req[p].tok /\ GenWrite(p).data = req[p].arg
         /\ GenWrite(p).seconds = TTL
<1>1. req[p].tok \in Tokens /\ req[p].arg \in Data /\ TTL \in Nat
  BY RequestFields, RegisteredType, Numbers DEF IInv, TypeOK
<1>2. base[req[p].tok] = req[p].arg
  BY DEF IInv, Private
<1> QED
  BY <1>1, <1>2 DEF GenWrite, Write, Sound, Drawn, LikeBase

\* So is the SET of an Update.
LEMMA UpdateWriteSound ==
  ASSUME IInv, NEW p \in Procs, pc[p] = "set"
  PROVE  /\ UpdateWrite(p) \in Write /\ Sound(UpdateWrite(p))
         /\ UpdateWrite(p).tok = req[p].tok /\ UpdateWrite(p).seconds = ttl[p]
         /\ UpdateWrite(p).data = Merge(got[p], req[p].arg)
<1>1. /\ req[p].op = "update" /\ req[p] \in Request /\ got[p] \in Data
      /\ LikeBase(req[p].tok, got[p]) /\ ttl[p] \in Nat /\ (TTL > 0 => ttl[p] > 0)
      /\ req[p].tok \in issued
  BY DEF IInv, TypeOK, Placed, Private
<1>2. /\ req[p].tok \in Tokens /\ req[p].arg \in Patches
      /\ Merge(got[p], req[p].arg) \in Data /\ Drawn(req[p].tok)
  BY <1>1, RequestFields, MergeType DEF IInv
<1>3. LikeBase(req[p].tok, Merge(got[p], req[p].arg))
  <2> SUFFICES ASSUME NEW f \in Shared, \A patch \in Patches : f \notin DOMAIN patch
               PROVE  Merge(got[p], req[p].arg)[f] = base[req[p].tok][f]
    BY DEF LikeBase
  <2>1. f \in Fields /\ f \notin DOMAIN req[p].arg
    BY <1>2 DEF Shared
  <2>2. Merge(got[p], req[p].arg)[f] = got[p][f]
    BY <2>1 DEF Merge
  <2> QED
    BY <1>1, <2>2 DEF LikeBase
<1> QED
  BY <1>1, <1>2, <1>3 DEF UpdateWrite, Write, Sound

\* Redis keeps in order what it holds if it carries out no SET but sound ones, and
\* none but sound ones go astray.
LEMMA RedisKeeps ==
  ASSUME IInv, UNCHANGED base,
         keys' = keys \/ \E x \in Write : Sound(x) /\ Set(x),
         \A y \in strays' : y \in strays \/ (y \in Write /\ Sound(y))
  PROVE  /\ keys' \in [Tokens -> Key \cup {Absent}] /\ strays' \subseteq Write
         /\ EveryKeyExpires' /\ Written'
<1>0. TypeOK /\ strays \subseteq Write /\ \A y \in strays : Sound(y)
  BY DEF IInv, TypeOK, Written
<1>1. strays' \subseteq Write /\ \A y \in strays' : Sound(y)'
  BY <1>0 DEF Sound, Drawn, LikeBase
<1>2. CASE keys' = keys
  <2>1. keys' \in [Tokens -> Key \cup {Absent}] /\ EveryKeyExpires'
    BY <1>0, <1>2 DEF IInv, TypeOK, EveryKeyExpires
  <2>2. Written'
    BY <1>1, <1>2 DEF IInv, Written, Drawn, LikeBase
  <2> QED
    BY <1>1, <2>1, <2>2
<1>3. CASE \E x \in Write : Sound(x) /\ Set(x)
  <2>1. PICK x \in Write : Sound(x) /\ Set(x)
    BY <1>3
  <2>2. /\ keys' \in [Tokens -> Key \cup {Absent}]
        /\ keys'[x.tok].data = x.data
        /\ x.seconds > 0 => keys'[x.tok].exp # Forever
        /\ \A u \in Tokens \ {x.tok} : keys'[u] = keys[u]
    BY <1>0, <2>1, SetType
  <2>3. EveryKeyExpires'
    BY <2>1, <2>2 DEF IInv, EveryKeyExpires, Sound
  <2>4. \A t \in Tokens : keys'[t] # Absent => Drawn(t)' /\ LikeBase(t, keys[t].data)'
    <3> SUFFICES ASSUME NEW t \in Tokens, keys'[t] # Absent
                 PROVE  Drawn(t)' /\ LikeBase(t, keys[t].data)'
      OBVIOUS
    <3>1. CASE t = x.tok
      BY <2>1, <2>2, <3>1 DEF Sound, Drawn, LikeBase
    <3>2. CASE t # x.tok
      BY <2>2, <3>2 DEF IInv, Written, Drawn, LikeBase
    <3> QED
      BY <3>1, <3>2
  <2> QED
    BY <1>1, <2>2, <2>3, <2>4 DEF Written
<1> QED
  BY <1>2, <1>3

\* The calls of the goroutines that a step leaves alone stay as they are.
LEMMA Kept ==
  ASSUME NEW p \in Procs, Placed(p), Private(p), req[p] \in Request,
         \A t \in issued : Drawn(t), \A t \in Tokens : Drawn(t) => base'[t] = base[t],
         pc'[p] = pc[p], req'[p] = req[p], got'[p] = got[p], ttl'[p] = ttl[p],
         issued \subseteq issued', req[p].op = "gen" => req[p].tok \notin issued',
         \A q \in Procs : \/ q = p \/ req'[q] = req[q] \/ req'[q].op # "gen"
                          \/ ~Drawn(req'[q].tok)
  PROVE  Placed(p)' /\ Private(p)'
<1>1. /\ req[p].op = "update" => req[p].tok \in Tokens /\ Drawn(req[p].tok)
      /\ req[p].op = "gen" => /\ req[p].tok \in Tokens /\ Drawn(req[p].tok)
                              /\ base'[req[p].tok] = req[p].arg
  BY RequestFields, RegisteredType DEF Private, Drawn
<1>2. Placed(p)'
  BY <1>1 DEF Placed, LikeBase
<1>3. Private(p)'
  BY <1>1 DEF Private
<1> QED
  BY <1>2, <1>3

\* A goroutine whose call has returned has no duties.
LEMMA IdleKept ==
  ASSUME NEW p \in Procs, pc'[p] = "idle", req'[p] = Idle
  PROVE  Placed(p)' /\ Private(p)'
BY RequestType DEF Placed, Private

\* A call is made with a request of its own.
LEMMA CallRequest ==
  ASSUME TypeOK, NEW p \in Procs, Call(p)
  PROVE  \E rq \in Request :
           /\ req' = [req EXCEPT ![p] = rq] /\ rq # Idle
           /\ rq.op = "gen" => /\ ~Drawn(rq.tok) /\ base' = [base EXCEPT ![rq.tok] = rq.arg]
                               /\ born' = [born EXCEPT ![rq.tok] = now]
           /\ rq.op # "gen" => UNCHANGED <<base, born>> /\ rq.tok \in issued
<1>1. CASE CallGen(p)
  <2>1. PICK t \in Tokens, d \in Registered :
          /\ Fresh(t)
          /\ req' = [req EXCEPT ![p] = [op |-> "gen", tok |-> t, arg |-> d, at |-> now]]
          /\ base' = [base EXCEPT ![t] = d]
          /\ born' = [born EXCEPT ![t] = now]
    BY <1>1 DEF CallGen
  <2> DEFINE rq == [op |-> "gen", tok |-> t, arg |-> d, at |-> now]
  <2>2. /\ rq \in Request /\ rq # Idle /\ rq.op = "gen" /\ rq.tok = t /\ rq.arg = d
    BY RequestType DEF TypeOK
  <2>3. ~Drawn(t)
    BY <2>1, RegisteredType DEF Fresh, Drawn
  <2> HIDE DEF rq
  <2> QED
    BY <2>1, <2>2, <2>3 DEF rq
<1>2. CASE CallOther(p)
  <2>1. PICK t \in issued :
          \/ req' = [req EXCEPT ![p] = [op |-> "load", tok |-> t]]
          \/ \E patch \in Patches :
               req' = [req EXCEPT ![p] = [op |-> "update", tok |-> t, arg |-> patch]]
    BY <1>2 DEF CallOther
  <2>2. t \in Tokens /\ UNCHANGED <<base, born>>
    BY <1>2 DEF CallOther, TypeOK
  <2>3. CASE req' = [req EXCEPT ![p] = [op |-> "load", tok |-> t]]
    <3> DEFINE rq == [op |-> "load", tok |-> t]
    <3>1. rq \in Request /\ rq # Idle /\ rq.op # "gen" /\ rq.tok = t
      BY <2>2, RequestType
    <3> HIDE DEF rq
    <3> QED
      BY <2>2, <2>3, <3>1 DEF rq
  <2>4. ASSUME NEW patch \in Patches,
               req' = [req EXCEPT ![p] = [op |-> "update", tok |-> t, arg |-> patch]]
        PROVE  \E rq \in Request :
                 /\ req' = [req EXCEPT ![p] = rq] /\ rq # Idle
                 /\ rq.op # "gen" /\ rq.tok \in issued
    <3> DEFINE rq == [op |-> "update", tok |-> t, arg |-> patch]
    <3>1. rq \in Request /\ rq # Idle /\ rq.op # "gen" /\ rq.tok = t
      BY <2>2, RequestType
    <3> HIDE DEF rq
    <3> QED
      BY <2>4, <3>1 DEF rq
  <2> QED
    BY <2>1, <2>2, <2>3, <2>4
<1> QED
  BY <1>1, <1>2 DEF Call

\* Call keeps the invariant.
LEMMA CallStep ==
  ASSUME IInv, NEW p \in Procs, Call(p)
  PROVE  IInv'
<1>1. /\ TypeOK /\ pc[p] = "idle" /\ pc' = [pc EXCEPT ![p] = "start"]
      /\ res' = [res EXCEPT ![p] = Failed]
      /\ UNCHANGED <<now, keys, issued, strays, got, ttl>>
  BY DEF IInv, Call
<1>2. PICK rq \in Request :
        /\ req' = [req EXCEPT ![p] = rq] /\ rq # Idle
        /\ rq.op = "gen" => /\ ~Drawn(rq.tok) /\ base' = [base EXCEPT ![rq.tok] = rq.arg]
                            /\ born' = [born EXCEPT ![rq.tok] = now]
        /\ rq.op # "gen" => UNCHANGED <<base, born>> /\ rq.tok \in issued
  BY <1>1, CallRequest
<1>3. req' \in [Procs -> Request] /\ req'[p] = rq /\ \A q \in Procs \ {p} : req'[q] = req[q]
  BY <1>1, <1>2 DEF TypeOK
<1>4. pc'[p] = "start" /\ \A q \in Procs \ {p} : pc'[q] = pc[q]
  BY <1>1 DEF TypeOK
<1>5. /\ base' \in [Tokens -> Data \cup {NoData}] /\ born' \in [Tokens -> Nat]
      /\ \A t \in Tokens : Drawn(t) => base'[t] = base[t]
      /\ rq.op = "gen" => rq.tok \in Tokens /\ base'[rq.tok] = rq.arg
  BY <1>1, <1>2, RequestFields, RegisteredType DEF TypeOK
<1>6. TypeOK'
  BY <1>1, <1>3, <1>4, <1>5, ResultType DEF TypeOK
<1>7. EveryKeyExpires'
  BY <1>1 DEF IInv, EveryKeyExpires
<1>8. Written' /\ \A t \in issued' : Drawn(t)'
  <2>1. \A t \in Tokens : Drawn(t) => Drawn(t)'
    BY <1>5 DEF Drawn
  <2>2. ASSUME NEW t \in Tokens, keys'[t] # Absent
        PROVE  Drawn(t)' /\ LikeBase(t, keys[t].data)'
    BY <1>1, <1>5, <2>1, <2>2 DEF IInv, Written, LikeBase
  <2>3. ASSUME NEW x \in strays'
        PROVE  Sound(x)'
    <3>1. x.tok \in Tokens /\ Sound(x)
      BY <1>1, <2>3, WriteFields DEF IInv, Written, TypeOK
    <3> QED
      BY <1>5, <2>1, <3>1 DEF Sound, LikeBase
  <2>4. \A t \in issued' : Drawn(t)'
    BY <1>1, <2>1 DEF IInv, TypeOK
  <2> QED
    BY <2>2, <2>3, <2>4 DEF Written
<1>9. Placed(p)'
  BY <1>2, <1>3, <1>4 DEF Placed
<1>10. ASSUME NEW q \in Procs, q # p
       PROVE  Placed(q)' /\ Private(q)'
  <2>1. /\ Placed(q) /\ Private(q) /\ req[q] \in Request /\ \A t \in issued : Drawn(t)
        /\ pc'[q] = pc[q] /\ req'[q] = req[q] /\ got'[q] = got[q] /\ ttl'[q] = ttl[q]
        /\ issued \subseteq issued' /\ (req[q].op = "gen" => req[q].tok \notin issued')
    BY <1>1, <1>3, <1>4, <1>10 DEF IInv, TypeOK, Private
  <2>2. \A r \in Procs : r = q \/ req'[r] = req[r] \/ req'[r].op # "gen" \/ ~Drawn(req'[r].tok)
    BY <1>2, <1>3
  <2> QED
    BY <1>5, <2>1, <2>2, Kept
<1>11. Private(p)'
  <2>1. ASSUME rq.op = "gen", NEW q \in Procs, q # p, req'[q].op = "gen"
        PROVE  req'[q].tok # rq.tok
    <3>1. req'[q] = req[q] /\ req[q] \in Request /\ Private(q)
      BY <1>1, <1>3, <2>1 DEF IInv, TypeOK
    <3>2. Drawn(req[q].tok)
      BY <2>1, <3>1, RequestFields, RegisteredType DEF Private, Drawn
    <3> QED
      BY <1>2, <2>1, <3>1, <3>2
  <2>2. rq.op = "gen" => rq.tok \notin issued
    BY <1>2 DEF IInv
  <2> QED
    BY <1>1, <1>2, <1>3, <1>5, <2>1, <2>2, RequestFields DEF Private
<1> QED
  BY <1>6, <1>7, <1>8, <1>9, <1>10, <1>11 DEF IInv

\* A call returns, with the keys and the issued tokens in order.
LEMMA ReturnKeeps ==
  ASSUME IInv, NEW p \in Procs, NEW result \in Result, Return(p, result),
         UNCHANGED <<now, base, born>>,
         keys' = keys \/ \E x \in Write : Sound(x) /\ Set(x),
         \A y \in strays' : y \in strays \/ (y \in Write /\ Sound(y)),
         issued \subseteq issued',
         \A t \in issued' : t \in issued \/ (req[p].op = "gen" /\ t = req[p].tok)
  PROVE  IInv'
<1>1. /\ req' \in [Procs -> Request]
      /\ res' \in [Procs -> Result]
      /\ pc' \in [Procs -> {"idle", "start", "ttl", "set"}]
      /\ got' \in [Procs -> Data \cup {NoData}]
      /\ ttl' \in [Procs -> Nat]
      /\ pc'[p] = "idle" /\ req'[p] = Idle
      /\ \A q \in Procs \ {p} :
           pc'[q] = pc[q] /\ req'[q] = req[q] /\ got'[q] = got[q] /\ ttl'[q] = ttl[q]
  BY ReturnStep DEF IInv
<1>2. /\ keys' \in [Tokens -> Key \cup {Absent}] /\ strays' \subseteq Write
      /\ EveryKeyExpires' /\ Written'
  BY RedisKeeps
<1>3. issued' \subseteq Tokens /\ \A t \in issued' : Drawn(t)'
  <2>1. req[p].op = "gen" => req[p].tok \in Tokens /\ Drawn(req[p].tok)
    BY RequestFields, RegisteredType DEF IInv, TypeOK, Private, Drawn
  <2> QED
    BY <2>1 DEF IInv, TypeOK, Drawn
<1>4. TypeOK'
  BY <1>1, <1>2, <1>3 DEF TypeOK, IInv
<1>5. ASSUME NEW q \in Procs, q # p
      PROVE  Placed(q)' /\ Private(q)'
  <2>1. req[q].op = "gen" => req[q].tok \notin issued'
    <3>1. req[q].op = "gen" =>
            /\ req[q].tok \notin issued
            /\ req[p].op = "gen" /\ req[p].tok = req[q].tok => p = q
      BY DEF IInv, Private
    <3> QED
      BY <1>5, <3>1
  <2>2. /\ Placed(q) /\ Private(q) /\ req[q] \in Request /\ \A t \in issued : Drawn(t)
        /\ \A t \in Tokens : Drawn(t) => base'[t] = base[t]
    BY DEF IInv, TypeOK
  <2>3. \A r \in Procs : req'[r] = req[r] \/ req'[r].op # "gen"
    BY <1>1, RequestType
  <2> QED
    BY <1>1, <1>5, <2>1, <2>2, <2>3, Kept
<1>6. Placed(p)' /\ Private(p)'
  BY <1>1, IdleKept
<1> QED
  BY <1>2, <1>3, <1>4, <1>5, <1>6 DEF IInv

\* A step of Redis, or of a goroutine that tries again.
LEMMA QuietStep ==
  ASSUME IInv, UNCHANGED <<now, issued, base, born, req, res, pc, got, ttl>>,
         keys' = keys \/ \E x \in Write : Sound(x) /\ Set(x),
         \A y \in strays' : y \in strays \/ (y \in Write /\ Sound(y))
  PROVE  IInv'
<1>1. /\ keys' \in [Tokens -> Key \cup {Absent}] /\ strays' \subseteq Write
      /\ EveryKeyExpires' /\ Written'
  BY RedisKeeps
<1>2. TypeOK' /\ \A t \in issued' : Drawn(t)'
  BY <1>1 DEF IInv, TypeOK, Drawn
<1>3. \A p \in Procs : Placed(p)' /\ Private(p)'
  BY DEF IInv, Placed, Private, LikeBase
<1> QED
  BY <1>1, <1>2, <1>3 DEF IInv

\* An Update goes on to its next command.
LEMMA UpdateKeeps ==
  ASSUME IInv, NEW p \in Procs, UNCHANGED <<now, keys, issued, strays, req, res, base, born>>,
         req[p].op = "update", NEW l \in {"ttl", "set"}, pc' = [pc EXCEPT ![p] = l],
         NEW d \in Data, LikeBase(req[p].tok, d), got' = [got EXCEPT ![p] = d],
         NEW seconds \in Nat, ttl' = [ttl EXCEPT ![p] = seconds],
         l = "set" /\ TTL > 0 => seconds > 0
  PROVE  IInv'
<1>1. TypeOK' /\ EveryKeyExpires' /\ Written' /\ \A t \in issued' : Drawn(t)'
  <2>1. TypeOK' /\ EveryKeyExpires'
    BY DEF IInv, TypeOK, EveryKeyExpires
  <2>2. Written' /\ \A t \in issued' : Drawn(t)'
    BY DEF IInv, Written, Sound, Drawn, LikeBase
  <2> QED
    BY <2>1, <2>2
<1>2. ASSUME NEW q \in Procs, q # p
      PROVE  Placed(q)' /\ Private(q)'
  <2>1. /\ Placed(q) /\ Private(q) /\ req[q] \in Request /\ \A t \in issued : Drawn(t)
        /\ pc'[q] = pc[q] /\ got'[q] = got[q] /\ ttl'[q] = ttl[q]
    BY <1>2 DEF IInv, TypeOK
  <2>2. req[q].op = "gen" => req[q].tok \notin issued
    BY <2>1 DEF Private
  <2> QED
    BY <2>1, <2>2, Kept
<1>3. Private(p)'
  BY DEF IInv, Private
<1>4. Placed(p)'
  <2>1. pc'[p] = l /\ got'[p] = d /\ ttl'[p] = seconds
    BY DEF IInv, TypeOK
  <2>2. req[p] # Idle
    BY RequestType
  <2> QED
    BY <2>1, <2>2 DEF Placed, LikeBase
<1> QED
  BY <1>1, <1>2, <1>3, <1>4 DEF IInv

\* GenToken returns a token that nobody else draws.
LEMMA GenStep ==
  ASSUME IInv, NEW p \in Procs, Gen(p)
  PROVE  IInv'
<1>1. req[p].op = "gen" /\ UNCHANGED <<now, base, born>>
  BY DEF Gen
<1>2. GenWrite(p) \in Write /\ Sound(GenWrite(p))
  BY <1>1, GenWriteSound
<1>3. /\ keys' = keys \/ \E x \in Write : Sound(x) /\ Set(x)
      /\ \A y \in strays' : y \in strays \/ (y \in Write /\ Sound(y))
  BY <1>2 DEF Gen, Unanswered
<1>4. CASE Return(p, Done) /\ issued' = issued \cup {req[p].tok}
  BY <1>1, <1>3, <1>4, ReturnKeeps, ResultType
<1>5. CASE SendAgain
  BY <1>1, <1>3, <1>5, QuietStep DEF SendAgain
<1> QED
  BY <1>4, <1>5 DEF Gen

\* The commands of Update.
LEMMA UpdateStep ==
  ASSUME IInv, NEW p \in Procs, UpdateGet(p) \/ UpdateTtl(p) \/ UpdateSet(p)
  PROVE  IInv'
<1>0. /\ TypeOK /\ Placed(p) /\ Private(p) /\ req[p] \in Request
      /\ req[p].op = "update" /\ req[p].tok \in Tokens
  <2>1. TypeOK /\ Placed(p) /\ Private(p) /\ req[p] \in Request
    BY DEF IInv, TypeOK
  <2>2. req[p].op = "update"
    BY <2>1 DEF UpdateGet, UpdateTtl, UpdateSet, Placed
  <2> QED
    BY <2>1, <2>2, RequestFields
<1>1. CASE UpdateGet(p)
  <2> PICK t : t = req[p].tok
    OBVIOUS
  <2>1. CASE /\ keys[t] # Absent /\ got' = [got EXCEPT ![p] = keys[t].data]
             /\ pc' = [pc EXCEPT ![p] = "ttl"] /\ UNCHANGED <<req, res, ttl>>
    <3>1. keys[t].data \in Data /\ ttl[p] \in Nat /\ ttl' = [ttl EXCEPT ![p] = ttl[p]]
      BY <1>0, <2>1, KeyFields DEF TypeOK
    <3>2. UNCHANGED <<now, keys, issued, strays, req, res, base, born>>
      BY <1>1, <2>1 DEF UpdateGet
    <3>3. LikeBase(t, keys[t].data)
      BY <1>0, <2>1 DEF IInv, Written
    <3> QED
      BY <1>0, <2>1, <3>1, <3>2, <3>3, UpdateKeeps
  <2>2. CASE Return(p, Failed)
    BY <1>1, <2>2, ReturnKeeps, ResultType DEF UpdateGet
  <2> QED
    BY <1>1, <2>1, <2>2 DEF UpdateGet
<1>2. CASE UpdateTtl(p)
  <2>1. PICK seconds \in Lifetimes(req[p].tok) : ttl' = [ttl EXCEPT ![p] = seconds]
    BY <1>2 DEF UpdateTtl
  <2>2. seconds \in Nat /\ (TTL > 0 => seconds > 0)
    BY <1>0, <2>1, LifetimesType
  <2>3. got[p] \in Data /\ got' = [got EXCEPT ![p] = got[p]] /\ LikeBase(req[p].tok, got[p])
    BY <1>0, <1>2 DEF UpdateTtl, Placed, TypeOK
  <2>4. /\ pc' = [pc EXCEPT ![p] = "set"]
        /\ UNCHANGED <<now, keys, issued, strays, req, res, base, born>>
    BY <1>2 DEF UpdateTtl
  <2> QED
    BY <1>0, <2>1, <2>2, <2>3, <2>4, UpdateKeeps
<1>3. CASE UpdateSet(p)
  <2>1. UpdateWrite(p) \in Write /\ Sound(UpdateWrite(p))
    BY <1>3, UpdateWriteSound DEF UpdateSet
  <2>2. /\ keys' = keys \/ \E x \in Write : Sound(x) /\ Set(x)
        /\ \A y \in strays' : y \in strays \/ (y \in Write /\ Sound(y))
        /\ UNCHANGED <<now, issued, base, born>>
    BY <1>3, <2>1 DEF UpdateSet, Unanswered
  <2>3. CASE SendAgain
    BY <2>2, <2>3, QuietStep DEF SendAgain
  <2>4. CASE \E result \in Result : Return(p, result)
    BY <2>2, <2>4, ReturnKeeps
  <2> QED
    BY <1>3, <2>3, <2>4, ResultType DEF UpdateSet
<1> QED
  BY <1>1, <1>2, <1>3

\* A SET is carried out that nobody waits for.
LEMMA StrayStep ==
  ASSUME IInv, Stray
  PROVE  IInv'
<1>1. PICK x \in strays : Set(x) /\ strays' \in {strays, strays \ {x}}
  BY DEF Stray
<1>2. x \in Write /\ Sound(x)
  BY DEF IInv, TypeOK, Written
<1>3. UNCHANGED <<now, issued, base, born, req, res, pc, got, ttl>>
  BY DEF Stray
<1> QED
  BY <1>1, <1>2, <1>3, QuietStep

\* Time goes on, and Redis deletes keys.
LEMMA TickStep ==
  ASSUME IInv, Tick
  PROVE  IInv'
<1>1. /\ TypeOK /\ now' = now + 1 /\ now \in Nat
      /\ UNCHANGED <<issued, strays, req, res, pc, got, ttl, base, born>>
      /\ \A t \in Tokens : keys'[t] \in {Absent, keys[t]}
      /\ keys' = [t \in Tokens |-> keys'[t]]
  BY DEF IInv, TypeOK, Tick
<1>2. keys' \in [Tokens -> Key \cup {Absent}]
  BY <1>1 DEF TypeOK
<1>3. TypeOK' /\ EveryKeyExpires'
  BY <1>1, <1>2 DEF IInv, TypeOK, EveryKeyExpires
<1>4. Written' /\ \A t \in issued' : Drawn(t)'
  BY <1>1 DEF IInv, Written, Sound, Drawn, LikeBase
<1>5. \A p \in Procs : Placed(p)' /\ Private(p)'
  BY <1>1 DEF IInv, Placed, Private, LikeBase
<1> QED
  BY <1>3, <1>4, <1>5 DEF IInv

\* Every step keeps the invariant.
LEMMA InvStep == IInv /\ [Next]_vars => IInv'
<1> SUFFICES ASSUME IInv, [Next]_vars
             PROVE  IInv'
  OBVIOUS
<1>1. ASSUME NEW p \in Procs, Load(p)
      PROVE  IInv'
  <2>1. PICK result \in Result : Return(p, result)
    <3>1. CASE Return(p, Failed)
      BY <3>1, ResultType
    <3>2. CASE keys[req[p].tok] # Absent /\ Return(p, Found(keys[req[p].tok].data))
      <4>1. req[p].tok \in Tokens /\ TypeOK
        BY <1>1, RequestFields DEF IInv, TypeOK, Load
      <4> QED
        BY <3>2, <4>1, KeyFields, ResultType
    <3> QED
      BY <1>1, <3>1, <3>2 DEF Load
  <2> QED
    BY <1>1, <2>1, ReturnKeeps DEF Load
<1>2. ASSUME NEW p \in Procs, Die(p)
      PROVE  IInv'
  BY <1>2, ReturnKeeps, ResultType DEF Die
<1>3. CASE UNCHANGED vars
  BY <1>3, QuietStep DEF vars
<1> QED
  BY <1>1, <1>2, <1>3, CallStep, GenStep, UpdateStep, StrayStep, TickStep DEF Next

\* The initial states satisfy the invariant.
LEMMA InitInvariant == Init => IInv
<1> SUFFICES ASSUME Init
             PROVE  IInv
  OBVIOUS
<1>1. TypeOK
  BY RequestType, ResultType DEF Init, TypeOK
<1>2. EveryKeyExpires /\ Written /\ \A t \in issued : Drawn(t)
  BY DEF Init, EveryKeyExpires, Written
<1>3. \A p \in Procs : Placed(p) /\ Private(p)
  BY RequestType DEF Init, Placed, Private
<1> QED
  BY <1>1, <1>2, <1>3 DEF IInv

\* The invariant holds in every state.
LEMMA Invariant == Spec => []IInv
BY InitInvariant, InvStep, PTL DEF Spec

(***************************************************************************)
(* The theorems.                                                           *)
(***************************************************************************)
\* The variables stay well typed; in particular Update writes nothing but data of
\* the token, whatever came between its commands.
THEOREM RedisTypeCorrect == Spec => []TypeOK
<1>1. IInv => TypeOK
  BY DEF IInv
<1> QED
  BY <1>1, Invariant, PTL

\* No token is immortal: whatever TTL replies, and whether a command fails, no
\* Update drops the expiry of a key.
THEOREM KeysExpire == Spec => []EveryKeyExpires
<1>1. IInv => EveryKeyExpires
  BY DEF IInv
<1> QED
  BY <1>1, Invariant, PTL

(***************************************************************************)
(* How early a key can be deleted.  TTL answers in whole seconds, so that  *)
(* an Update may shorten the life of a key by half a second; but not by    *)
(* more than has passed since the last SET, or it rounds up.  However many *)
(* Updates there are, they cost a key at most half of its time.            *)
(***************************************************************************)
\* The key was SET at some tick s for m seconds, and what it had lost by then
\* is no more than twice its age.
Due(t) ==
  keys[t] # Absent /\ keys[t].exp # Forever =>
    \E s, m \in Nat :
      /\ born[t] <= s /\ s <= now
      /\ keys[t].exp = s + m * Unit
      /\ m * Unit + 2 * (s - born[t]) >= TTL * Unit

\* The same of a SET for a token that was drawn, whenever it is carried out.
DueWrite(x) ==
  Drawn(x.tok) /\ x.seconds * Unit + 2 * (now - born[x.tok]) >= TTL * Unit

\* And of what an Update is about to SET.
DueSet(p) ==
  pc[p] = "set" => ttl[p] * Unit + 2 * (now - born[req[p].tok]) >= TTL * Unit

Timed ==
  /\ \A t \in Tokens : Drawn(t) => born[t] <= now
  /\ \A t \in Tokens : Due(t)
  /\ \A x \in strays : DueWrite(x)
  /\ \A p \in Procs : DueSet(p)

\* Of products by the same number the order is that of the factors.
LEMMA ProductOrder ==
  ASSUME NEW u \in Nat \ {0}, NEW a \in Int, NEW b \in Int
  PROVE  /\ a * u \in Int
         /\ (a + 1) * u = a * u + u
         /\ a <= b => a * u <= b * u
         /\ a * u < b * u => a < b
OBVIOUS

\* A quotient is the integer next below.
LEMMA QuotientBound ==
  ASSUME NEW a \in Int, NEW b \in Nat \ {0}
  PROVE  /\ (a \div b) * b <= a
         /\ a < ((a \div b) + 1) * b
OBVIOUS

\* To round m seconds less d ticks to whole seconds costs at most d more ticks.
LEMMA Rounded ==
  ASSUME NEW u \in Nat \ {0}, NEW m \in Nat, NEW d \in Nat, NEW n \in Int,
         n = (2 * (m * u - d) + u) \div (2 * u)
  PROVE  n * u + 2 * d >= m * u
<1>1. m * u \in Int /\ n * u \in Int /\ (n + 1) * u = n * u + u
  BY ProductOrder
<1>2. PICK a \in Int : a = 2 * (m * u - d) + u
  BY <1>1
<1>3. PICK b \in Nat \ {0} : b = 2 * u
  OBVIOUS
<1>4. a < (n + 1) * b
  BY <1>2, <1>3, QuotientBound
<1>5. (n + 1) * b = 2 * ((n + 1) * u)
  BY <1>3
<1>6. 2 * (m * u) - 2 * d < 2 * (n * u) + u
  BY <1>1, <1>2, <1>4, <1>5
<1>7. CASE u <= 2 * d
  BY <1>1, <1>6, <1>7
<1>8. CASE 2 * d < u
  <2>1. m * u < (n + 1) * u
    BY <1>1, <1>6, <1>8
  <2>2. m < n + 1
    BY <2>1, ProductOrder
  <2>3. m * u <= n * u
    BY <2>2, ProductOrder
  <2> QED
    BY <1>1, <2>3
<1> QED
  BY <1>7, <1>8

\* What an Update takes for the remaining lifetime is due.
LEMMA LifetimesDue ==
  ASSUME TypeOK, NEW t \in Tokens, Due(t), born[t] <= now, NEW seconds \in Lifetimes(t)
  PROVE  seconds * Unit + 2 * (now - born[t]) >= TTL * Unit
<1>1. /\ now \in Nat /\ born[t] \in Nat /\ Unit \in Nat \ {0} /\ TTL \in Nat
      /\ seconds \in Nat /\ seconds * Unit \in Nat /\ TTL * Unit \in Nat
  BY Numbers, LifetimesType, ProductType DEF TypeOK
<1>2. CASE seconds = TTL
  BY <1>1, <1>2
<1>3. CASE seconds # TTL
  <2>1. seconds = Remaining(t) /\ seconds > 0
    BY <1>1, <1>3 DEF Lifetimes
  <2>2. /\ keys[t] # Absent /\ keys[t].exp # Forever
        /\ seconds = (2 * (keys[t].exp - now) + Unit) \div (2 * Unit)
    BY <2>1 DEF Remaining
  <2>3. PICK s, m \in Nat : /\ born[t] <= s /\ s <= now
                            /\ keys[t].exp = s + m * Unit
                            /\ m * Unit + 2 * (s - born[t]) >= TTL * Unit
    BY <2>2 DEF Due
  <2>4. m * Unit \in Nat
    BY <1>1, ProductType
  <2>5. PICK d \in Nat : d = now - s
    BY <1>1, <2>3
  <2>6. keys[t].exp - now = m * Unit - d
    BY <1>1, <2>3, <2>4, <2>5
  <2>7. seconds * Unit + 2 * d >= m * Unit
    <3>1. seconds = (2 * (m * Unit - d) + Unit) \div (2 * Unit) /\ seconds \in Int
      BY <1>1, <2>2, <2>6
    <3> QED
      BY <1>1, <3>1, Rounded
  <2> QED
    BY <1>1, <2>3, <2>4, <2>5, <2>7
<1> QED
  BY <1>2, <1>3

\* A key that is not written stays due, or is gone.
LEMMA DueKept ==
  ASSUME NEW t, Due(t), now \in Nat, now' \in Nat, now <= now',
         keys'[t] = Absent \/ (keys'[t] = keys[t] /\ born'[t] = born[t])
  PROVE  Due(t)'
<1> SUFFICES ASSUME keys'[t] # Absent, keys'[t].exp # Forever
             PROVE  Due(t)'
  BY DEF Due
<1>1. PICK s, m \in Nat : /\ born[t] <= s /\ s <= now
                          /\ keys[t].exp = s + m * Unit
                          /\ m * Unit + 2 * (s - born[t]) >= TTL * Unit
  BY DEF Due
<1>2. s <= now'
  BY <1>1
<1> QED
  BY <1>1, <1>2 DEF Due

\* A key that is SET for so long is due.
LEMMA DueWritten ==
  ASSUME NEW x \in Write, TypeOK, Set(x), DueWrite(x), born[x.tok] <= now, UNCHANGED <<now, born>>
  PROVE  Due(x.tok)'
<1> PICK t, n : t = x.tok /\ n = x.seconds
  OBVIOUS
<1>0. t \in Tokens /\ n \in Nat /\ now \in Nat /\ born'[t] = born[t] /\ now' = now
  BY WriteFields DEF TypeOK
<1>1. keys'[t].exp = IF n = 0 THEN Forever ELSE now + n * Unit
  BY <1>0 DEF Set, TypeOK
<1>2. n * Unit + 2 * (now - born[t]) >= TTL * Unit
  BY DEF DueWrite
<1> QED
  BY <1>0, <1>1, <1>2 DEF Due

\* What has not been carried out for some time is due all the more.
LEMMA Later ==
  ASSUME NEW n \in Nat, NEW b \in Nat, NEW a \in Nat, NEW c \in Nat, a <= c,
         n * Unit + 2 * (a - b) >= TTL * Unit
  PROVE  n * Unit + 2 * (c - b) >= TTL * Unit
<1>1. n * Unit \in Nat /\ TTL * Unit \in Nat
  BY Numbers, ProductType
<1> QED
  BY <1>1

\* A step that leaves Redis alone, or carries out a SET that is due, that forgets
\* strays or adds one that is due, and in which no Update comes to its SET.
LEMMA TimedKeeps ==
  ASSUME IInv, Timed, now' \in Nat, now <= now',
         \A t \in Tokens : base[t] \in Data => base'[t] = base[t] /\ born'[t] = born[t],
         \A t \in Tokens : base'[t] \in Data => base[t] \in Data \/ born'[t] = now,
         \/ \A t \in Tokens : keys'[t] \in {Absent, keys[t]}
         \/ \E x \in Write : Set(x) /\ DueWrite(x) /\ UNCHANGED <<now, born>>,
         \A y \in strays' : \/ y \in strays
                            \/ y \in Write /\ DueWrite(y),
         \A p \in Procs : \/ pc'[p] # "set"
                          \/ pc'[p] = pc[p] /\ req'[p] = req[p] /\ ttl'[p] = ttl[p]
  PROVE  Timed'
<1>0. TypeOK /\ now \in Nat /\ now <= now /\ \A t \in Tokens : born[t] \in Nat
  BY DEF IInv, TypeOK
<1>1. \A t \in Tokens : Drawn(t)' => born'[t] <= now'
  BY <1>0 DEF Timed, Drawn
<1>2. ASSUME NEW t \in Tokens
      PROVE  Due(t)'
  <2>1. keys[t] # Absent => born'[t] = born[t]
    BY DEF IInv, Written, Drawn
  <2>2. CASE keys'[t] \in {Absent, keys[t]}
    <3>1. keys'[t] = Absent \/ (keys'[t] = keys[t] /\ born'[t] = born[t])
      BY <2>1, <2>2
    <3> QED
      BY <1>0, <3>1, DueKept DEF Timed
  <2>3. ASSUME NEW x \in Write, Set(x), DueWrite(x), UNCHANGED <<now, born>>
        PROVE  Due(t)'
    <3>1. CASE t = x.tok
      BY <1>0, <2>3, <3>1, DueWritten DEF Timed, DueWrite
    <3>2. CASE t # x.tok
      BY <1>0, <2>2, <2>3, <3>2, SetType
    <3> QED
      BY <3>1, <3>2
  <2> QED
    BY <2>2, <2>3
<1>3. ASSUME NEW y \in strays'
      PROVE  DueWrite(y)'
  <2>1. y \in Write /\ DueWrite(y)
    BY <1>3 DEF IInv, TypeOK, Timed
  <2> PICK t, n : t = y.tok /\ n = y.seconds
    OBVIOUS
  <2>2. t \in Tokens /\ n \in Nat /\ born[t] \in Nat /\ born'[t] = born[t]
    BY <1>0, <2>1, WriteFields DEF Drawn, DueWrite
  <2>3. n * Unit + 2 * (now - born[t]) >= TTL * Unit
    BY <2>1 DEF DueWrite
  <2>4. n * Unit + 2 * (now' - born[t]) >= TTL * Unit
    BY <1>0, <2>2, <2>3, Later
  <2> QED
    BY <2>1, <2>2, <2>4 DEF DueWrite, Drawn
<1>4. ASSUME NEW p \in Procs, pc'[p] = "set"
      PROVE  DueSet(p)'
  <2> PICK t, n : t = req[p].tok /\ n = ttl[p]
    OBVIOUS
  <2>1. /\ pc[p] = "set" /\ req'[p] = req[p] /\ ttl'[p] = ttl[p]
        /\ Placed(p) /\ Private(p)
    BY <1>4 DEF IInv
  <2>2. t \in issued /\ n \in Nat
    BY <2>1 DEF Placed, Private, IInv, TypeOK
  <2>3. t \in Tokens /\ born[t] \in Nat /\ born'[t] = born[t]
    BY <1>0, <2>2 DEF IInv, TypeOK, Drawn
  <2>4. n * Unit + 2 * (now - born[t]) >= TTL * Unit
    BY <2>1 DEF Timed, DueSet
  <2>5. n * Unit + 2 * (now' - born[t]) >= TTL * Unit
    BY <1>0, <2>2, <2>3, <2>4, Later
  <2> QED
    BY <2>1, <2>3, <2>5 DEF DueSet
<1> QED
  BY <1>1, <1>2, <1>3, <1>4 DEF Timed, DueSet

\* Every step keeps the keys and the SETs due.
LEMMA TimedStep == IInv /\ Timed /\ [Next]_vars => Timed'
<1> SUFFICES ASSUME IInv, Timed, [Next]_vars
             PROVE  Timed'
  OBVIOUS
<1>0. /\ TypeOK /\ now \in Nat /\ now <= now /\ now + 1 \in Nat /\ now <= now + 1
      /\ \A p \in Procs : Placed(p) /\ Private(p) /\ req[p] \in Request
      /\ \A t \in Tokens : born[t] \in Nat
  BY DEF IInv, TypeOK
<1>1. ASSUME NEW p \in Procs, Load(p) \/ UpdateGet(p) \/ Die(p)
      PROVE  Timed'
  <2>1. UNCHANGED <<issued, strays, base, born, now, keys>>
    BY <1>1 DEF Load, UpdateGet, Die
  <2>2. /\ pc'[p] # "set"
        /\ \A q \in Procs \ {p} : pc'[q] = pc[q] /\ req'[q] = req[q] /\ ttl'[q] = ttl[q]
    BY <1>0, <1>1 DEF Load, UpdateGet, Die, Return, TypeOK
  <2> QED
    BY <1>0, <2>1, <2>2, TimedKeeps
<1>2. ASSUME NEW p \in Procs, Call(p)
      PROVE  Timed'
  <2>1. UNCHANGED <<now, keys, strays, ttl>>
    BY <1>2 DEF Call
  <2>2. PICK rq \in Request :
          /\ req' = [req EXCEPT ![p] = rq]
          /\ rq.op = "gen" => /\ ~Drawn(rq.tok) /\ base' = [base EXCEPT ![rq.tok] = rq.arg]
                              /\ born' = [born EXCEPT ![rq.tok] = now]
          /\ rq.op # "gen" => UNCHANGED <<base, born>>
    BY <1>0, <1>2, CallRequest
  <2>3. /\ pc'[p] # "set"
        /\ \A q \in Procs \ {p} : pc'[q] = pc[q] /\ req'[q] = req[q] /\ ttl'[q] = ttl[q]
    BY <1>0, <1>2, <2>1, <2>2 DEF Call, TypeOK
  <2>4. /\ \A t \in Tokens : base[t] \in Data => base'[t] = base[t] /\ born'[t] = born[t]
        /\ \A t \in Tokens : base'[t] \in Data => base[t] \in Data \/ born'[t] = now
    BY <1>0, <2>2 DEF Drawn, TypeOK
  <2> QED
    BY <1>0, <2>1, <2>3, <2>4, TimedKeeps
<1>3. ASSUME NEW p \in Procs, Gen(p)
      PROVE  Timed'
  <2>1. UNCHANGED <<now, base, born>> /\ req[p].op = "gen"
    BY <1>3 DEF Gen
  <2>2. GenWrite(p) \in Write /\ Drawn(GenWrite(p).tok) /\ GenWrite(p).seconds = TTL
    BY <2>1, GenWriteSound DEF Sound
  <2>3. DueWrite(GenWrite(p))
    <3> PICK t : t = GenWrite(p).tok
      OBVIOUS
    <3>1. t \in Tokens /\ born[t] <= now /\ born[t] \in Nat /\ TTL * Unit \in Nat
      BY <1>0, <2>2, WriteFields, Numbers, ProductType DEF Timed
    <3>2. TTL * Unit + 2 * (now - born[t]) >= TTL * Unit
      BY <1>0, <3>1
    <3> QED
      BY <2>2, <3>2 DEF DueWrite
  <2>4. /\ \/ \A t \in Tokens : keys'[t] \in {Absent, keys[t]}
           \/ \E x \in Write : Set(x) /\ DueWrite(x) /\ UNCHANGED <<now, born>>
        /\ \A y \in strays' : \/ y \in strays
                              \/ y \in Write /\ DueWrite(y)
    BY <1>3, <2>1, <2>2, <2>3 DEF Gen, Unanswered
  <2>5. \A q \in Procs : pc'[q] # "set" \/ (pc'[q] = pc[q] /\ req'[q] = req[q] /\ ttl'[q] = ttl[q])
    BY <1>0, <1>3 DEF Gen, Return, SendAgain, TypeOK
  <2> QED
    BY <1>0, <2>1, <2>4, <2>5, TimedKeeps
<1>4. ASSUME NEW p \in Procs, UpdateSet(p)
      PROVE  Timed'
  <2>1. UNCHANGED <<now, base, born>> /\ pc[p] = "set"
    BY <1>4 DEF UpdateSet
  <2>2. /\ UpdateWrite(p) \in Write /\ Drawn(UpdateWrite(p).tok)
        /\ UpdateWrite(p).tok = req[p].tok /\ UpdateWrite(p).seconds = ttl[p]
    BY <2>1, UpdateWriteSound DEF Sound
  <2>3. DueWrite(UpdateWrite(p))
    <3>1. ttl[p] * Unit + 2 * (now - born[req[p].tok]) >= TTL * Unit
      BY <2>1 DEF Timed, DueSet
    <3> QED
      BY <2>2, <3>1 DEF DueWrite
  <2>4. /\ \/ \A t \in Tokens : keys'[t] \in {Absent, keys[t]}
           \/ \E x \in Write : Set(x) /\ DueWrite(x) /\ UNCHANGED <<now, born>>
        /\ \A y \in strays' : \/ y \in strays
                              \/ y \in Write /\ DueWrite(y)
    BY <1>4, <2>1, <2>2, <2>3 DEF UpdateSet, Unanswered
  <2>5. \A q \in Procs : pc'[q] # "set" \/ (pc'[q] = pc[q] /\ req'[q] = req[q] /\ ttl'[q] = ttl[q])
    BY <1>0, <1>4 DEF UpdateSet, Return, SendAgain, TypeOK
  <2> QED
    BY <1>0, <2>1, <2>4, <2>5, TimedKeeps
<1>5. ASSUME NEW p \in Procs, UpdateTtl(p)
      PROVE  Timed'
  <2> PICK t : t = req[p].tok
    OBVIOUS
  <2>1. t \in Tokens /\ Drawn(t)
    BY <1>0, <1>5, RequestFields DEF UpdateTtl, Placed, Private, IInv
  <2>2. PICK seconds \in Lifetimes(t) : ttl' = [ttl EXCEPT ![p] = seconds]
    BY <1>5 DEF UpdateTtl
  <2>3. /\ UNCHANGED <<now, keys, issued, strays, req, base, born>>
        /\ pc' = [pc EXCEPT ![p] = "set"]
    BY <1>5 DEF UpdateTtl
  <2>4. seconds * Unit + 2 * (now - born[t]) >= TTL * Unit
    BY <1>0, <2>1, LifetimesDue DEF Timed
  <2>5. ttl'[p] = seconds /\ req'[p] = req[p] /\ now' = now /\ born' = born
    BY <1>0, <2>2, <2>3 DEF TypeOK
  <2>6. DueSet(p)'
    BY <2>4, <2>5 DEF DueSet
  <2>7. ASSUME NEW q \in Procs \ {p}
        PROVE  DueSet(q)'
    BY <1>0, <2>2, <2>3 DEF Timed, DueSet, TypeOK
  <2>8. \A u \in Tokens : Due(u)'
    BY <1>0, <2>3, DueKept DEF Timed
  <2> QED
    BY <2>3, <2>6, <2>7, <2>8 DEF Timed, Drawn, DueWrite
<1>6. CASE Tick
  <2>1. /\ now' = now + 1 /\ UNCHANGED <<issued, strays, base, born, pc, req, ttl>>
        /\ \A t \in Tokens : keys'[t] \in {Absent, keys[t]}
    BY <1>6 DEF Tick
  <2> QED
    BY <1>0, <2>1, TimedKeeps
<1>7. CASE UNCHANGED vars
  BY <1>0, <1>7, TimedKeeps DEF vars
<1>8. CASE Stray
  <2>1. PICK x \in strays : Set(x) /\ strays' \in {strays, strays \ {x}}
    BY <1>8 DEF Stray
  <2>2. x \in Write /\ DueWrite(x)
    BY DEF IInv, TypeOK, Timed
  <2>3. UNCHANGED <<now, base, born, pc, req, ttl>>
    BY <1>8 DEF Stray
  <2> QED
    BY <1>0, <2>1, <2>2, <2>3, TimedKeeps
<1> QED
  BY <1>1, <1>2, <1>3, <1>4, <1>5, <1>6, <1>7, <1>8 DEF Next

\* No key is deleted while it is younger than half of the TTL.
NotBeforeHalf ==
  [][\A t \in Tokens : keys[t] # Absent /\ keys'[t] = Absent =>
       2 * (now' - born[t]) >= TTL * Unit]_vars

\* Only time deletes keys.
LEMMA OnlyTime ==
  ASSUME IInv, [Next]_vars, NEW t \in Tokens, keys[t] # Absent, keys'[t] = Absent
  PROVE  Tick
<1>0. TypeOK
  BY DEF IInv
<1>1. ASSUME NEW x \in Write, Set(x)
      PROVE  FALSE
  BY <1>0, <1>1, SetType
<1>2. ASSUME NEW p \in Procs, Gen(p)
      PROVE  FALSE
  BY <1>1, <1>2, GenWriteSound DEF Gen, Unanswered
<1>3. ASSUME NEW p \in Procs, UpdateSet(p)
      PROVE  FALSE
  BY <1>1, <1>3, UpdateWriteSound DEF UpdateSet, Unanswered
<1>4. CASE Stray
  BY <1>0, <1>1, <1>4 DEF Stray, TypeOK
<1> QED
  BY <1>2, <1>3, <1>4 DEF Next, vars, Call, Load, UpdateGet, UpdateTtl, Die

\* And not early.
LEMMA HalfStep ==
  ASSUME IInv, Timed, Tick, NEW t \in Tokens, keys[t] # Absent, keys'[t] = Absent
  PROVE  /\ 2 * (now + 1 - born[t]) >= TTL * Unit
         /\ now' = now + 1 /\ now \in Nat /\ born[t] \in Nat /\ TTL * Unit \in Nat
<1>0. TypeOK /\ now \in Nat /\ born[t] \in Nat /\ TTL * Unit \in Nat
  BY Numbers, ProductType DEF IInv, TypeOK
<1>1. keys[t].exp = now + 1 /\ now' = now + 1
  BY DEF Tick
<1>2. keys[t].exp # Forever
  BY <1>0, <1>1, Numbers
<1>3. PICK s, m \in Nat : /\ born[t] <= s /\ s <= now
                          /\ keys[t].exp = s + m * Unit
                          /\ m * Unit + 2 * (s - born[t]) >= TTL * Unit
  BY <1>2 DEF Timed, Due
<1>4. m * Unit \in Nat
  BY Numbers, ProductType
<1> QED
  BY <1>0, <1>1, <1>3, <1>4

\* The times are in order in every state.
LEMMA TimedInvariant == Spec => [](IInv /\ Timed)
<1>1. Init => Timed
  BY RegisteredType DEF Init, Timed, Due, DueSet, Drawn
<1> QED
  BY <1>1, TimedStep, InvStep, InitInvariant, PTL DEF Spec

\* However often a token is updated, though every Update may round the rest of its
\* life down and SETs come late and out of order, Redis deletes it no sooner than
\* half of the TTL after its generation.
THEOREM NeverDeletedEarly == Spec => NotBeforeHalf
<1>1. IInv /\ Timed /\ [Next]_vars =>
        [\A t \in Tokens : keys[t] # Absent /\ keys'[t] = Absent =>
           2 * (now' - born[t]) >= TTL * Unit]_vars
  <2> SUFFICES ASSUME IInv, Timed, [Next]_vars, NEW t \in Tokens,
                      keys[t] # Absent, keys'[t] = Absent
               PROVE  2 * (now' - born[t]) >= TTL * Unit
    OBVIOUS
  <2>1. Tick
    BY OnlyTime
  <2>2. /\ 2 * (now + 1 - born[t]) >= TTL * Unit
        /\ now' = now + 1 /\ now \in Nat /\ born[t] \in Nat /\ TTL * Unit \in Nat
    BY <2>1, HalfStep
  <2> QED
    BY <2>2
<1> QED
  BY <1>1, TimedInvariant, PTL DEF Spec, NotBeforeHalf

(***************************************************************************)
(* The refinement.                                                         *)
(***************************************************************************)
SeenResult(result) == [ok |-> result.ok, data |-> Seen(result.data)]
SeenWrite(x) == [tok |-> x.tok, data |-> Seen(x.data)]

\* What is seen of data.
LEMMA SeenData ==
  ASSUME NEW d \in Data
  PROVE  /\ Seen(d) \in [Shared -> Values] /\ Seen(d) # NoData /\ Seen(d) # Absent
         /\ Seen(d) = [f \in Shared |-> d[f]]
<1>1. d # NoData
  BY RegisteredType
<1>2. Seen(d) = [f \in Shared |-> d[f]]
  BY <1>1 DEF Seen
<1>3. Seen(d) \in [Shared -> Values]
  BY <1>2 DEF Data, Shared
<1> QED
  BY <1>2, <1>3, RedisTokenStoreAssumption DEF RedisTokenStoreAssumption

\* What is seen of a request.
LEMMA SeenFields ==
  ASSUME NEW rq \in Request
  PROVE  /\ SeenRequest(rq).op = rq.op
         /\ rq.op # "idle" => SeenRequest(rq).tok = rq.tok
         /\ rq.op = "gen" => SeenRequest(rq).arg = Seen(rq.arg)
         /\ rq.op = "update" => SeenRequest(rq).arg = SeenPatch(rq.arg)
         /\ SeenRequest(Idle) = Idle /\ (SeenRequest(rq) = Idle => rq = Idle)
BY DEF Request, Idle, SeenRequest

\* What is seen of the calls and of the answers changes with them.
LEMMA AbsCalls ==
  ASSUME TypeOK, NEW p \in Procs, NEW rq, NEW result,
         req' = [req EXCEPT ![p] = rq], res' = [res EXCEPT ![p] = result]
  PROVE  /\ AbsReq' = [AbsReq EXCEPT ![p] = SeenRequest(rq)]
         /\ AbsRes' = [AbsRes EXCEPT ![p] = SeenResult(result)]
<1>1. AbsReq' = [q \in Procs |-> IF q = p THEN SeenRequest(rq) ELSE SeenRequest(req[q])]
  BY DEF AbsReq, TypeOK
<1>2. AbsRes' = [q \in Procs |-> IF q = p THEN SeenResult(result) ELSE SeenResult(res[q])]
  BY DEF AbsRes, SeenResult, TypeOK
<1> QED
  BY <1>1, <1>2 DEF AbsReq, AbsRes, SeenResult

\* The answers are seen as answers.
LEMMA SeenAnswers ==
  /\ SeenResult(Done) = Abstract!Done /\ SeenResult(Failed) = Abstract!Failed
  /\ \A d : SeenResult(Found(d)) = Abstract!Found(Seen(d))
<1>1. Seen(NoData) = NoData
  BY DEF Seen
<1> QED
  BY <1>1 DEF SeenResult, Done, Failed, Found, Abstract!Done, Abstract!Failed, Abstract!Found

\* A call that returns does so in the abstract store.
LEMMA AbsReturn ==
  ASSUME TypeOK, NEW p \in Procs, NEW result, Return(p, result)
  PROVE  Abstract!Return(p, SeenResult(result))
<1>1. /\ AbsReq' = [AbsReq EXCEPT ![p] = Idle]
      /\ AbsRes' = [AbsRes EXCEPT ![p] = SeenResult(result)]
  <2>1. SeenRequest(Idle) = Idle
    BY DEF SeenRequest, Idle
  <2>2. /\ AbsReq' = [AbsReq EXCEPT ![p] = SeenRequest(Idle)]
        /\ AbsRes' = [AbsRes EXCEPT ![p] = SeenResult(result)]
    <3>1. req' = [req EXCEPT ![p] = Idle] /\ res' = [res EXCEPT ![p] = result]
      BY DEF Return
    <3> QED
      BY <3>1, AbsCalls
  <2> QED
    BY <2>1, <2>2
<1>2. AbsFound' = AbsFound \ {p}
  BY DEF AbsFound, Return, TypeOK
<1> QED
  BY <1>1, <1>2 DEF Abstract!Return, Idle, Abstract!Idle

\* A SET writes what is seen of its data.
LEMMA AbsSet ==
  ASSUME TypeOK, NEW x \in Write, Set(x)
  PROVE  Abstract!Write(x.tok, Seen(x.data))
<1> PICK t, d : t = x.tok /\ d = x.data
  OBVIOUS
<1>1. /\ t \in Tokens /\ keys'[t] # Absent /\ keys'[t].data = d
      /\ \A u \in Tokens \ {t} : keys'[u] = keys[u]
  BY WriteFields, SetType
<1>2. AbsStore' = [u \in Tokens |-> IF u = t THEN Seen(d) ELSE AbsStore[u]]
  BY <1>1 DEF AbsStore, Seen
<1>3. AbsStore' = [AbsStore EXCEPT ![t] = Seen(d)]
  BY <1>1, <1>2 DEF AbsStore
<1> QED
  BY <1>3 DEF Abstract!Write

\* A SET without an answer is a stray.
LEMMA AbsUnanswered ==
  ASSUME NEW x, Unanswered(x)
  PROVE  /\ IOErrors /\ AbsStrays' = AbsStrays \cup {SeenWrite(x)}
         /\ AbsStore' = AbsStore
<1>1. IOErrors /\ strays' = strays \cup {x} /\ keys' = keys
  BY DEF Unanswered
<1>2. AbsStore' = AbsStore
  BY <1>1 DEF AbsStore, Seen
<1>3. AbsStrays' = {SeenWrite(y) : y \in strays \cup {x}}
  BY <1>1 DEF AbsStrays, Seen, SeenWrite
<1>4. AbsStrays = {SeenWrite(y) : y \in strays}
  BY DEF AbsStrays, SeenWrite
<1> QED
  BY <1>1, <1>2, <1>3, <1>4

\* The initial states are initial states of the abstract store.
LEMMA AbsInit == Init => Abstract!Init
<1> SUFFICES ASSUME Init
             PROVE  Abstract!Init
  OBVIOUS
<1>1. AbsStore = [t \in Tokens |-> Absent] /\ AbsStrays = {} /\ AbsFound = {}
  BY DEF Init, AbsStore, AbsStrays, AbsFound
<1>2. AbsBase = [t \in Tokens |-> NoData]
  BY DEF Init, AbsBase, Seen
<1>3. AbsReq = [p \in Procs |-> Idle]
  BY RequestType, SeenFields DEF Init, AbsReq
<1>4. AbsRes = [p \in Procs |-> Abstract!Failed]
  BY SeenAnswers DEF Init, AbsRes, SeenResult
<1> QED
  BY <1>1, <1>2, <1>3, <1>4 DEF Init, Abstract!Init, Idle, Abstract!Idle

\* A call is a call.
LEMMA AbsCall ==
  ASSUME IInv, NEW p \in Procs, Call(p)
  PROVE  Abstract!Call(p)
<1>1. /\ Placed(p) /\ TypeOK /\ pc[p] = "idle" /\ pc' = [pc EXCEPT ![p] = "start"]
      /\ res' = [res EXCEPT ![p] = Failed] /\ UNCHANGED <<now, keys, issued, strays>>
  BY DEF IInv, Call
<1>2. AbsReq[p] = Abstract!Idle
  BY <1>1, RequestType, SeenFields DEF Placed, AbsReq, Idle, Abstract!Idle
<1>3. UNCHANGED <<now, AbsStore, issued, AbsStrays, AbsFound>>
  BY <1>1 DEF AbsStore, AbsStrays, AbsFound, Seen, TypeOK
<1>4. ASSUME NEW rq, req' = [req EXCEPT ![p] = rq]
      PROVE  /\ AbsReq' = [AbsReq EXCEPT ![p] = SeenRequest(rq)]
             /\ AbsRes' = [AbsRes EXCEPT ![p] = Abstract!Failed]
  BY <1>1, <1>4, AbsCalls, SeenAnswers
<1>5. \E rq : req' = [req EXCEPT ![p] = rq]
  BY DEF Call, CallGen, CallOther
<1>6. CASE CallGen(p)
  <2>1. PICK t \in Tokens, d \in Registered :
          /\ Fresh(t)
          /\ req' = [req EXCEPT ![p] = [op |-> "gen", tok |-> t, arg |-> d, at |-> now]]
          /\ base' = [base EXCEPT ![t] = d]
          /\ born' = [born EXCEPT ![t] = now]
    BY <1>6 DEF CallGen
  <2>2. SeenRequest([op |-> "gen", tok |-> t, arg |-> d, at |-> now])
          = [op |-> "gen", tok |-> t, arg |-> Seen(d), at |-> now]
    BY DEF SeenRequest
  <2>3. AbsReq' = [AbsReq EXCEPT ![p] = [op |-> "gen", tok |-> t, arg |-> Seen(d), at |-> now]]
    BY <1>4, <2>1, <2>2
  <2>4. AbsBase[t] = NoData
    BY <2>1 DEF AbsBase, Fresh, Seen
  <2>5. AbsBase' = [AbsBase EXCEPT ![t] = Seen(d)]
    <3>1. AbsBase' = [u \in Tokens |-> IF u = t THEN Seen(d) ELSE Seen(base[u])]
      BY <1>1, <2>1 DEF AbsBase, Seen, TypeOK
    <3> QED
      BY <3>1 DEF AbsBase
  <2>6. Seen(d) \in {Seen(e) : e \in Registered}
    OBVIOUS
  <2>7. Abstract!CallGen(p)
    BY <2>1, <2>3, <2>4, <2>5, <2>6 DEF Abstract!CallGen
  <2> QED
    BY <1>2, <1>3, <1>4, <1>5, <2>7 DEF Abstract!Call
<1>7. CASE CallOther(p)
  <2>1. PICK t \in issued :
          \/ req' = [req EXCEPT ![p] = [op |-> "load", tok |-> t]]
          \/ \E patch \in Patches :
               req' = [req EXCEPT ![p] = [op |-> "update", tok |-> t, arg |-> patch]]
    BY <1>7 DEF CallOther
  <2>2. UNCHANGED <<AbsBase, born>>
    BY <1>7 DEF CallOther, AbsBase, Seen
  <2>3. SeenRequest([op |-> "load", tok |-> t]) = [op |-> "load", tok |-> t]
    BY DEF SeenRequest
  <2>4. \A patch : SeenRequest([op |-> "update", tok |-> t, arg |-> patch])
                     = [op |-> "update", tok |-> t, arg |-> SeenPatch(patch)]
    BY DEF SeenRequest
  <2>5. \/ AbsReq' = [AbsReq EXCEPT ![p] = [op |-> "load", tok |-> t]]
        \/ \E patch \in Patches :
             AbsReq' = [AbsReq EXCEPT ![p] = [op |-> "update", tok |-> t, arg |-> SeenPatch(patch)]]
    <3>1. CASE req' = [req EXCEPT ![p] = [op |-> "load", tok |-> t]]
      <4>1. AbsReq' = [AbsReq EXCEPT ![p] = SeenRequest([op |-> "load", tok |-> t])]
        BY <1>4, <3>1
      <4> QED
        BY <2>3, <4>1, Zenon
    <3>2. ASSUME NEW patch \in Patches,
                 req' = [req EXCEPT ![p] = [op |-> "update", tok |-> t, arg |-> patch]]
          PROVE  AbsReq' = [AbsReq EXCEPT ![p] =
                              [op |-> "update", tok |-> t, arg |-> SeenPatch(patch)]]
      <4>1. AbsReq' = [AbsReq EXCEPT ![p] =
                         SeenRequest([op |-> "update", tok |-> t, arg |-> patch])]
        BY <1>4, <3>2
      <4> QED
        BY <2>4, <4>1, Zenon
    <3> QED
      BY <2>1, <3>1, <3>2
  <2>6. \A patch \in Patches : SeenPatch(patch) \in {SeenPatch(e) : e \in Patches}
    OBVIOUS
  <2>7. Abstract!CallOther(p)
    BY <2>2, <2>5, <2>6 DEF Abstract!CallOther
  <2> QED
    BY <1>2, <1>3, <1>4, <1>5, <2>7 DEF Abstract!Call
<1> QED
  BY <1>6, <1>7 DEF Call

\* GenToken writes what is registered, or leaves a stray.
LEMMA AbsGen ==
  ASSUME IInv, NEW p \in Procs, Gen(p)
  PROVE  Abstract!Gen(p)
<1> PICK t, d : t = req[p].tok /\ d = Seen(req[p].arg)
  OBVIOUS
<1>1. TypeOK /\ req[p] \in Request /\ req[p].op = "gen" /\ UNCHANGED <<now, base, born>>
  BY DEF Gen, IInv, TypeOK
<1>2. AbsReq[p].op = "gen" /\ AbsReq[p].tok = t /\ AbsReq[p].arg = d
  BY <1>1, SeenFields DEF AbsReq
<1>3. /\ GenWrite(p) \in Write /\ GenWrite(p).tok = t /\ Seen(GenWrite(p).data) = d
      /\ SeenWrite(GenWrite(p)) = [tok |-> t, data |-> d]
  BY <1>1, GenWriteSound DEF SeenWrite
<1>4. \/ Abstract!Write(t, d) /\ UNCHANGED AbsStrays
      \/ /\ IOErrors
         /\ AbsStrays' = AbsStrays \cup {[tok |-> t, data |-> d]}
         /\ UNCHANGED AbsStore
  <2>1. CASE Set(GenWrite(p)) /\ UNCHANGED strays
    <3>1. UNCHANGED AbsStrays
      BY <2>1 DEF AbsStrays, Seen
    <3>2. Abstract!Write(GenWrite(p).tok, Seen(GenWrite(p).data))
      BY <1>1, <1>3, <2>1, AbsSet
    <3> QED
      BY <1>3, <3>1, <3>2
  <2>2. CASE Unanswered(GenWrite(p))
    BY <1>3, <2>2, AbsUnanswered
  <2> QED
    BY <2>1, <2>2 DEF Gen
<1>5. UNCHANGED <<now, AbsBase, born>>
  BY <1>1 DEF AbsBase, Seen
<1>6. \/ Abstract!Return(p, Abstract!Done) /\ issued' = issued \cup {t}
      \/ IOErrors /\ UNCHANGED <<AbsReq, AbsRes, AbsFound, issued>>
  <2>1. CASE Return(p, Done) /\ issued' = issued \cup {t}
    BY <1>1, <2>1, AbsReturn, SeenAnswers
  <2>2. CASE SendAgain
    BY <2>2 DEF SendAgain, AbsReq, AbsRes, AbsFound, SeenRequest, Seen
  <2> QED
    BY <2>1, <2>2 DEF Gen
<1> QED
  BY <1>2, <1>4, <1>5, <1>6 DEF Abstract!Gen

\* What is there is seen there.
LEMMA AbsThere ==
  ASSUME TypeOK, NEW t \in Tokens
  PROVE  /\ AbsStore[t] = Absent <=> keys[t] = Absent
         /\ keys[t] # Absent => AbsStore[t] = Seen(keys[t].data)
BY KeyFields, SeenData DEF AbsStore

\* Load returns what is there, or fails.
LEMMA AbsLoad ==
  ASSUME IInv, NEW p \in Procs, Load(p)
  PROVE  Abstract!Load(p)
<1> PICK t : t = req[p].tok
  OBVIOUS
<1>1. /\ TypeOK /\ req[p] \in Request /\ req[p].op = "load"
      /\ UNCHANGED <<now, keys, issued, strays, base, born>>
  BY DEF Load, IInv, TypeOK
<1>2. t \in Tokens /\ AbsReq[p].op = "load" /\ AbsReq[p].tok = t
  BY <1>1, RequestFields, SeenFields DEF AbsReq
<1>3. UNCHANGED <<now, AbsStore, AbsBase, born, issued, AbsStrays>>
  BY <1>1 DEF AbsStore, AbsBase, AbsStrays, Seen
<1>4. CASE keys[t] # Absent /\ Return(p, Found(keys[t].data))
  <2>1. AbsStore[t] # Absent /\ AbsStore[t] = Seen(keys[t].data)
    BY <1>1, <1>2, <1>4, AbsThere
  <2>2. Abstract!Return(p, Abstract!Found(Seen(keys[t].data)))
    BY <1>1, <1>4, AbsReturn, SeenAnswers
  <2> QED
    BY <1>2, <1>3, <2>1, <2>2 DEF Abstract!Load
<1>5. CASE (keys[t] = Absent \/ IOErrors) /\ Return(p, Failed)
  <2>1. AbsStore[t] = Absent \/ IOErrors
    BY <1>1, <1>2, <1>5, AbsThere
  <2>2. Abstract!Return(p, Abstract!Failed)
    BY <1>1, <1>5, AbsReturn, SeenAnswers
  <2> QED
    BY <1>2, <1>3, <2>1, <2>2 DEF Abstract!Load
<1> QED
  BY <1>4, <1>5 DEF Load

\* The GET of an Update finds its entry, or the Update gives up.
LEMMA AbsGet ==
  ASSUME IInv, NEW p \in Procs, UpdateGet(p)
  PROVE  Abstract!Find(p) \/ Abstract!GiveUp(p)
<1> PICK t : t = req[p].tok
  OBVIOUS
<1>1. /\ TypeOK /\ req[p] \in Request /\ req[p].op = "update" /\ pc[p] = "start"
      /\ UNCHANGED <<now, keys, issued, strays, base, born>>
  BY DEF UpdateGet, IInv, TypeOK
<1>2. /\ t \in Tokens /\ AbsReq[p].op = "update" /\ AbsReq[p].tok = t
      /\ p \notin AbsFound
  BY <1>1, RequestFields, SeenFields DEF AbsReq, AbsFound
<1>3. UNCHANGED <<now, AbsStore, AbsBase, born, issued, AbsStrays>>
  BY <1>1 DEF AbsStore, AbsBase, AbsStrays, Seen
<1>4. CASE /\ keys[t] # Absent /\ pc' = [pc EXCEPT ![p] = "ttl"] /\ UNCHANGED <<req, res, ttl>>
  <2>1. AbsStore[t] # Absent
    BY <1>1, <1>2, <1>4, AbsThere
  <2>2. AbsFound' = AbsFound \cup {p}
    BY <1>1, <1>4 DEF AbsFound, TypeOK
  <2>3. UNCHANGED <<AbsReq, AbsRes>>
    BY <1>4 DEF AbsReq, AbsRes, SeenRequest, Seen
  <2> QED
    BY <1>2, <1>3, <2>1, <2>2, <2>3 DEF Abstract!Find
<1>5. CASE (keys[t] = Absent \/ IOErrors) /\ Return(p, Failed)
  <2>1. AbsStore[t] = Absent \/ IOErrors
    BY <1>1, <1>2, <1>5, AbsThere
  <2>2. Abstract!Return(p, Abstract!Failed)
    BY <1>1, <1>5, AbsReturn, SeenAnswers
  <2> QED
    BY <1>2, <1>3, <2>1, <2>2 DEF Abstract!GiveUp
<1> QED
  BY <1>4, <1>5 DEF UpdateGet

\* Of what an Update is about to SET only its patch is seen, and the rest as it is
\* in Redis by now, or as it was registered.
LEMMA SeenMerge ==
  ASSUME IInv, NEW p \in Procs, pc[p] = "set"
  PROVE  LET t == req[p].tok IN
         Seen(UpdateWrite(p).data) =
           Abstract!Merge(IF AbsStore[t] # Absent THEN AbsStore[t] ELSE AbsBase[t],
                          SeenPatch(req[p].arg))
<1> PICK t, patch : t = req[p].tok /\ patch = req[p].arg
  OBVIOUS
<1> DEFINE d == IF AbsStore[t] # Absent THEN AbsStore[t] ELSE AbsBase[t]
<1>1. /\ TypeOK /\ req[p] \in Request /\ req[p].op = "update" /\ got[p] \in Data
      /\ LikeBase(t, got[p]) /\ t \in issued
  BY DEF IInv, TypeOK, Placed, Private
<1>2. t \in Tokens /\ patch \in Patches /\ Drawn(t)
  BY <1>1, RequestFields DEF IInv
<1>3. UpdateWrite(p).data = Merge(got[p], patch) /\ Merge(got[p], patch) \in Data
  BY <1>1, <1>2, UpdateWriteSound, MergeType
<1>4. Seen(UpdateWrite(p).data) = [f \in Shared |-> Merge(got[p], patch)[f]]
  BY <1>3, SeenData
<1>5. \A f \in Shared : f \notin DOMAIN patch => got[p][f] = d[f]
  <2> SUFFICES ASSUME NEW f \in Shared, f \notin DOMAIN patch
               PROVE  got[p][f] = d[f]
    OBVIOUS
  <2>1. \A other \in Patches : f \notin DOMAIN other
    BY <1>2 DEF Shared
  <2>2. got[p][f] = base[t][f]
    BY <1>1, <2>1 DEF LikeBase
  <2>3. CASE keys[t] # Absent
    <3>1. keys[t].data \in Data /\ LikeBase(t, keys[t].data)
      BY <1>1, <1>2, <2>3, KeyFields DEF IInv, Written
    <3>2. d = Seen(keys[t].data)
      BY <1>1, <1>2, <2>3, AbsThere
    <3>3. d[f] = keys[t].data[f]
      BY <3>1, <3>2, SeenData
    <3> QED
      BY <2>1, <2>2, <3>1, <3>3 DEF LikeBase
  <2>4. CASE keys[t] = Absent
    <3>1. d = Seen(base[t])
      BY <1>1, <1>2, <2>4, AbsThere DEF AbsBase
    <3>2. d[f] = base[t][f]
      BY <1>2, <3>1, SeenData DEF Drawn
    <3> QED
      BY <2>2, <3>2
  <2> QED
    BY <2>3, <2>4
<1>6. /\ DOMAIN SeenPatch(patch) = DOMAIN patch \cap Shared
      /\ \A f \in DOMAIN patch \cap Shared : SeenPatch(patch)[f] = patch[f]
  BY DEF SeenPatch
<1>7. \A f \in Shared : f \in Fields
  BY DEF Shared
<1> HIDE DEF d
<1>8. [f \in Shared |-> Merge(got[p], patch)[f]] = Abstract!Merge(d, SeenPatch(patch))
  BY <1>5, <1>6, <1>7 DEF Merge, Abstract!Merge
<1> QED
  BY <1>4, <1>8 DEF d

\* The SET of an Update is its effect, at once or later.
LEMMA AbsUpdate ==
  ASSUME IInv, NEW p \in Procs, UpdateSet(p)
  PROVE  Abstract!Update(p)
<1> PICK t, d : t = req[p].tok /\ d = Seen(UpdateWrite(p).data)
  OBVIOUS
<1>1. /\ TypeOK /\ req[p] \in Request /\ req[p].op = "update" /\ pc[p] = "set"
      /\ UNCHANGED <<now, issued, base, born>>
  BY DEF UpdateSet, IInv, TypeOK, Placed
<1>2. /\ t \in Tokens /\ AbsReq[p].op = "update" /\ AbsReq[p].tok = t
      /\ AbsReq[p].arg = SeenPatch(req[p].arg) /\ p \in AbsFound
  BY <1>1, RequestFields, SeenFields DEF AbsReq, AbsFound
<1>3. d = Abstract!Merge(IF AbsStore[t] # Absent THEN AbsStore[t] ELSE AbsBase[t], AbsReq[p].arg)
  BY <1>1, <1>2, SeenMerge
<1>4. UNCHANGED <<now, AbsBase, born, issued>>
  BY <1>1 DEF AbsBase, Seen
<1>5. /\ UpdateWrite(p) \in Write /\ UpdateWrite(p).tok = t
      /\ SeenWrite(UpdateWrite(p)) = [tok |-> t, data |-> d]
  BY <1>1, UpdateWriteSound DEF SeenWrite
<1>6. CASE Set(UpdateWrite(p)) /\ UNCHANGED strays /\ Return(p, Done)
  <2>1. UNCHANGED AbsStrays
    BY <1>6 DEF AbsStrays, Seen
  <2>2. Abstract!Write(t, d)
    BY <1>1, <1>5, <1>6, AbsSet
  <2>3. Abstract!Return(p, Abstract!Done)
    BY <1>1, <1>6, AbsReturn, SeenAnswers
  <2> QED
    BY <1>2, <1>3, <1>4, <2>1, <2>2, <2>3 DEF Abstract!Update
<1>7. CASE Unanswered(UpdateWrite(p)) /\ (Return(p, Failed) \/ SendAgain)
  <2>1. IOErrors /\ AbsStrays' = AbsStrays \cup {[tok |-> t, data |-> d]} /\ UNCHANGED AbsStore
    BY <1>5, <1>7, AbsUnanswered
  <2>2. Abstract!Return(p, Abstract!Failed) \/ UNCHANGED <<AbsReq, AbsRes, AbsFound>>
    <3>1. CASE Return(p, Failed)
      BY <1>1, <3>1, AbsReturn, SeenAnswers
    <3>2. CASE SendAgain
      BY <3>2 DEF SendAgain, AbsReq, AbsRes, AbsFound, SeenRequest, Seen
    <3> QED
      BY <1>7, <3>1, <3>2
  <2> QED
    BY <1>2, <1>3, <1>4, <2>1, <2>2 DEF Abstract!Update
<1> QED
  BY <1>6, <1>7 DEF UpdateSet

\* A stray is a stray.
LEMMA AbsStray ==
  ASSUME IInv, Stray
  PROVE  Abstract!Stray
<1>1. PICK x \in strays : Set(x) /\ strays' \in {strays, strays \ {x}}
  BY DEF Stray
<1>2. TypeOK /\ x \in Write /\ UNCHANGED <<now, issued, req, res, pc, base, born>>
  BY DEF Stray, IInv, TypeOK
<1>3. SeenWrite(x) \in AbsStrays /\ SeenWrite(x).tok = x.tok /\ SeenWrite(x).data = Seen(x.data)
  BY DEF SeenWrite, AbsStrays
<1>4. Abstract!Write(SeenWrite(x).tok, SeenWrite(x).data)
  BY <1>1, <1>2, <1>3, AbsSet
<1>5. AbsStrays' \in {AbsStrays, AbsStrays \ {SeenWrite(x)}}
  <2>1. AbsStrays = {SeenWrite(y) : y \in strays} /\ AbsStrays' = {SeenWrite(y) : y \in strays'}
    BY DEF AbsStrays, Seen, SeenWrite
  <2>2. CASE strays' = strays
    BY <2>1, <2>2
  <2>3. CASE strays' = strays \ {x} /\ \E y \in strays \ {x} : SeenWrite(y) = SeenWrite(x)
    BY <2>1, <2>3
  <2>4. CASE strays' = strays \ {x} /\ ~\E y \in strays \ {x} : SeenWrite(y) = SeenWrite(x)
    BY <2>1, <2>4
  <2> QED
    BY <1>1, <2>2, <2>3, <2>4
<1>6. UNCHANGED <<now, AbsBase, born, issued, AbsFound, AbsReq, AbsRes>>
  BY <1>2 DEF AbsBase, AbsFound, AbsReq, AbsRes, SeenRequest, Seen
<1> QED
  BY <1>3, <1>4, <1>5, <1>6 DEF Abstract!Stray

\* A replica that dies forgets one call.
LEMMA AbsDie ==
  ASSUME IInv, NEW p \in Procs, Die(p)
  PROVE  Abstract!Die(p)
<1>1. /\ TypeOK /\ Placed(p) /\ pc[p] # "idle" /\ Return(p, Failed)
      /\ UNCHANGED <<now, keys, issued, strays, base, born>>
  BY DEF IInv, Die
<1>2. AbsReq[p] # Abstract!Idle
  <2>1. req[p] \in Request /\ req[p] # Idle
    BY <1>1 DEF Placed, TypeOK
  <2> QED
    BY <2>1, SeenFields DEF AbsReq, Idle, Abstract!Idle
<1>3. UNCHANGED <<now, AbsStore, AbsBase, born, issued, AbsStrays>>
  BY <1>1 DEF AbsStore, AbsBase, AbsStrays, Seen
<1>4. Abstract!Return(p, Abstract!Failed)
  BY <1>1, AbsReturn, SeenAnswers
<1> QED
  BY <1>2, <1>3, <1>4 DEF Abstract!Die

\* Time passes, and nothing disappears early.
LEMMA AbsTick ==
  ASSUME IInv, Timed, Tick
  PROVE  Abstract!Tick
<1> DEFINE gone == {t \in Tokens : keys[t] # Absent /\ keys'[t] = Absent}
<1>1. /\ now < MaxTime /\ now' = now + 1
      /\ UNCHANGED <<issued, strays, req, res, pc, base, born>>
      /\ \A t \in Tokens : keys'[t] \in {Absent, keys[t]}
  BY DEF Tick
<1>2. gone \in SUBSET {t \in Tokens : 2 * (now + 1 - born[t]) >= TTL * Unit}
  BY HalfStep
<1>3. AbsStore' = [t \in Tokens |-> IF t \in gone THEN Absent ELSE AbsStore[t]]
  <2>1. AbsStore' = [t \in Tokens |-> IF keys'[t] = Absent THEN Absent ELSE Seen(keys'[t].data)]
    BY DEF AbsStore, Seen
  <2>2. ASSUME NEW t \in Tokens
        PROVE  (IF keys'[t] = Absent THEN Absent ELSE Seen(keys'[t].data))
                 = IF t \in gone THEN Absent ELSE AbsStore[t]
    BY <1>1 DEF AbsStore
  <2> HIDE DEF gone
  <2> QED
    BY <2>1, <2>2
<1>4. UNCHANGED <<AbsBase, born, issued, AbsStrays, AbsFound, AbsReq, AbsRes>>
  BY <1>1 DEF AbsBase, AbsStrays, AbsFound, AbsReq, AbsRes, SeenRequest, Seen
<1> HIDE DEF gone
<1> QED
  BY <1>1, <1>2, <1>3, <1>4 DEF Abstract!Tick

\* Every step is a step of the abstract store, or leaves it alone.
LEMMA AbsStep ==
  ASSUME IInv, Timed, [Next]_vars
  PROVE  [Abstract!Next]_(Abstract!vars)
<1>1. ASSUME NEW p \in Procs, UpdateTtl(p)
      PROVE  UNCHANGED Abstract!vars
  <2>1. /\ UNCHANGED <<now, keys, issued, strays, req, res, base, born>>
        /\ pc[p] = "ttl" /\ pc' = [pc EXCEPT ![p] = "set"]
    BY <1>1 DEF UpdateTtl
  <2>2. AbsFound' = AbsFound
    BY <2>1 DEF AbsFound, IInv, TypeOK
  <2>3. UNCHANGED <<AbsStore, AbsBase, AbsStrays, AbsReq, AbsRes>>
    BY <2>1 DEF AbsStore, AbsBase, AbsStrays, AbsReq, AbsRes, SeenRequest, Seen
  <2> QED
    BY <2>1, <2>2, <2>3 DEF Abstract!vars
<1>2. ASSUME NEW p \in Procs, Call(p) \/ Gen(p) \/ Load(p) \/ UpdateGet(p) \/ UpdateSet(p) \/ Die(p)
      PROVE  Abstract!Next
  BY <1>2, AbsCall, AbsGen, AbsLoad, AbsGet, AbsUpdate, AbsDie DEF Abstract!Next
<1>3. CASE Stray
  BY <1>3, AbsStray DEF Abstract!Next
<1>4. CASE Tick
  BY <1>4, AbsTick DEF Abstract!Next
<1>5. CASE UNCHANGED vars
  BY <1>5 DEF vars, Abstract!vars, AbsStore, AbsBase, AbsStrays, AbsFound, AbsReq, AbsRes,
              SeenRequest, Seen
<1> QED
  BY <1>1, <1>2, <1>3, <1>4, <1>5 DEF Next

\* Though Update is three commands between which others SET the key or it expires,
\* and a SET may be lost, repeated or late, the store keeps what RetriedTokenStore
\* promises of the fields that every patch sets or none: what was answered was done,
\* nobody reads what nobody wrote, an Update reaches no further than its patch, and
\* only time, and not before half of the TTL, makes an entry disappear.
THEOREM RedisKeepsPromise == Spec => Promised
<1>1. IInv /\ Timed /\ [Next]_vars => [Abstract!Next]_(Abstract!vars)
  BY AbsStep
<1> QED
  BY <1>1, AbsInit, TimedInvariant, PTL DEF Spec, Promised, Abstract!Spec
===============================================================================
