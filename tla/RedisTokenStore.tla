--------------------------- MODULE RedisTokenStore ---------------------------
(***************************************************************************)
(* RedisTokenStore of internal/gateway/token_store.go: one Redis key per   *)
(* token, shared by all replicas, which Redis itself deletes when its time *)
(* is up.  There is no lock: Update is a GET, a TTL and a SET, and the     *)
(* calls of any goroutine of any replica come in between.                  *)
(*                                                                         *)
(* The client, whose MaxRetries nobody sets, sends a command up to four    *)
(* times.  For a GET or a TTL that makes no difference.  A SET without an  *)
(* answer is in `strays` from then on: Redis may have carried it out, or   *)
(* may do so later, before or after it is sent again.                      *)
(*                                                                         *)
(* The clock counts ticks, Unit of them to the second, because TTL answers *)
(* in whole seconds, rounded to the nearest.                               *)
(***************************************************************************)
EXTENDS TokenCalls

CONSTANTS
  Unit,      \* ticks in a second
  IOErrors,  \* TRUE: a command may fail, or its answer not come
  Forever    \* expiry of a key that was SET without one

\* Fields that every patch sets, as chat_id, or none, as those of the alert.
Shared ==
  {f \in Fields : (\A patch \in Patches : f \in DOMAIN patch)
                 \/ (\A patch \in Patches : f \notin DOMAIN patch)}

ASSUME RedisTokenStoreAssumption ==
  /\ Unit \in Nat \ {0}
  /\ IOErrors \in BOOLEAN
  /\ Forever \notin Nat
  /\ Absent \notin [data: Data, exp: Nat \cup {Forever}]
  /\ Absent \notin [Shared -> Values] /\ NoData \notin [Shared -> Values]

VARIABLES
  now,     \* the clock, in ticks
  keys,    \* keys[t]: data and expiry of the key of t, or Absent
  issued,  \* tokens that GenToken has returned
  strays,  \* SETs whose answer did not come
  req,     \* req[p]: the call in progress
  res,     \* res[p]: what the last call returned; Failed during a call
  pc,      \* pc[p]: the command that p issues next
  got,     \* got[p]: the data that Update has read
  ttl,     \* ttl[p]: the seconds that Update will SET
  base,    \* history: base[t] is what t was registered with, or NoData if it is not drawn
  born     \* history: born[t] is when t was drawn

vars == <<now, keys, issued, strays, req, res, pc, got, ttl, base, born>>

Key   == [data: Data, exp: Nat \cup {Forever}]
Write == [tok: Tokens, data: Data, seconds: Nat]

TypeOK ==
  /\ now \in Nat
  /\ keys \in [Tokens -> Key \cup {Absent}]
  /\ issued \subseteq Tokens
  /\ strays \subseteq Write
  /\ req \in [Procs -> Request]
  /\ res \in [Procs -> Result]
  /\ pc \in [Procs -> {"idle", "start", "ttl", "set"}]
  /\ got \in [Procs -> Data \cup {NoData}]
  /\ ttl \in [Procs -> Nat]
  /\ base \in [Tokens -> Data \cup {NoData}]
  /\ born \in [Tokens -> Nat]

Init ==
  /\ now = 0
  /\ keys = [t \in Tokens |-> Absent]
  /\ issued = {}
  /\ strays = {}
  /\ req = [p \in Procs |-> Idle]
  /\ res = [p \in Procs |-> Failed]
  /\ pc = [p \in Procs |-> "idle"]
  /\ got = [p \in Procs |-> NoData]
  /\ ttl = [p \in Procs |-> 0]
  /\ base = [t \in Tokens |-> NoData]
  /\ born = [t \in Tokens |-> 0]

Fresh(t) == base[t] = NoData

Return(p, result) ==
  /\ pc' = [pc EXCEPT ![p] = "idle"]
  /\ req' = [req EXCEPT ![p] = Idle]
  /\ res' = [res EXCEPT ![p] = result]
  /\ got' = [got EXCEPT ![p] = NoData]
  /\ ttl' = [ttl EXCEPT ![p] = 0]

(***************************************************************************)
(* Redis.                                                                  *)
(***************************************************************************)
\* SET with an expiration of 0 seconds is a SET without EX.
Set(x) ==
  keys' = [keys EXCEPT ![x.tok] =
    [data |-> x.data, exp |-> IF x.seconds = 0 THEN Forever ELSE now + x.seconds * Unit]]

\* A SET is carried out without anybody waiting for it.  Any number of attempts may
\* have been made of the same one.
Stray ==
  /\ \E x \in strays :
       /\ Set(x)
       /\ strays' \in {strays, strays \ {x}}
  /\ UNCHANGED <<now, issued, req, res, pc, got, ttl, base, born>>

\* The reply of TTL: -2 without a key, -1 without an expiry.
Remaining(t) ==
  IF keys[t] = Absent THEN -2
  ELSE IF keys[t].exp = Forever THEN -1
  ELSE (2 * (keys[t].exp - now) + Unit) \div (2 * Unit)

\* The clock advances, and Redis deletes the keys whose time is up.
Tick ==
  /\ now < MaxTime
  /\ now' = now + 1
  /\ keys' = [t \in Tokens |->
       IF keys[t] # Absent /\ keys[t].exp = now + 1 THEN Absent ELSE keys[t]]
  /\ UNCHANGED <<issued, strays, req, res, pc, got, ttl, base, born>>

(***************************************************************************)
(* The calls.                                                              *)
(***************************************************************************)
CallGen(p) ==
  \E t \in Tokens, d \in Registered :
    /\ Fresh(t)
    /\ req' = [req EXCEPT ![p] = [op |-> "gen", tok |-> t, arg |-> d, at |-> now]]
    /\ base' = [base EXCEPT ![t] = d]
    /\ born' = [born EXCEPT ![t] = now]

CallOther(p) ==
  /\ \E t \in issued :
       \/ req' = [req EXCEPT ![p] = [op |-> "load", tok |-> t]]
       \/ \E patch \in Patches :
            req' = [req EXCEPT ![p] = [op |-> "update", tok |-> t, arg |-> patch]]
  /\ UNCHANGED <<base, born>>

Call(p) ==
  /\ pc[p] = "idle"
  /\ CallGen(p) \/ CallOther(p)
  /\ pc' = [pc EXCEPT ![p] = "start"]
  /\ res' = [res EXCEPT ![p] = Failed]
  /\ UNCHANGED <<now, keys, issued, strays, got, ttl>>

\* A SET that no answer comes to; the client may send it again.
Unanswered(x) ==
  /\ IOErrors
  /\ strays' = strays \cup {x}
  /\ UNCHANGED keys

SendAgain == IOErrors /\ UNCHANGED <<issued, req, res, pc, got, ttl>>

\* The SET of GenToken.
GenWrite(p) == [tok |-> req[p].tok, data |-> req[p].arg, seconds |-> TTL]

\* A SET that fails is logged and the token returned all the same.
Gen(p) ==
  /\ pc[p] = "start" /\ req[p].op = "gen"
  /\ \/ Set(GenWrite(p)) /\ UNCHANGED strays
     \/ Unanswered(GenWrite(p))
  /\ \/ Return(p, Done) /\ issued' = issued \cup {req[p].tok}
     \/ SendAgain
  /\ UNCHANGED <<now, base, born>>

Load(p) ==
  /\ pc[p] = "start" /\ req[p].op = "load"
  /\ LET t == req[p].tok IN
       \/ keys[t] # Absent /\ Return(p, Found(keys[t].data))
       \/ (keys[t] = Absent \/ IOErrors) /\ Return(p, Failed)
  /\ UNCHANGED <<now, keys, issued, strays, base, born>>

\* Fault: a key that is not there is read as an empty map.
UpdateGetNil(p) ==
  /\ pc[p] = "start" /\ req[p].op = "update"
  /\ LET t == req[p].tok IN
     \E d \in Registered :
       /\ got' = [got EXCEPT ![p] = IF keys[t] # Absent THEN keys[t].data ELSE d]
       /\ pc' = [pc EXCEPT ![p] = "ttl"]
  /\ UNCHANGED <<now, keys, issued, strays, req, res, ttl, base, born>>

\* Update up to its GET.
UpdateGet(p) ==
  /\ pc[p] = "start" /\ req[p].op = "update"
  /\ LET t == req[p].tok IN
       \/ /\ keys[t] # Absent
          /\ got' = [got EXCEPT ![p] = keys[t].data]
          /\ pc' = [pc EXCEPT ![p] = "ttl"]
          /\ UNCHANGED <<req, res, ttl>>
       \/ /\ keys[t] = Absent \/ IOErrors
          /\ Return(p, Failed)
  /\ UNCHANGED <<now, keys, issued, strays, base, born>>

\* Fault: only an error of TTL is looked at, not a reply that is not positive.
LifetimesTrusting(t) == {IF Remaining(t) < 0 THEN 0 ELSE Remaining(t)}

\* What Update takes for the remaining TTL: the reply, or the TTL of a new token
\* if there was an error or the reply is not positive.
Lifetimes(t) ==
  (IF Remaining(t) > 0 THEN {Remaining(t)} ELSE {TTL}) \cup (IF IOErrors THEN {TTL} ELSE {})

UpdateTtl(p) ==
  /\ pc[p] = "ttl"
  /\ \E seconds \in Lifetimes(req[p].tok) : ttl' = [ttl EXCEPT ![p] = seconds]
  /\ pc' = [pc EXCEPT ![p] = "set"]
  /\ UNCHANGED <<now, keys, issued, strays, req, res, got, base, born>>

\* The SET of Update writes back all that the GET has read, patched.
UpdateWrite(p) ==
  [tok |-> req[p].tok, data |-> Merge(got[p], req[p].arg), seconds |-> ttl[p]]

UpdateSet(p) ==
  /\ pc[p] = "set"
  /\ \/ Set(UpdateWrite(p)) /\ UNCHANGED strays /\ Return(p, Done)
     \/ Unanswered(UpdateWrite(p)) /\ (Return(p, Failed) \/ SendAgain)
  /\ UNCHANGED <<now, issued, base, born>>

\* A replica dies between two commands.
Die(p) ==
  /\ pc[p] # "idle"
  /\ Return(p, Failed)
  /\ UNCHANGED <<now, keys, issued, strays, base, born>>

Next ==
  \/ \E p \in Procs :
       \/ Call(p) \/ Gen(p) \/ Load(p)
       \/ UpdateGet(p) \/ UpdateTtl(p) \/ UpdateSet(p)
       \/ Die(p)
  \/ Stray
  \/ Tick

Spec == Init /\ [][Next]_vars

(***************************************************************************)
(* Properties.                                                             *)
(***************************************************************************)
\* No token is immortal: whatever the reply of TTL, no Update drops the expiry.
EveryKeyExpires ==
  \A t \in Tokens : TTL > 0 /\ keys[t] # Absent => keys[t].exp # Forever

\* "Update keeps the remaining TTL": a token that has expired does not come back.
\* Not so if it expires between the GET and the SET of an Update, which then
\* writes it with the TTL of a new token.
ExpiredStaysGone ==
  [][\A t \in issued : keys[t] = Absent => keys'[t] = Absent]_vars

(***************************************************************************)
(* The store implements the abstract one on the fields that every patch    *)
(* sets or none: there a SET may write back what it has read, though       *)
(* others have SET the key since.  Of the fields that only some patches    *)
(* set, who created or dismissed a chat and when, it may undo what another *)
(* Update has set; nobody reads these.                                     *)
(***************************************************************************)
Seen(d) == IF d = NoData THEN NoData ELSE [f \in Shared |-> d[f]]
SeenPatch(patch) == [f \in DOMAIN patch \cap Shared |-> patch[f]]

SeenRequest(rq) ==
  IF rq.op = "gen" THEN [rq EXCEPT !.arg = Seen(@)]
  ELSE IF rq.op = "update" THEN [rq EXCEPT !.arg = SeenPatch(@)]
  ELSE rq

AbsStore == [t \in Tokens |-> IF keys[t] = Absent THEN Absent ELSE Seen(keys[t].data)]
AbsBase == [t \in Tokens |-> Seen(base[t])]
AbsStrays == {[tok |-> x.tok, data |-> Seen(x.data)] : x \in strays}
AbsFound == {p \in Procs : pc[p] \in {"ttl", "set"}}
AbsReq == [p \in Procs |-> SeenRequest(req[p])]
AbsRes == [p \in Procs |-> [ok |-> res[p].ok, data |-> Seen(res[p].data)]]

Abstract == INSTANCE RetriedTokenStore WITH
  Fields <- Shared,
  Registered <- {Seen(d) : d \in Registered},
  Patches <- {SeenPatch(patch) : patch \in Patches},
  TTL <- TTL * Unit,
  Unreliable <- IOErrors,
  store <- AbsStore, base <- AbsBase, strays <- AbsStrays,
  found <- AbsFound, req <- AbsReq, res <- AbsRes

\* Whatever other replicas SET between the commands of an Update, whether answers
\* get lost, SETs are sent again or carried out late, and keys expire in between:
\* the calls have the effects that RetriedTokenStore allows and no others.
Promised == Abstract!Spec
===============================================================================
