------------------------------ MODULE TokenStore ------------------------------
(***************************************************************************)
(* What the TokenStore interface of internal/gateway/token_store.go        *)
(* promises to the request handlers: GenToken, Load and Update each take   *)
(* effect in one instant between their call and their return, a token is   *)
(* served for TTL seconds counted from the moment it was generated, and an *)
(* entry disappears only once it has expired.  A crash forgets the calls   *)
(* in progress, and may lose the entries they were updating, no others.    *)
(*                                                                         *)
(* The specification is abstract: FileTokenStore is shown to implement it. *)
(* What the store in Redis promises instead is RetriedTokenStore.          *)
(***************************************************************************)
EXTENDS TokenCalls

VARIABLES
  now,     \* the clock, in seconds
  store,   \* store[t]: the entry behind token t, or Absent
  issued,  \* tokens that GenToken has handed out
  req,     \* req[p]: the call that p has made and that has not returned
  res      \* res[p]: what p's last call returned

vars == <<now, store, issued, req, res>>

Expired(t) == now - store[t].ts > TTL

\* A token that no call has drawn yet.
Fresh(t) ==
  /\ t \notin issued
  /\ store[t] = Absent
  /\ \A p \in Procs : req[p].op = "gen" => req[p].tok # t

Init ==
  /\ now = 0
  /\ store = [t \in Tokens |-> Absent]
  /\ issued = {}
  /\ req = [p \in Procs |-> Idle]
  /\ res = [p \in Procs |-> Failed]

Return(p, result) ==
  /\ req' = [req EXCEPT ![p] = Idle]
  /\ res' = [res EXCEPT ![p] = result]

CallGen(p) ==
  \E t \in Tokens, d \in Registered :
    /\ Fresh(t)
    /\ req' = [req EXCEPT ![p] = [op |-> "gen", tok |-> t, arg |-> d, at |-> now]]

CallLoad(p) ==
  \E t \in issued : req' = [req EXCEPT ![p] = [op |-> "load", tok |-> t]]

CallUpdate(p) ==
  \E t \in issued, patch \in Patches :
    req' = [req EXCEPT ![p] = [op |-> "update", tok |-> t, arg |-> patch]]

Call(p) ==
  /\ req[p] = Idle
  /\ CallGen(p) \/ CallLoad(p) \/ CallUpdate(p)
  /\ UNCHANGED <<now, store, issued, res>>

Gen(p) ==
  /\ req[p].op = "gen"
  /\ \E ts \in req[p].at..now :
       store' = [store EXCEPT ![req[p].tok] = [ts |-> ts, data |-> req[p].arg]]
  /\ issued' = issued \cup {req[p].tok}
  /\ Return(p, Done)
  /\ UNCHANGED now

\* Load may drop the entry that it finds expired.
Load(p) ==
  /\ req[p].op = "load"
  /\ LET t == req[p].tok IN
       \/ /\ store[t] # Absent /\ ~Expired(t)
          /\ Return(p, Found(store[t].data))
          /\ UNCHANGED store
       \/ /\ store[t] # Absent => Expired(t)
          /\ Return(p, Failed)
          /\ \/ UNCHANGED store
             \/ store[t] # Absent /\ Expired(t) /\ store' = [store EXCEPT ![t] = Absent]
  /\ UNCHANGED <<now, issued>>

\* Update does not look at the age of the entry, and keeps its timestamp.
Update(p) ==
  /\ req[p].op = "update"
  /\ LET t == req[p].tok IN
       \/ /\ store[t] # Absent
          /\ store' = [store EXCEPT ![t].data = Merge(@, req[p].arg)]
          /\ Return(p, Done)
       \/ /\ store[t] = Absent
          /\ Return(p, Failed)
          /\ UNCHANGED store
  /\ UNCHANGED <<now, issued>>

Collect(t) ==
  /\ store[t] # Absent /\ Expired(t)
  /\ store' = [store EXCEPT ![t] = Absent]
  /\ UNCHANGED <<now, issued, req, res>>

Crash ==
  /\ \E killed \in SUBSET Procs :
       /\ \E lost \in SUBSET {req[p].tok : p \in {q \in killed : req[q].op = "update"}} :
            store' = [t \in Tokens |-> IF t \in lost THEN Absent ELSE store[t]]
       /\ req' = [p \in Procs |-> IF p \in killed THEN Idle ELSE req[p]]
       /\ res' = [p \in Procs |-> IF p \in killed THEN Failed ELSE res[p]]
  /\ UNCHANGED <<now, issued>>

Tick ==
  /\ now < MaxTime
  /\ now' = now + 1
  /\ UNCHANGED <<store, issued, req, res>>

Next ==
  \/ \E p \in Procs : Call(p) \/ Gen(p) \/ Load(p) \/ Update(p)
  \/ \E t \in Tokens : Collect(t)
  \/ Crash
  \/ Tick

Spec == Init /\ [][Next]_vars
===============================================================================
