--------------------------- MODULE RetriedTokenStore ---------------------------
(***************************************************************************)
(* What the TokenStore interface of internal/gateway/token_store.go        *)
(* promises if the tokens are in a server behind a client that retries.    *)
(*                                                                         *)
(* It is less than TokenStore promises.  A write without an answer is a    *)
(* stray: it may be carried out, at once or late, and more than once.  And *)
(* an Update that has found its entry writes it back even if it has        *)
(* expired in the meantime.  Still, no Update reaches beyond its patch, no *)
(* value turns up that nobody wrote, what was answered was done, only time *)
(* makes an entry disappear, and that not early.                           *)
(***************************************************************************)
EXTENDS TokenCalls

CONSTANT Unreliable  \* TRUE: a call may fail, and what it writes may stray

VARIABLES
  now,     \* the clock
  store,   \* store[t]: the data behind token t, or Absent
  base,    \* base[t]: the data that t was registered with, or NoData if it is not drawn
  born,    \* born[t]: when t was drawn
  issued,  \* tokens that GenToken has handed out
  strays,  \* writes that may still be carried out
  found,   \* the callers whose Update has found its entry
  req,     \* req[p]: the call that p has made and that has not returned
  res      \* res[p]: what p's last call returned; Failed during a call

vars == <<now, store, base, born, issued, strays, found, req, res>>

Init ==
  /\ now = 0
  /\ store = [t \in Tokens |-> Absent]
  /\ base = [t \in Tokens |-> NoData]
  /\ born = [t \in Tokens |-> 0]
  /\ issued = {}
  /\ strays = {}
  /\ found = {}
  /\ req = [p \in Procs |-> Idle]
  /\ res = [p \in Procs |-> Failed]

Return(p, result) ==
  /\ req' = [req EXCEPT ![p] = Idle]
  /\ res' = [res EXCEPT ![p] = result]
  /\ found' = found \ {p}

Write(t, d) == store' = [store EXCEPT ![t] = d]

CallGen(p) ==
  /\ \E t \in Tokens, d \in Registered :
       /\ base[t] = NoData
       /\ base' = [base EXCEPT ![t] = d]
       /\ born' = [born EXCEPT ![t] = now]
       /\ req' = [req EXCEPT ![p] = [op |-> "gen", tok |-> t, arg |-> d, at |-> now]]

CallOther(p) ==
  /\ \E t \in issued :
       \/ req' = [req EXCEPT ![p] = [op |-> "load", tok |-> t]]
       \/ \E patch \in Patches :
            req' = [req EXCEPT ![p] = [op |-> "update", tok |-> t, arg |-> patch]]
  /\ UNCHANGED <<base, born>>

Call(p) ==
  /\ req[p] = Idle
  /\ CallGen(p) \/ CallOther(p)
  /\ res' = [res EXCEPT ![p] = Failed]
  /\ UNCHANGED <<now, store, issued, strays, found>>

Gen(p) ==
  /\ req[p].op = "gen"
  /\ LET t == req[p].tok IN
     /\ \/ Write(t, req[p].arg) /\ UNCHANGED strays
        \/ /\ Unreliable
           /\ strays' = strays \cup {[tok |-> t, data |-> req[p].arg]}
           /\ UNCHANGED store
     /\ \/ Return(p, Done) /\ issued' = issued \cup {t}
        \/ Unreliable /\ UNCHANGED <<req, res, found, issued>>
  /\ UNCHANGED <<now, base, born>>

Load(p) ==
  /\ req[p].op = "load"
  /\ LET t == req[p].tok IN
       \/ store[t] # Absent /\ Return(p, Found(store[t]))
       \/ (store[t] = Absent \/ Unreliable) /\ Return(p, Failed)
  /\ UNCHANGED <<now, store, base, born, issued, strays>>

Find(p) ==
  /\ req[p].op = "update" /\ p \notin found
  /\ store[req[p].tok] # Absent
  /\ found' = found \cup {p}
  /\ UNCHANGED <<now, store, base, born, issued, strays, req, res>>

GiveUp(p) ==
  /\ req[p].op = "update" /\ p \notin found
  /\ store[req[p].tok] = Absent \/ Unreliable
  /\ Return(p, Failed)
  /\ UNCHANGED <<now, store, base, born, issued, strays>>

\* The patch is applied to the entry as it is, or to the data of the registration
\* if there is none any more.
Update(p) ==
  /\ req[p].op = "update" /\ p \in found
  /\ LET t == req[p].tok
         d == Merge(IF store[t] # Absent THEN store[t] ELSE base[t], req[p].arg)
     IN
       \/ Write(t, d) /\ UNCHANGED strays /\ Return(p, Done)
       \/ /\ Unreliable
          /\ strays' = strays \cup {[tok |-> t, data |-> d]}
          /\ Return(p, Failed) \/ UNCHANGED <<req, res, found>>
          /\ UNCHANGED store
  /\ UNCHANGED <<now, base, born, issued>>

Stray ==
  /\ \E x \in strays :
       /\ Write(x.tok, x.data)
       /\ strays' \in {strays, strays \ {x}}
  /\ UNCHANGED <<now, base, born, issued, found, req, res>>

Die(p) ==
  /\ req[p] # Idle
  /\ Return(p, Failed)
  /\ UNCHANGED <<now, store, base, born, issued, strays>>

\* An entry lasts for half of TTL at least.
Tick ==
  /\ now < MaxTime
  /\ now' = now + 1
  /\ \E gone \in SUBSET {t \in Tokens : 2 * (now + 1 - born[t]) >= TTL} :
       store' = [t \in Tokens |-> IF t \in gone THEN Absent ELSE store[t]]
  /\ UNCHANGED <<base, born, issued, strays, found, req, res>>

Next ==
  \/ \E p \in Procs :
       \/ Call(p) \/ Gen(p) \/ Load(p)
       \/ Find(p) \/ GiveUp(p) \/ Update(p)
       \/ Die(p)
  \/ Stray
  \/ Tick

Spec == Init /\ [][Next]_vars
===============================================================================
