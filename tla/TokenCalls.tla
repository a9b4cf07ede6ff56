------------------------------ MODULE TokenCalls ------------------------------
(***************************************************************************)
(* The interface TokenStore of internal/gateway/token_store.go as data:    *)
(* what goroutines ask of a token store and what they get.  Its abstract   *)
(* specification and its implementations share this module.                *)
(***************************************************************************)
EXTENDS Integers

CONSTANTS
  Procs,       \* goroutines that use the store
  Tokens,      \* tokens that GenToken can draw (6 random bytes, never reused)
  Fields,      \* keys of the data map behind a token
  Values,      \* values of those keys
  Registered,  \* the data maps that the register handlers store
  Patches,     \* the patches passed to Update: values for some of the fields
  TTL,         \* seconds that a token lives
  MaxTime,     \* bound on the clock, for TLC only
  Absent,      \* "there is no entry"
  NoData       \* the nil map that Load returns

Data == [Fields -> Values]

ASSUME TokenCallsAssumption ==
  /\ TTL \in Nat /\ MaxTime \in Nat
  /\ Registered \subseteq Data
  /\ \A patch \in Patches :
       /\ DOMAIN patch \subseteq Fields
       /\ \A f \in DOMAIN patch : patch[f] \in Values
  /\ NoData \notin Data

Idle == [op |-> "idle"]

Request ==
  {Idle} \cup [op: {"gen"}, tok: Tokens, arg: Registered, at: Nat]
         \cup [op: {"load"}, tok: Tokens]
         \cup [op: {"update"}, tok: Tokens, arg: Patches]

Result == [ok: BOOLEAN, data: Data \cup {NoData}]
Found(d) == [ok |-> TRUE, data |-> d]
Done     == [ok |-> TRUE, data |-> NoData]
Failed   == [ok |-> FALSE, data |-> NoData]

\* Fault: the patch replaces the data.
MergeReplaces(d, patch) == patch

\* Update overwrites the patched fields and leaves the others alone.
Merge(d, patch) ==
  [f \in Fields |-> IF f \in DOMAIN patch THEN patch[f] ELSE d[f]]
===============================================================================
