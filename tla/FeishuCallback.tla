---------------------------- MODULE FeishuCallback ----------------------------
(***************************************************************************)
(* A replica of the gateway from its start to its end, and what Feishu     *)
(* gets from it: Initialize of internal/gateway/gateway.go under the       *)
(* service of internal/bootstrap/bootstrap.go, and handleFeishuCallback    *)
(* with the credentials that it falls back on, of                          *)
(* internal/gateway/handlers.go.                                           *)
(*                                                                         *)
(* The replicas share the stored tokens.  The cache `dedup`, which is that *)
(* of DedupCache, and the credentials seen last die with the process.      *)
(* Feishu may deliver an event any number of times, to any replica.        *)
(***************************************************************************)
EXTENDS DedupCache, FiniteSets

CONSTANTS
  Workers,      \* goroutines that can serve callbacks at once
  Events,       \* clicks on buttons
  Id,           \* Id[e]: the event_id of e
  Button,       \* Button[e]: the open_message_id and the option of e
  NoId,         \* an event_id that is missing
  Tokens,       \* tokens that the register handlers can draw
  Apps,         \* Feishu applications; a secret is named by the application it is of
  Nothing,      \* an app id or a secret that is missing
  Own,          \* Own[t]: the credentials in the data behind t
  Configured,   \* FEISHU_APP_ID and FEISHU_APP_SECRET
  HandlerTime,  \* longest time that a handler takes
  Grace         \* what Shutdown grants to the handlers: 5 s

Credentials == [id: Apps \cup {Nothing}, secret: Apps \cup {Nothing}]
NoCredentials == [id |-> Nothing, secret |-> Nothing]

Full(pair) == pair.id # Nothing /\ pair.secret # Nothing

\* Credentials are those of one application wherever both parts are given.
Fits(pair) == Full(pair) => pair.id = pair.secret

\* Fault: the button alone identifies the event.
DedupKeyOfButton(e) == Button[e]

\* The key is never "", because the two parts are joined by "_".
DedupKey(e) == IF Id[e] # NoId THEN Id[e] ELSE Button[e]

ASSUME FeishuCallbackAssumption ==
  /\ \A e \in Events : DedupKey(e) \in Keys /\ Button[e] \in Keys
  /\ \A e, f \in Events : Id[e] # Button[f]
  /\ Nothing \notin Apps /\ "none" \notin Replicas /\ IsFiniteSet(Replicas)
  /\ Own \in [Tokens -> Credentials] /\ Configured \in Credentials
  /\ \A t \in Tokens : Fits(Own[t])
  /\ Fits(Configured)
  /\ HandlerTime \in Nat /\ Grace \in Nat

VARIABLES
  stage,       \* stage[r]: where the process of r stands
  since,       \* since[r]: when r was told to stop, if it was
  job,         \* job[w]: the event that w handles, in which replica, since when
  registered,  \* tokens that are stored
  remembered,  \* remembered[r]: the credentials that r has seen last
  taught,      \* history: replicas that have seen both parts since their start
  answered,    \* history: events of which Feishu has got an answer
  handled,     \* history: events whose handler has come to its end
  killed,      \* history: events whose handler died with its process
  dropped,     \* history: events whose handler was cut off by an orderly stop
  times        \* history: times[e] is how often a handler has taken up e

service == <<stage, since>>
creds   == <<registered, remembered, taught>>
fate    == <<answered, handled, killed, dropped, times>>
callbackVars == <<vars, service, job, creds, fate>>

\* "late" and "overrun": told to stop before Start had stored the cleanup
\* function.  "deaf": running, but not listening.
Stages  == {"down", "init", "late", "up", "overrun", "deaf", "drain"}
Serving == {"up", "overrun"}

NoJob == [rep |-> "none"]
Job   == [event: Events, rep: Replicas, at: Nat]

CallbackTypeOK ==
  /\ TypeOK
  /\ stage \in [Replicas -> Stages]
  /\ since \in [Replicas -> Nat]
  /\ job \in [Workers -> Job \cup {NoJob}]
  /\ registered \subseteq Tokens
  /\ remembered \in [Replicas -> {pair \in Credentials : Full(pair)} \cup {NoCredentials}]
  /\ taught \subseteq Replicas
  /\ answered \subseteq Events /\ handled \subseteq Events
  /\ killed \subseteq Events /\ dropped \subseteq Events
  /\ times \in [Events -> Nat]

CallbackInit ==
  /\ Init
  /\ stage = [r \in Replicas |-> "down"]
  /\ since = [r \in Replicas |-> 0]
  /\ job = [w \in Workers |-> NoJob]
  /\ registered = {}
  /\ remembered = [r \in Replicas |-> NoCredentials]
  /\ taught = {}
  /\ answered = {} /\ handled = {} /\ killed = {} /\ dropped = {}
  /\ times = [e \in Events |-> 0]

(***************************************************************************)
(* The process.                                                            *)
(***************************************************************************)
Goto(r, s) == stage' = [stage EXCEPT ![r] = s]

Start(r) ==
  /\ stage[r] = "down"
  /\ Goto(r, "init")
  /\ UNCHANGED <<vars, since, job, creds, fate>>

\* Validate or InitTokenStores fails: Start panics.
StartFails(r) ==
  /\ stage[r] \in {"init", "late"}
  /\ Goto(r, "down")
  /\ UNCHANGED <<vars, since, job, creds, fate>>

\* Initialize returns; that the address cannot be listened on is only logged.
Started(r) ==
  /\ \/ stage[r] = "init" /\ (Goto(r, "up") \/ Goto(r, "deaf"))
     \/ stage[r] = "late" /\ (Goto(r, "overrun") \/ Goto(r, "deaf"))
  /\ UNCHANGED <<vars, since, job, creds, fate>>

\* Stop before the end of Start finds no cleanup function and does nothing, and
\* it is not called again.
StopEarly(r) ==
  /\ stage[r] = "init"
  /\ Goto(r, "late")
  /\ UNCHANGED <<vars, since, job, creds, fate>>

\* Bound: a process that has been told to stop can still do so within MaxRestarts.
MayEnd(r) == stage[r] = "drain" \/ restarts + Cardinality({q \in Replicas : stage[q] = "drain"}) < MaxRestarts

\* Stop: Shutdown refuses new requests and waits for those in progress.
Stop(r) ==
  /\ stage[r] \in {"up", "deaf"} /\ MayEnd(r)
  /\ Goto(r, "drain")
  /\ since' = [since EXCEPT ![r] = now]
  /\ UNCHANGED <<vars, job, creds, fate>>

InProgress(r) == {w \in Workers : job[w].rep = r}

\* The process of r is gone, with all that it had in memory.
Gone(r) ==
  /\ Restart(r)
  /\ Goto(r, "down")
  /\ since' = [since EXCEPT ![r] = 0]
  /\ job' = [w \in Workers |-> IF job[w].rep = r THEN NoJob ELSE job[w]]
  /\ remembered' = [remembered EXCEPT ![r] = NoCredentials]
  /\ taught' = taught \ {r}

\* The process ends when its handlers have, or the grace is over.  It waits for none
\* of the tasks that they have started.
Exit(r) ==
  /\ stage[r] = "drain"
  /\ InProgress(r) = {} \/ now - since[r] >= Grace
  /\ Gone(r)
  /\ dropped' = dropped \cup {job[w].event : w \in InProgress(r)}
  /\ UNCHANGED <<registered, answered, handled, killed, times>>

\* A crash, or the end of the time that go-zero grants to a process.
Kill(r) ==
  /\ stage[r] # "down" /\ MayEnd(r)
  /\ Gone(r)
  /\ killed' = killed \cup {job[w].event : w \in InProgress(r)}
  /\ UNCHANGED <<registered, answered, handled, dropped, times>>

(***************************************************************************)
(* Credentials.                                                            *)
(***************************************************************************)
\* Fault: each part is remembered by itself.
RememberParts(r, t) ==
  [id     |-> IF Own[t].id # Nothing THEN Own[t].id ELSE remembered[r].id,
   secret |-> IF Own[t].secret # Nothing THEN Own[t].secret ELSE remembered[r].secret]

Remember(r, t) == IF Full(Own[t]) THEN Own[t] ELSE remembered[r]

\* The pair that the callbacks of t use in r; one that is not full is refused.
ResolveFeishuCreds(r, t) ==
  IF Full(Own[t]) THEN Own[t] ELSE IF Full(remembered[r]) THEN remembered[r] ELSE Configured

\* Any of the three register handlers.
Register(r, t) ==
  /\ stage[r] \in Serving
  /\ t \notin registered
  /\ registered' = registered \cup {t}
  /\ remembered' = [remembered EXCEPT ![r] = Remember(r, t)]
  /\ taught' = IF Full(Own[t]) THEN taught \cup {r} ELSE taught
  /\ UNCHANGED <<vars, service, job, fate>>

(***************************************************************************)
(* The callback.                                                           *)
(***************************************************************************)
\* A repeat is answered at once.
Repeat(e, r) ==
  /\ stage[r] \in Serving
  /\ Refuse(r, DedupKey(e))
  /\ answered' = answered \cup {e}
  /\ UNCHANGED <<service, job, creds, handled, killed, dropped, times>>

\* Anything else goes to the handler of its button, and is a repeat from now on.
Begin(w, e, r) ==
  /\ stage[r] \in Serving
  /\ job[w] = NoJob
  /\ Accept(r, DedupKey(e))
  /\ job' = [job EXCEPT ![w] = [event |-> e, rep |-> r, at |-> now]]
  /\ times' = [times EXCEPT ![e] = @ + 1]
  /\ UNCHANGED <<service, creds, answered, handled, killed, dropped>>

\* Every path of the three handlers ends in a toast, whatever the task is worth
\* that it may have started.
End(w) ==
  /\ job[w] # NoJob
  /\ job' = [job EXCEPT ![w] = NoJob]
  /\ answered' = answered \cup {job[w].event}
  /\ handled' = handled \cup {job[w].event}
  /\ UNCHANGED <<vars, service, creds, killed, dropped, times>>

Pass ==
  /\ \A w \in Workers : job[w] # NoJob => now < job[w].at + HandlerTime
  /\ Tick
  /\ UNCHANGED <<service, job, creds, fate>>

CallbackNext ==
  \/ \E r \in Replicas :
       \/ Start(r) \/ StartFails(r) \/ Started(r) \/ StopEarly(r) \/ Stop(r) \/ Exit(r) \/ Kill(r)
       \/ \E t \in Tokens : Register(r, t)
       \/ \E e \in Events : Repeat(e, r) \/ \E w \in Workers : Begin(w, e, r)
  \/ \E w \in Workers : End(w)
  \/ Pass

CallbackSpec == CallbackInit /\ [][CallbackNext]_callbackVars

(***************************************************************************)
(* Properties.                                                             *)
(***************************************************************************)
HasOwnId(e) == Id[e] # NoId /\ \A f \in Events : Id[f] = Id[e] => f = e

\* Feishu is told "handled already" only of what was: a click with an event_id of
\* its own that has been answered has had its handler, or has it still, or lost it
\* with a process.  The cache marks events before they are handled, and its keys
\* must not make one click pass for another on the same button.
AnsweredWasHandled ==
  \A e \in answered :
    HasOwnId(e) => e \in handled \cup killed \cup dropped \cup
                         {job[w].event : w \in {v \in Workers : job[v] # NoJob}}

\* A click is handled more than once only by other replicas, after a restart or
\* after the window: so often at most as there were lives of a process and windows.
HandlingsBounded ==
  \A e \in Events :
    times[e] <= (Cardinality(Replicas) + restarts) * (now \div (Window + 1) + 1)

\* The credentials a click is answered with are never the id of one application
\* and the secret of another, are those of the token if it carries them, and are
\* complete once a register request has brought a complete pair to this replica.
CredentialsFit ==
  \A r \in Replicas, t \in registered :
    LET pair == ResolveFeishuCreds(r, t) IN
    /\ Fits(pair)
    /\ Full(Own[t]) => pair = Own[t]
    /\ r \in taught => Full(pair)
===============================================================================
