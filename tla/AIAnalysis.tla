------------------------------ MODULE AIAnalysis ------------------------------
(***************************************************************************)
(* The analysis of an alert by an AI service: handleAIRegister,            *)
(* handleAITrigger and handleAIAnalysisCallback of                         *)
(* internal/gateway/handlers.go and Analyze of ai_engine.go, over the      *)
(* aiDedup cache of each replica.                                          *)
(*                                                                         *)
(* A worker is the goroutine that a handler starts with `go`.  The handler *)
(* itself is one step: it loads the token, whose data never change, and    *)
(* asks the cache.                                                         *)
(***************************************************************************)
EXTENDS Dedup, Config, FiniteSets

CONSTANTS
  Workers,      \* analyses that can be under way at once
  Replicas,     \* gateway processes
  Tokens,       \* alert cards
  Operators,    \* users who click the button of the card in Feishu
  Webhook,      \* stands for the operator where the trigger URL is opened
  Hooks,        \* Hooks[t]: how many webhooks the card of t is sent to
  Deployment,   \* configurations that the gateway may have been started with
  AiWindow,     \* ttl of aiDedup: 60 s
  AITimeout,    \* of a request to a provider: 300 s
  FeishuTimeout,\* of a request to Feishu: 15 s
  MaxTime,      \* bound on the clock, for TLC only
  MaxCrashes    \* bound on the crashes of a process

Readers == Operators \cup {Webhook}
Keys    == Tokens \X Readers

ASSUME AIAnalysisAssumption ==
  /\ Webhook \notin Operators
  /\ Hooks \in [Tokens -> Nat]
  /\ Deployment \subseteq Configs
  /\ {AiWindow, AITimeout, FeishuTimeout, MaxTime, MaxCrashes} \subseteq Nat

VARIABLES
  now,     \* the clock, in seconds
  config,  \* the configuration of all replicas
  entry,   \* entry[t]: "none", "stored" or "expired"
  aiSeen,  \* aiSeen[r]: the aiDedup cache of replica r
  pc,      \* pc[w]: where worker w stands
  job,     \* job[w]: what worker w works on
  crashes  \* crashes so far

vars == <<now, config, entry, aiSeen, pc, job, crashes>>

\* What Analyze returns, as far as it is known yet.
NoAnswer == [success |-> FALSE, provider |-> "none", fallback |-> FALSE]
Result   == [success: BOOLEAN, provider: Providers \cup {"none"}, fallback: BOOLEAN]

NoJob == [rep |-> "none"]

\* at: when the task was started; since: when the request under way was;
\* next: the provider in the chain; sends: cards left to send; asked: history, how
\* the requests to the providers have ended.
Job ==
  [key: Keys, rep: Replicas, at: Nat, since: Nat, next: Nat \ {0}, sends: Nat, result: Result,
   asked: [Providers -> {"not", "failed", "answered"}]]

Running(r, k) == {w \in Workers : pc[w] # "idle" /\ job[w].rep = r /\ job[w].key = k}

AnalysisTypeOK ==
  /\ now \in Nat
  /\ config \in Configs
  /\ entry \in [Tokens -> {"none", "stored", "expired"}]
  /\ aiSeen \in [Replicas -> [Keys -> Nat \cup {NotSeen}]]
  /\ pc \in [Workers -> {"idle", "ask", "auth", "send"}]
  /\ job \in [Workers -> Job \cup {NoJob}]
  /\ \A w \in Workers : pc[w] # "idle" => job[w] \in Job
  /\ crashes \in Nat

Init ==
  /\ now = 0
  /\ config \in {c \in Deployment : Validate(c)}
  /\ entry = [t \in Tokens |-> "none"]
  /\ aiSeen = [r \in Replicas |-> NoItems(Keys)]
  /\ pc = [w \in Workers |-> "idle"]
  /\ job = [w \in Workers |-> NoJob]
  /\ crashes = 0

Goto(w, l) == pc' = [pc EXCEPT ![w] = l]

End(w) ==
  /\ Goto(w, "idle")
  /\ job' = [job EXCEPT ![w] = NoJob]

Register(t) ==
  /\ entry[t] = "none"
  /\ entry' = [entry EXCEPT ![t] = "stored"]
  /\ UNCHANGED <<now, config, aiSeen, pc, job, crashes>>

Expire(t) ==
  /\ entry[t] = "stored"
  /\ entry' = [entry EXCEPT ![t] = "expired"]
  /\ UNCHANGED <<now, config, aiSeen, pc, job, crashes>>

(***************************************************************************)
(* The handlers.                                                           *)
(***************************************************************************)
Seen(r, k) == aiSeen' = [aiSeen EXCEPT ![r] = Checked(@, k, now, AiWindow)]

\* Load finds nothing, and the cache is not asked.
AskExpired(t) ==
  /\ entry[t] = "expired"
  /\ UNCHANGED vars

AskAgain(r, t, who) ==
  /\ entry[t] = "stored"
  /\ IsDuplicate(aiSeen[r], <<t, who>>, now, AiWindow)
  /\ Seen(r, <<t, who>>)
  /\ UNCHANGED <<now, config, entry, pc, job, crashes>>

\* The callback looks for credentials (ResolveFeishuCreds) only after the cache
\* has noted the click.
AskWithoutCredentials(r, t, who) ==
  /\ entry[t] = "stored" /\ who # Webhook
  /\ ~IsDuplicate(aiSeen[r], <<t, who>>, now, AiWindow)
  /\ Seen(r, <<t, who>>)
  /\ UNCHANGED <<now, config, entry, pc, job, crashes>>

Ask(w, r, t, who) ==
  /\ entry[t] = "stored"
  /\ ~IsDuplicate(aiSeen[r], <<t, who>>, now, AiWindow)
  /\ Seen(r, <<t, who>>)
  /\ pc[w] = "idle"
  /\ job' = [job EXCEPT ![w] =
       [key |-> <<t, who>>, rep |-> r, at |-> now, since |-> now, next |-> 1,
        sends |-> IF who = Webhook THEN Hooks[t] ELSE 1,
        result |-> NoAnswer, asked |-> [p \in Providers |-> "not"]]]
  /\ Goto(w, "ask")
  /\ UNCHANGED <<now, config, entry, crashes>>

(***************************************************************************)
(* The task.                                                               *)
(***************************************************************************)
\* Analyze is over: an operator's card needs an access token first.
Deliver(w, result, asked) ==
  /\ job' = [job EXCEPT ![w].since = now, ![w].result = result, ![w].asked = asked]
  /\ Goto(w, IF job[w].key[2] = Webhook THEN "send" ELSE "auth")

Chain  == ProviderChain(config)
Left(w) == job[w].next <= Len(Chain)

\* Status 200 with a content that is not empty.
Answered(w) ==
  /\ pc[w] = "ask" /\ Left(w)
  /\ LET p == Chain[job[w].next] IN
       Deliver(w, [success |-> TRUE, provider |-> p, fallback |-> job[w].next > 1],
                  [job[w].asked EXCEPT ![p] = "answered"])
  /\ UNCHANGED <<now, config, entry, aiSeen, crashes>>

\* Fault: the providers are asked in turn until one answers.
FailedAround(w) ==
  /\ pc[w] = "ask" /\ Left(w)
  /\ job' = [job EXCEPT ![w].since = now, ![w].asked[Chain[job[w].next]] = "failed",
                        ![w].next = IF @ = Len(Chain) THEN 1 ELSE @ + 1]
  /\ UNCHANGED <<now, config, entry, aiSeen, pc, crashes>>

\* No reply within AITimeout, or none that makes sense.
Failed(w) ==
  /\ pc[w] = "ask" /\ Left(w)
  /\ job' = [job EXCEPT ![w].since = now, ![w].asked[Chain[job[w].next]] = "failed",
                        ![w].next = @ + 1]
  /\ UNCHANGED <<now, config, entry, aiSeen, pc, crashes>>

\* Also where the chain is empty.
AllFailed(w) ==
  /\ pc[w] = "ask" /\ ~Left(w)
  /\ Deliver(w, NoAnswer, job[w].asked)
  /\ UNCHANGED <<now, config, entry, aiSeen, crashes>>

\* GetAccessToken, whose failure ends the task without a card.
Auth(w) ==
  /\ pc[w] = "auth"
  /\ \/ Goto(w, "send") /\ job' = [job EXCEPT ![w].since = now]
     \/ End(w)
  /\ UNCHANGED <<now, config, entry, aiSeen, crashes>>

\* Fault: one card too many.
SendOneMore(w) ==
  /\ pc[w] = "send"
  /\ IF job[w].sends < 0
     THEN End(w)
     ELSE job' = [job EXCEPT ![w].since = now, ![w].sends = @ - 1] /\ UNCHANGED pc
  /\ UNCHANGED <<now, config, entry, aiSeen, crashes>>

\* SendCard or sendFeishuWebhookCard: failures are at most logged.
Send(w) ==
  /\ pc[w] = "send"
  /\ IF job[w].sends = 0
     THEN End(w)
     ELSE job' = [job EXCEPT ![w].since = now, ![w].sends = @ - 1] /\ UNCHANGED pc
  /\ UNCHANGED <<now, config, entry, aiSeen, crashes>>

Task(w) == Answered(w) \/ Failed(w) \/ AllFailed(w) \/ Auth(w) \/ Send(w)

(***************************************************************************)
(* The environment.                                                        *)
(***************************************************************************)
Crash(r) ==
  /\ crashes < MaxCrashes
  /\ crashes' = crashes + 1
  /\ aiSeen' = [aiSeen EXCEPT ![r] = NoItems(Keys)]
  /\ pc' = [w \in Workers |-> IF job[w].rep = r THEN "idle" ELSE pc[w]]
  /\ job' = [w \in Workers |-> IF job[w].rep = r THEN NoJob ELSE job[w]]
  /\ UNCHANGED <<now, config, entry>>

\* A request lasts no longer than its timeout, and nothing else takes time.
Limit(w) ==
  CASE pc[w] = "ask" /\ Left(w)             -> AITimeout
    [] pc[w] = "auth"                       -> FeishuTimeout
    [] pc[w] = "send" /\ job[w].sends > 0   -> FeishuTimeout
    [] OTHER                                -> 0

Tick ==
  /\ now < MaxTime
  /\ \A w \in Workers : pc[w] # "idle" => now < job[w].since + Limit(w)
  /\ now' = now + 1
  /\ UNCHANGED <<config, entry, aiSeen, pc, job, crashes>>

Next ==
  \/ \E t \in Tokens :
       \/ Register(t) \/ Expire(t) \/ AskExpired(t)
       \/ \E r \in Replicas, who \in Readers :
            \/ AskAgain(r, t, who) \/ AskWithoutCredentials(r, t, who)
            \/ \E w \in Workers : Ask(w, r, t, who)
  \/ \E w \in Workers : Task(w)
  \/ \E r \in Replicas : Crash(r)
  \/ Tick

Spec == Init /\ [][Next]_vars

\* A goroutine runs again, and every request ends by its timeout at the latest.
FairSpec == Spec /\ \A w \in Workers : WF_vars(Task(w))

(***************************************************************************)
(* The answer of a provider, as the pieces that its headings divide it     *)
(* into.  A piece of another heading, or of a subheading (###), is "other". *)
(***************************************************************************)
Heads == {"root_cause", "suggestion", "impact"}
Piece == [head: Heads \cup {"other"}, blank: BOOLEAN]

Last(S) == CHOOSE i \in S : \A j \in S : j <= i

\* The piece that a section of the card shows; 0 is an empty section.
Section(content, head) ==
  LET at == {i \in DOMAIN content : content[i].head = head} IN
  IF at = {} THEN 0 ELSE IF content[Last(at)].blank THEN 0 ELSE Last(at)

Sections(content) == [head \in Heads |-> Section(content, head)]

\* The card shows all that the provider wrote, and stock phrases.
Raw == [head \in Heads |-> -1]

\* Fault: one empty section is enough to give the others up.
ParseSectionsStrictly(content) ==
  IF \E head \in Heads : Sections(content)[head] = 0 THEN Raw ELSE Sections(content)

ParseSections(content) ==
  IF \A head \in Heads : Sections(content)[head] = 0 THEN Raw ELSE Sections(content)

\* Over all answers of up to four pieces.
EveryAnswerShown ==
  \A n \in 1 .. 4 : \A content \in [1 .. n -> Piece] :
    LET shown == ParseSections(content) IN
    /\ \E head \in Heads : shown[head] # 0
    /\ \A i \in 1 .. n :
         content[i].head \in Heads /\ ~content[i].blank
           /\ (\A j \in 1 .. n : content[j].head = content[i].head => j = i)
         => shown[content[i].head] = i

(***************************************************************************)
(* Properties.                                                             *)
(***************************************************************************)
\* A replica never has two analyses of the same alert for the same reader under
\* way that were begun within one window, however long each of them lasts.
RunningSpaced ==
  \A v, w \in Workers :
    pc[v] # "idle" /\ pc[w] # "idle" /\ v # w
      /\ job[v].rep = job[w].rep /\ job[v].key = job[w].key
      => job[v].at + AiWindow < job[w].at \/ job[w].at + AiWindow < job[v].at

\* The sum of the timeouts of all requests of one analysis.
LongestTask(k) ==
  Cardinality(config.enabled) * AITimeout
    + (IF k[2] = Webhook THEN Hooks[k[1]] ELSE 2) * FeishuTimeout

\* The window of aiDedup is shorter than an analysis, so that one reader can have
\* several under way, but never more than windows fit into the longest one: the
\* providers are asked one after the other, and each once.
OverlapBounded ==
  \A r \in Replicas, k \in Keys :
    Cardinality(Running(r, k)) <= LongestTask(k) \div (AiWindow + 1) + 1

\* The card tells what happened: it shows an answer, of a provider that gave one,
\* as a fallback just if another was asked in vain; or it reports a failure, and
\* then every provider that is enabled and permitted was asked in vain.
CardTruthful ==
  \A w \in Workers :
    pc[w] \in {"auth", "send"} =>
      LET card == job[w].result
          is(how) == {p \in Providers : job[w].asked[p] = how} IN
      IF card.success
      THEN is("answered") = {card.provider} /\ (card.fallback <=> is("failed") # {})
      ELSE is("failed") = config.enabled \cap Permitted(config.strategy)

\* Every analysis ends, though the next provider is asked whenever one fails.
AnalysisEnds == \A w \in Workers : pc[w] # "idle" ~> pc[w] = "idle"

\* Whatever a provider has answered, the card of a successful analysis is not empty,
\* and text under a heading that occurs once is in the section of that heading,
\* though the provider may have left out or added other pieces.
AnswerShown ==
  \A w \in Workers :
    pc[w] \in {"auth", "send"} /\ job[w].result.success => EveryAnswerShown

\* The gateway runs with a configuration that Validate has let through, and with
\* any of those no provider is asked without an address and a key; each that is
\* enabled and that the strategy permits is asked once, the preferred one first;
\* and tokens meant for Redis, which the replicas share, are never put into files.
ConfigSound == Validate(config) /\ ValidOnesSound
===============================================================================
