--------------------------- MODULE AIAnalysisProofs ---------------------------
(***************************************************************************)
(* For every number of readers, replicas and crashes, whatever the window, *)
(* the timeouts and the chain of providers: a replica has no two analyses  *)
(* of the same alert for the same reader that were begun within a window,  *)
(* and no more of them under way than fit into the longest one; the card   *)
(* tells what happened; and something of every answer is shown.            *)
(***************************************************************************)
EXTENDS AIAnalysis, FiniteSetTheorems, TLAPS

(***************************************************************************)
(* The inductive invariant: the cache remembers the last analysis that was *)
(* begun, unless it is older than the window.                              *)
(***************************************************************************)
Remembered(w) ==
  pc[w] # "idle" =>
    LET seen == aiSeen[job[w].rep][job[w].key] IN
    /\ job[w].at <= now
    /\ IF seen = NotSeen THEN job[w].at + AiWindow < now ELSE job[w].at <= seen

IInv == AnalysisTypeOK /\ RunningSpaced /\ \A w \in Workers : Remembered(w)

(***************************************************************************)
(* Lemmas about the cache and the jobs.                                    *)
(***************************************************************************)
\* The fields of a job.
LEMMA JobParts ==
  ASSUME NEW j \in Job
  PROVE  /\ j.key \in Keys /\ j.rep \in Replicas /\ j.at \in Nat /\ j.since \in Nat
         /\ j.next \in Nat \ {0} /\ j.sends \in Nat /\ j.result \in Result
         /\ j.asked \in [Providers -> {"not", "failed", "answered"}]
BY DEF Job

\* A check keeps the type of the cache.
LEMMA CheckedType ==
  ASSUME NEW d \in [Keys -> Nat \cup {NotSeen}], NEW k \in Keys, NEW at \in Nat
  PROVE  Checked(d, k, at, AiWindow) \in [Keys -> Nat \cup {NotSeen}]
BY DEF Checked, Purge

\* What a check makes of an entry: it is swept if it is too old, and the entry of
\* the key that is checked is new then.
LEMMA CheckedEntry ==
  ASSUME NEW d \in [Keys -> Nat \cup {NotSeen}], NEW k \in Keys, NEW j \in Keys, NEW at \in Nat
  PROVE  /\ Checked(d, k, at, AiWindow)[j] =
              IF j = k /\ ~IsDuplicate(d, k, at, AiWindow) THEN at
              ELSE IF at - d[j] > AiWindow THEN NotSeen ELSE d[j]
         /\ ~IsDuplicate(d, k, at, AiWindow) => at - d[k] > AiWindow \/ d[k] = NotSeen
BY DEF Checked, Purge, IsDuplicate

(***************************************************************************)
(* The configuration.                                                      *)
(***************************************************************************)
\* Two different providers that are linked, in their order.
LEMMA LinkTwo ==
  ASSUME NEW c, NEW p \in Providers, NEW q \in Providers, p # q
  PROVE  LET chain == Link(c, p) \o Link(c, q) IN
         /\ chain \in Seq(Providers)
         /\ {chain[i] : i \in DOMAIN chain} = c.enabled \cap {p, q}
         /\ \A i, j \in DOMAIN chain : chain[i] = chain[j] => i = j
         /\ p \in c.enabled => chain[1] = p
<1>1. CASE p \in c.enabled /\ q \in c.enabled
  <2> DEFINE ch == <<p>> \o <<q>>
  <2>1. Link(c, p) \o Link(c, q) = ch
    BY <1>1 DEF Link
  <2>2. /\ <<p>> \in Seq(Providers) /\ <<q>> \in Seq(Providers)
        /\ Len(<<p>>) = 1 /\ Len(<<q>>) = 1
    OBVIOUS
  <2>3. ch \in Seq(Providers) /\ DOMAIN ch = {1, 2}
    BY <2>2
  <2>4. ch[1] = p
    BY <2>2
  <2>5. ch[2] = q
    BY <2>2
  <2> HIDE DEF ch
  <2>6. {ch[i] : i \in DOMAIN ch} = c.enabled \cap {p, q}
    BY <1>1, <2>3, <2>4, <2>5
  <2>7. \A i, j \in DOMAIN ch : ch[i] = ch[j] => i = j
    BY <2>3, <2>4, <2>5
  <2> QED
    BY <2>1, <2>3, <2>4, <2>6, <2>7
<1>2. CASE p \in c.enabled /\ q \notin c.enabled
  <2>1. Link(c, p) \o Link(c, q) = <<p>>
    BY <1>2 DEF Link
  <2> QED
    BY <1>2, <2>1
<1>3. CASE p \notin c.enabled /\ q \in c.enabled
  <2>1. Link(c, p) \o Link(c, q) = <<q>>
    BY <1>3 DEF Link
  <2> QED
    BY <1>3, <2>1
<1>4. CASE p \notin c.enabled /\ q \notin c.enabled
  <2>1. Link(c, p) \o Link(c, q) = <<>>
    BY <1>4 DEF Link
  <2> QED
    BY <1>4, <2>1
<1> QED
  BY <1>1, <1>2, <1>3, <1>4

\* A provider that is linked alone.
LEMMA LinkOne ==
  ASSUME NEW c, NEW p \in Providers
  PROVE  LET chain == Link(c, p) IN
         /\ chain \in Seq(Providers)
         /\ {chain[i] : i \in DOMAIN chain} = c.enabled \cap {p}
         /\ \A i, j \in DOMAIN chain : chain[i] = chain[j] => i = j
         /\ p \in c.enabled => chain[1] = p
BY DEF Link

\* The chain is what the guide says of the strategy.
LEMMA ChainIs ==
  ASSUME NEW c \in Configs
  PROVE  LET chain == ProviderChain(c)
             asked == {chain[i] : i \in DOMAIN chain} IN
         /\ chain \in Seq(Providers)
         /\ asked = c.enabled \cap Permitted(c.strategy)
         /\ \A i, j \in DOMAIN chain : chain[i] = chain[j] => i = j
         /\ First(c.strategy) \in asked => chain[1] = First(c.strategy)
<1> DEFINE Good(chain, p, S) ==
             /\ chain \in Seq(Providers)
             /\ {chain[i] : i \in DOMAIN chain} = c.enabled \cap S
             /\ \A i, j \in DOMAIN chain : chain[i] = chain[j] => i = j
             /\ p \in c.enabled => chain[1] = p
<1> DEFINE o == "openclaw"
           f == "iflyelf"
<1>0. o \in Providers /\ f \in Providers /\ o # f /\ Providers = {o, f}
  BY DEF Providers
<1> HIDE DEF o, f
<1>1. Good(Link(c, f) \o Link(c, o), f, {f, o})
  BY <1>0, LinkTwo
<1>2. Good(Link(c, o) \o Link(c, f), o, {o, f})
  BY <1>0, LinkTwo
<1>3. Good(Link(c, o), o, {o})
  BY <1>0, LinkOne
<1>4. Good(Link(c, f), f, {f})
  BY <1>0, LinkOne
<1>5. Good(ProviderChain(c), First(c.strategy), Permitted(c.strategy))
  <2>1. CASE c.strategy = "iflyelf_first"
    BY <1>0, <1>1, <2>1 DEF ProviderChain, First, Permitted, o, f
  <2>2. CASE c.strategy = "openclaw_only"
    BY <1>3, <2>2 DEF ProviderChain, First, Permitted, o, f
  <2>3. CASE c.strategy = "iflyelf_only"
    BY <1>4, <2>3 DEF ProviderChain, First, Permitted, o, f
  <2>4. CASE c.strategy \notin {"iflyelf_first", "openclaw_only", "iflyelf_only"}
    BY <1>0, <1>2, <2>4 DEF ProviderChain, First, Permitted, o, f
  <2> QED
    BY <2>1, <2>2, <2>3, <2>4
<1> QED
  BY <1>5

\* Every configuration that Validate lets through is sound.
LEMMA ValidIsSound == ValidOnesSound
<1> SUFFICES ASSUME NEW c \in Configs, Validate(c)
             PROVE  Sound(c)
  BY DEF ValidOnesSound
<1>1. c.enabled \subseteq c.url /\ c.enabled \subseteq c.token
  BY DEF Validate
<1>2. c.store = "redis" => StoreClient(c) # "file"
  BY DEF Validate, StoreClient
<1> QED
  BY <1>1, <1>2, ChainIs DEF Sound

(***************************************************************************)
(* Type correctness.                                                       *)
(***************************************************************************)
\* The constants are numbers, and the number of webhooks is one.
LEMMA Numbers ==
  /\ AiWindow \in Nat /\ Hooks \in [Tokens -> Nat]
  /\ \A t \in Tokens, who \in Readers : <<t, who>> \in Keys
BY AIAnalysisAssumption DEF AIAnalysisAssumption, Keys

\* A worker that goes on with a well typed job, or ends, is well typed.
LEMMA WorkerType ==
  ASSUME AnalysisTypeOK, NEW w \in Workers,
         \/ End(w)
         \/ \E l \in {"ask", "auth", "send"}, new \in Job :
              pc' = [pc EXCEPT ![w] = l] /\ job' = [job EXCEPT ![w] = new]
  PROVE  /\ pc' \in [Workers -> {"idle", "ask", "auth", "send"}]
         /\ job' \in [Workers -> Job \cup {NoJob}]
         /\ \A v \in Workers : pc'[v] # "idle" => job'[v] \in Job
BY DEF AnalysisTypeOK, End, Goto

\* A worker under way is so since before the step, with the job that it had begun.
AsBegun(v) ==
  pc'[v] # "idle" =>
    /\ pc[v] # "idle"
    /\ job'[v].key = job[v].key /\ job'[v].rep = job[v].rep /\ job'[v].at = job[v].at

\* A step in which one worker goes on with the job it has begun, or ends it.
LEMMA GoesOn ==
  ASSUME AnalysisTypeOK, NEW w \in Workers, pc[w] # "idle",
         UNCHANGED <<now, config, entry, aiSeen, crashes>>,
         \/ End(w)
         \/ \E l \in {"ask", "auth", "send"}, new \in Job :
              /\ pc' = [pc EXCEPT ![w] = l] /\ job' = [job EXCEPT ![w] = new]
              /\ new.key = job[w].key /\ new.rep = job[w].rep /\ new.at = job[w].at
  PROVE  AnalysisTypeOK' /\ \A v \in Workers : AsBegun(v)
<1>1. /\ pc' \in [Workers -> {"idle", "ask", "auth", "send"}]
      /\ job' \in [Workers -> Job \cup {NoJob}]
      /\ \A v \in Workers : pc'[v] # "idle" => job'[v] \in Job
  BY WorkerType
<1>2. \A v \in Workers : AsBegun(v)
  BY DEF AsBegun, End, Goto, AnalysisTypeOK
<1> QED
  BY <1>1, <1>2 DEF AnalysisTypeOK

\* The provider whose turn it is.
LEMMA TurnType ==
  ASSUME AnalysisTypeOK, NEW w \in Workers, job[w] \in Job, Left(w)
  PROVE  Chain[job[w].next] \in Providers
<1>1. Chain \in Seq(Providers)
  BY ChainIs DEF AnalysisTypeOK, Chain
<1>2. job[w].next \in Nat \ {0}
  BY JobParts
<1> QED
  BY <1>1, <1>2 DEF Left

\* A task goes on with its job or ends it.
LEMMA TaskStep ==
  ASSUME AnalysisTypeOK, NEW w \in Workers, Task(w)
  PROVE  AnalysisTypeOK' /\ \A v \in Workers : AsBegun(v)
<1>0. /\ pc[w] # "idle" /\ now \in Nat /\ job[w] \in Job
      /\ UNCHANGED <<now, config, entry, aiSeen, crashes>>
  BY DEF AnalysisTypeOK, Task, Answered, Failed, AllFailed, Auth, Send
<1> DEFINE Renewed(new) == job' = [job EXCEPT ![w] = new]
<1>1. ASSUME NEW result \in Result, NEW asked \in [Providers -> {"not", "failed", "answered"}],
             Deliver(w, result, asked)
      PROVE  AnalysisTypeOK' /\ \A v \in Workers : AsBegun(v)
  <2> DEFINE new == [job[w] EXCEPT !.since = now, !.result = result, !.asked = asked]
  <2>1. new \in Job /\ new.key = job[w].key /\ new.rep = job[w].rep /\ new.at = job[w].at
    BY <1>0 DEF Job
  <2>2. Renewed(new)
    BY <1>0, <1>1 DEF Deliver, AnalysisTypeOK
  <2>3. \E l \in {"auth", "send"} : pc' = [pc EXCEPT ![w] = l]
    BY <1>1 DEF Deliver, Goto
  <2> HIDE DEF new
  <2> QED
    BY <1>0, <2>1, <2>2, <2>3, GoesOn
<1>2. CASE Answered(w)
  <2> DEFINE p == Chain[job[w].next]
             result == [success |-> TRUE, provider |-> p, fallback |-> job[w].next > 1]
             asked == [job[w].asked EXCEPT ![p] = "answered"]
  <2>1. Deliver(w, result, asked)
    BY <1>2 DEF Answered
  <2>2. asked \in [Providers -> {"not", "failed", "answered"}]
    BY <1>0, JobParts
  <2>3. result \in Result
    BY <1>0, <1>2, TurnType, JobParts DEF Answered, Result
  <2> HIDE DEF result, asked
  <2> QED
    BY <1>1, <2>1, <2>2, <2>3
<1>3. CASE Failed(w)
  <2> DEFINE p == Chain[job[w].next]
             asked == [job[w].asked EXCEPT ![p] = "failed"]
             new == [job[w] EXCEPT !.since = now, !.asked = asked, !.next = @ + 1]
  <2>0. job[w].next + 1 \in Nat \ {0}
    BY <1>0, JobParts
  <2>4. asked \in [Providers -> {"not", "failed", "answered"}]
    BY <1>0, JobParts
  <2>1. Renewed(new)
    BY <1>0, <1>3 DEF Failed, AnalysisTypeOK
  <2> HIDE DEF asked
  <2>2. new \in Job /\ new.key = job[w].key /\ new.rep = job[w].rep /\ new.at = job[w].at
    BY <1>0, <2>0, <2>4 DEF Job
  <2>3. pc' = [pc EXCEPT ![w] = "ask"]
    BY <1>3 DEF Failed, AnalysisTypeOK
  <2> HIDE DEF new
  <2> QED
    BY <1>0, <2>1, <2>2, <2>3, GoesOn
<1>4. CASE AllFailed(w)
  <2>1. NoAnswer \in Result
    BY DEF NoAnswer, Result
  <2> QED
    BY <1>0, <1>1, <1>4, <2>1, JobParts DEF AllFailed
<1>5. CASE Auth(w) \/ Send(w)
  <2>1. CASE End(w)
    BY <1>0, <2>1, GoesOn
  <2>2. CASE job' = [job EXCEPT ![w].since = now] /\ Goto(w, "send")
    <3> DEFINE new == [job[w] EXCEPT !.since = now]
    <3>1. new \in Job /\ new.key = job[w].key /\ new.rep = job[w].rep /\ new.at = job[w].at
      BY <1>0 DEF Job
    <3>2. Renewed(new)
      BY <1>0, <2>2 DEF AnalysisTypeOK
    <3>3. pc' = [pc EXCEPT ![w] = "send"]
      BY <2>2 DEF Goto
    <3> HIDE DEF new
    <3> QED
      BY <1>0, <3>1, <3>2, <3>3, GoesOn
  <2>3. CASE /\ pc[w] = "send" /\ UNCHANGED pc /\ job[w].sends # 0
             /\ job' = [job EXCEPT ![w].since = now, ![w].sends = @ - 1]
    <3> DEFINE new == [job[w] EXCEPT !.since = now, !.sends = @ - 1]
    <3>0. job[w].sends - 1 \in Nat
      BY <1>0, <2>3, JobParts
    <3>1. new \in Job /\ new.key = job[w].key /\ new.rep = job[w].rep /\ new.at = job[w].at
      BY <1>0, <3>0 DEF Job
    <3>2. Renewed(new)
      BY <1>0, <2>3 DEF AnalysisTypeOK
    <3>3. pc' = [pc EXCEPT ![w] = "send"]
      BY <2>3 DEF AnalysisTypeOK
    <3> HIDE DEF new
    <3> QED
      BY <1>0, <3>1, <3>2, <3>3, GoesOn
  <2> QED
    BY <1>5, <2>1, <2>2, <2>3 DEF Auth, Send
<1> QED
  BY <1>2, <1>3, <1>4, <1>5 DEF Task

\* Every step keeps the variables well typed.
LEMMA TypeStep ==
  ASSUME AnalysisTypeOK, [Next]_vars
  PROVE  AnalysisTypeOK'
<1>1. ASSUME NEW t \in Tokens, Register(t) \/ Expire(t) \/ AskExpired(t)
      PROVE  AnalysisTypeOK'
  BY <1>1 DEF Register, Expire, AskExpired, AnalysisTypeOK, vars
<1>2. ASSUME NEW r \in Replicas, NEW t \in Tokens, NEW who \in Readers, Seen(r, <<t, who>>)
      PROVE  aiSeen' \in [Replicas -> [Keys -> Nat \cup {NotSeen}]]
  <2>1. Checked(aiSeen[r], <<t, who>>, now, AiWindow) \in [Keys -> Nat \cup {NotSeen}]
    BY CheckedType, Numbers DEF AnalysisTypeOK
  <2> QED
    BY <1>2, <2>1 DEF Seen, AnalysisTypeOK
<1>3. ASSUME NEW r \in Replicas, NEW t \in Tokens, NEW who \in Readers,
             AskAgain(r, t, who) \/ AskWithoutCredentials(r, t, who)
      PROVE  AnalysisTypeOK'
  BY <1>2, <1>3 DEF AskAgain, AskWithoutCredentials, AnalysisTypeOK
<1>4. ASSUME NEW w \in Workers, NEW r \in Replicas, NEW t \in Tokens, NEW who \in Readers,
             Ask(w, r, t, who)
      PROVE  AnalysisTypeOK'
  <2> DEFINE new == [key |-> <<t, who>>, rep |-> r, at |-> now, since |-> now, next |-> 1,
                     sends |-> IF who = Webhook THEN Hooks[t] ELSE 1,
                     result |-> NoAnswer, asked |-> [p \in Providers |-> "not"]]
  <2>1. job' = [job EXCEPT ![w] = new] /\ pc' = [pc EXCEPT ![w] = "ask"]
    BY <1>4 DEF Ask, Goto
  <2>2. NoAnswer \in Result /\ <<t, who>> \in Keys /\ now \in Nat /\ Hooks[t] \in Nat
    BY Numbers DEF NoAnswer, Result, AnalysisTypeOK
  <2>3. new \in Job
    BY <2>2 DEF Job
  <2> HIDE DEF new
  <2>4. /\ pc' \in [Workers -> {"idle", "ask", "auth", "send"}]
        /\ job' \in [Workers -> Job \cup {NoJob}]
        /\ \A v \in Workers : pc'[v] # "idle" => job'[v] \in Job
    BY <2>1, <2>3, WorkerType
  <2> QED
    BY <1>2, <1>4, <2>4 DEF Ask, AnalysisTypeOK
<1>5. ASSUME NEW r \in Replicas, Crash(r)
      PROVE  AnalysisTypeOK'
  BY <1>5 DEF Crash, AnalysisTypeOK, NoItems
<1>6. CASE Tick \/ UNCHANGED vars
  BY <1>6 DEF Tick, vars, AnalysisTypeOK
<1> QED
  BY <1>1, <1>3, <1>4, <1>5, <1>6, TaskStep DEF Next

(***************************************************************************)
(* The invariant.                                                          *)
(***************************************************************************)
\* A step that begins no analysis leaves those under way as far apart as they are.
LEMMA StaysSpaced ==
  ASSUME RunningSpaced, \A v \in Workers : AsBegun(v)
  PROVE  RunningSpaced'
BY DEF RunningSpaced, AsBegun

\* A check of the cache loses no analysis that was begun within the window.
LEMMA SeenStep ==
  ASSUME IInv, NEW r \in Replicas, NEW k \in Keys, NEW v \in Workers, pc[v] # "idle",
         Seen(r, k), now' = now
  PROVE  /\ LET seen == aiSeen'[job[v].rep][job[v].key] IN
              IF seen = NotSeen THEN job[v].at + AiWindow < now ELSE job[v].at <= seen
         /\ ~IsDuplicate(aiSeen[r], k, now, AiWindow) /\ job[v].rep = r /\ job[v].key = k
              => job[v].at + AiWindow < now
<1> DEFINE q == job[v].rep
           j == job[v].key
<1>1. /\ q \in Replicas /\ j \in Keys /\ job[v].at \in Nat /\ now \in Nat /\ AiWindow \in Nat
      /\ aiSeen[r] \in [Keys -> Nat \cup {NotSeen}] /\ aiSeen[q][j] \in Nat \cup {NotSeen}
      /\ NotSeen = -1
  BY JobParts, Numbers DEF IInv, AnalysisTypeOK, NotSeen
<1>2. /\ job[v].at <= now
      /\ IF aiSeen[q][j] = NotSeen THEN job[v].at + AiWindow < now ELSE job[v].at <= aiSeen[q][j]
  BY DEF IInv, Remembered
<1>3. CASE q # r
  <2>1. aiSeen'[q] = aiSeen[q]
    BY <1>1, <1>3 DEF Seen, IInv, AnalysisTypeOK
  <2> QED
    BY <1>2, <1>3, <2>1
<1>4. CASE q = r
  <2>1. aiSeen'[q] = Checked(aiSeen[r], k, now, AiWindow)
    BY <1>1, <1>4 DEF Seen, IInv, AnalysisTypeOK
  <2>2. /\ aiSeen'[q][j] = IF j = k /\ ~IsDuplicate(aiSeen[r], k, now, AiWindow) THEN now
                           ELSE IF now - aiSeen[r][j] > AiWindow THEN NotSeen ELSE aiSeen[r][j]
        /\ ~IsDuplicate(aiSeen[r], k, now, AiWindow)
              => now - aiSeen[r][k] > AiWindow \/ aiSeen[r][k] = NotSeen
    BY <1>1, <2>1, CheckedEntry
  <2> HIDE DEF q, j
  <2>3. IF aiSeen'[q][j] = NotSeen THEN job[v].at + AiWindow < now ELSE job[v].at <= aiSeen'[q][j]
    BY <1>1, <1>2, <1>4, <2>2
  <2>4. ~IsDuplicate(aiSeen[r], k, now, AiWindow) /\ j = k => job[v].at + AiWindow < now
    BY <1>1, <1>2, <1>4, <2>2
  <2> QED
    BY <1>4, <2>3, <2>4 DEF q, j
<1> QED
  BY <1>3, <1>4

\* Every step keeps the invariant.
LEMMA InvStep == IInv /\ [Next]_vars => IInv'
<1> SUFFICES ASSUME IInv, [Next]_vars
             PROVE  RunningSpaced' /\ \A w \in Workers : Remembered(w)'
  BY TypeStep DEF IInv
<1>0. AnalysisTypeOK /\ AnalysisTypeOK'
  BY TypeStep DEF IInv
<1>1. ASSUME UNCHANGED <<now, aiSeen>>, \A v \in Workers : AsBegun(v)
      PROVE  RunningSpaced' /\ \A w \in Workers : Remembered(w)'
  BY <1>1, StaysSpaced DEF IInv, Remembered, AsBegun
<1>2. ASSUME NEW t \in Tokens, Register(t) \/ Expire(t) \/ AskExpired(t)
      PROVE  RunningSpaced' /\ \A w \in Workers : Remembered(w)'
  BY <1>1, <1>2 DEF Register, Expire, AskExpired, vars, AsBegun
<1>3. ASSUME NEW r \in Replicas, NEW t \in Tokens, NEW who \in Readers,
             AskAgain(r, t, who) \/ AskWithoutCredentials(r, t, who)
      PROVE  RunningSpaced' /\ \A w \in Workers : Remembered(w)'
  <2>1. UNCHANGED <<now, pc, job>> /\ Seen(r, <<t, who>>) /\ <<t, who>> \in Keys
    BY <1>3, Numbers DEF AskAgain, AskWithoutCredentials
  <2>2. RunningSpaced'
    BY <2>1, StaysSpaced DEF IInv, AsBegun
  <2>3. ASSUME NEW v \in Workers
        PROVE  Remembered(v)'
    BY <2>1, SeenStep DEF Remembered, IInv
  <2> QED
    BY <2>2, <2>3
<1>4. ASSUME NEW w \in Workers, NEW r \in Replicas, NEW t \in Tokens, NEW who \in Readers,
             Ask(w, r, t, who)
      PROVE  RunningSpaced' /\ \A v \in Workers : Remembered(v)'
  <2> DEFINE k == <<t, who>>
  <2>1. /\ now' = now /\ Seen(r, k) /\ k \in Keys /\ pc[w] = "idle"
        /\ ~IsDuplicate(aiSeen[r], k, now, AiWindow)
    BY <1>4, Numbers DEF Ask
  <2>2. job'[w].key = k /\ job'[w].rep = r /\ job'[w].at = now
    BY <1>0, <1>4 DEF Ask, AnalysisTypeOK
  <2>3. \A v \in Workers : v # w => pc'[v] = pc[v] /\ job'[v] = job[v]
    BY <1>0, <1>4 DEF Ask, Goto, AnalysisTypeOK
  <2> HIDE DEF k
  <2>4. \A v \in Workers :
          pc[v] # "idle" /\ job[v].rep = r /\ job[v].key = k => job[v].at + AiWindow < now
    BY <2>1, SeenStep
  <2>5. RunningSpaced'
    BY <2>1, <2>2, <2>3, <2>4 DEF RunningSpaced, IInv
  <2>6. Remembered(w)'
    <3>1. aiSeen'[r] = Checked(aiSeen[r], k, now, AiWindow)
      BY <1>0, <2>1 DEF Seen, AnalysisTypeOK
    <3>2. aiSeen'[r][k] = now
      BY <1>0, <2>1, <3>1, CheckedEntry DEF AnalysisTypeOK
    <3> QED
      BY <1>0, <2>1, <2>2, <3>2 DEF Remembered, NotSeen, AnalysisTypeOK
  <2>7. ASSUME NEW v \in Workers, v # w
        PROVE  Remembered(v)'
    BY <2>1, <2>3, <2>7, SeenStep DEF Remembered, IInv
  <2> QED
    BY <2>5, <2>6, <2>7
<1>5. ASSUME NEW w \in Workers, Task(w)
      PROVE  RunningSpaced' /\ \A v \in Workers : Remembered(v)'
  BY <1>0, <1>1, <1>5, TaskStep DEF Task, Answered, Failed, AllFailed, Auth, Send
<1>6. ASSUME NEW r \in Replicas, Crash(r)
      PROVE  RunningSpaced' /\ \A w \in Workers : Remembered(w)'
  <2>1. \A v \in Workers : AsBegun(v) /\ (pc'[v] # "idle" => job[v].rep # r)
    BY <1>6 DEF Crash, AsBegun
  <2>2. \A v \in Workers : pc'[v] # "idle" => aiSeen'[job[v].rep] = aiSeen[job[v].rep]
    BY <1>0, <1>6, <2>1, JobParts DEF Crash, AnalysisTypeOK, AsBegun
  <2> QED
    BY <1>6, <2>1, <2>2, StaysSpaced DEF IInv, Remembered, AsBegun, Crash
<1>7. CASE Tick
  <2>1. now' = now + 1 /\ UNCHANGED <<aiSeen, pc, job>> /\ now \in Nat
    BY <1>0, <1>7 DEF Tick, AnalysisTypeOK
  <2>2. RunningSpaced'
    BY <2>1, StaysSpaced DEF IInv, AsBegun
  <2>3. ASSUME NEW v \in Workers, pc[v] # "idle"
        PROVE  Remembered(v)'
    <3>1. job[v].at \in Nat /\ AiWindow \in Nat
      BY <1>0, <2>3, JobParts, Numbers DEF AnalysisTypeOK
    <3> QED
      BY <2>1, <2>3, <3>1 DEF IInv, Remembered
  <2> QED
    BY <2>1, <2>2, <2>3 DEF Remembered
<1>8. CASE UNCHANGED vars
  BY <1>1, <1>8 DEF vars, AsBegun
<1> QED
  BY <1>2, <1>3, <1>4, <1>5, <1>6, <1>7, <1>8 DEF Next

\* The invariant holds at first.
LEMMA InitInv == Init => IInv
<1> SUFFICES ASSUME Init
             PROVE  AnalysisTypeOK
  BY DEF Init, IInv, RunningSpaced, Remembered
<1> QED
  BY AIAnalysisAssumption DEF AIAnalysisAssumption, Init, AnalysisTypeOK, NoItems

\* The invariant holds in every state.
LEMMA Invariant == Spec => []IInv
BY InitInv, InvStep, PTL DEF Spec

\* The configuration stays.
LEMMA ConfigStays == [Next]_vars => config' = config
<1>1. ASSUME NEW w \in Workers, Task(w)
      PROVE  config' = config
  BY <1>1 DEF Task, Answered, Failed, AllFailed, Auth, Send
<1>2. ASSUME NEW t \in Tokens, Register(t) \/ Expire(t) \/ AskExpired(t)
      PROVE  config' = config
  BY <1>2 DEF Register, Expire, AskExpired, vars
<1>3. ASSUME NEW t \in Tokens, NEW r \in Replicas, NEW who \in Readers,
             \/ AskAgain(r, t, who) \/ AskWithoutCredentials(r, t, who)
             \/ \E w \in Workers : Ask(w, r, t, who)
      PROVE  config' = config
  BY <1>3 DEF AskAgain, AskWithoutCredentials, Ask
<1>4. Tick \/ UNCHANGED vars \/ (\E r \in Replicas : Crash(r)) => config' = config
  BY DEF Tick, vars, Crash
<1> QED
  BY <1>1, <1>2, <1>3, <1>4 DEF Next

(***************************************************************************)
(* The theorems.                                                           *)
(***************************************************************************)
\* The variables stay well typed: no card is sent that is not due, and the provider
\* whose turn it is exists.
THEOREM AnalysisTypeCorrect == Spec => []AnalysisTypeOK
<1>1. IInv => AnalysisTypeOK
  BY DEF IInv
<1> QED
  BY <1>1, Invariant, PTL

\* Analyses of one alert for one reader in one replica are begun more than a window
\* apart, as long as they are under way together.
THEOREM AnalysesAreSpaced == Spec => []RunningSpaced
<1>1. IInv => RunningSpaced
  BY DEF IInv
<1> QED
  BY <1>1, Invariant, PTL

\* Every configuration of all that Validate lets through leads to the chain of
\* providers and the token store that it asks for, and the gateway runs with no other.
THEOREM RunsSoundly == Spec => []ConfigSound
<1>1. Init => Validate(config)
  BY DEF Init
<1>2. Validate(config) /\ [Next]_vars => Validate(config)'
  BY ConfigStays
<1>3. Validate(config) => ConfigSound
  BY ValidIsSound DEF ConfigSound
<1> QED
  BY <1>1, <1>2, <1>3, PTL DEF Spec

(***************************************************************************)
(* What the card says.                                                     *)
(***************************************************************************)
\* The providers before the one whose turn it is have failed, and no other was asked.
AskedUpTo(w) ==
  pc[w] = "ask" =>
    /\ job[w].next <= Len(Chain) + 1
    /\ \A p \in Providers :
         /\ job[w].asked[p] \in {"not", "failed"}
         /\ job[w].asked[p] = "failed" <=> \E i \in 1 .. job[w].next - 1 : Chain[i] = p

\* The card of w tells what happened.
Truthful(w) ==
  pc[w] \in {"auth", "send"} =>
    LET card == job[w].result
        is(how) == {p \in Providers : job[w].asked[p] = how} IN
    IF card.success
    THEN is("answered") = {card.provider} /\ (card.fallback <=> is("failed") # {})
    ELSE is("failed") = config.enabled \cap Permitted(config.strategy)

\* Worker v ends, or is not concerned by a step.
Untouched(v) == pc'[v] = "idle" \/ (pc'[v] = pc[v] /\ job'[v] = job[v])

\* The names of the fields of a job.
LEMMA JobFields ==
  ASSUME NEW j \in Job
  PROVE  DOMAIN j = {"key", "rep", "at", "since", "next", "sends", "result", "asked"}
BY DEF Job

\* What the end of Analyze leaves in the job.
LEMMA Delivered ==
  ASSUME AnalysisTypeOK, NEW w \in Workers, pc[w] # "idle", NEW result \in Result,
         NEW asked \in [Providers -> {"not", "failed", "answered"}], Deliver(w, result, asked)
  PROVE  /\ job'[w].since = now /\ job'[w].result = result /\ job'[w].asked = asked
         /\ job'[w].key = job[w].key /\ job'[w].at = job[w].at /\ job'[w].sends = job[w].sends
         /\ pc'[w] = IF job[w].key[2] = Webhook THEN "send" ELSE "auth"
         /\ \A v \in Workers \ {w} : Untouched(v)
<1>1. /\ job' = [job EXCEPT ![w] = [job[w] EXCEPT !.since = now, !.result = result, !.asked = asked]]
      /\ pc' = [pc EXCEPT ![w] = IF job[w].key[2] = Webhook THEN "send" ELSE "auth"]
      /\ job[w] \in Job
  BY DEF Deliver, Goto, AnalysisTypeOK
<1>2. job'[w] = [job[w] EXCEPT !.since = now, !.result = result, !.asked = asked]
  BY <1>1 DEF AnalysisTypeOK
<1>3. /\ job'[w].since = now /\ job'[w].result = result /\ job'[w].asked = asked
      /\ job'[w].key = job[w].key /\ job'[w].at = job[w].at /\ job'[w].sends = job[w].sends
  BY <1>2, JobFields, <1>1
<1>4. \A v \in Workers \ {w} : Untouched(v)
  BY <1>1 DEF AnalysisTypeOK, Untouched
<1> QED
  BY <1>1, <1>3, <1>4 DEF AnalysisTypeOK

\* What a request to a provider that failed leaves in the job.
LEMMA FailedJob ==
  ASSUME AnalysisTypeOK, NEW w \in Workers, Failed(w)
  PROVE  /\ job'[w].since = now /\ job'[w].next = job[w].next + 1
         /\ job'[w].asked = [job[w].asked EXCEPT ![Chain[job[w].next]] = "failed"]
         /\ job'[w].key = job[w].key /\ job'[w].at = job[w].at /\ job'[w].sends = job[w].sends
         /\ pc' = pc
         /\ \A v \in Workers \ {w} : Untouched(v)
<1> DEFINE asked == [job[w].asked EXCEPT ![Chain[job[w].next]] = "failed"]
           n == job[w].next + 1
<1>1. /\ job' = [job EXCEPT ![w] = [job[w] EXCEPT !.since = now, !.asked = asked, !.next = n]]
      /\ pc' = pc /\ job[w] \in Job
  BY DEF Failed, AnalysisTypeOK
<1> HIDE DEF asked, n
<1>2. job'[w] = [job[w] EXCEPT !.since = now, !.asked = asked, !.next = n]
  BY <1>1 DEF AnalysisTypeOK
<1>3. /\ job'[w].since = now /\ job'[w].next = n /\ job'[w].asked = asked
      /\ job'[w].key = job[w].key /\ job'[w].at = job[w].at /\ job'[w].sends = job[w].sends
  BY <1>2, JobFields, <1>1
<1>4. \A v \in Workers \ {w} : Untouched(v)
  BY <1>1 DEF AnalysisTypeOK, Untouched
<1> QED
  BY <1>1, <1>3, <1>4 DEF asked, n

\* What a request to Feishu leaves in the job: one card less to send, if any.
LEMMA FeishuJob ==
  ASSUME AnalysisTypeOK, NEW w \in Workers, Auth(w) \/ Send(w)
  PROVE  /\ \A v \in Workers \ {w} : Untouched(v)
         /\ \/ pc'[w] = "idle"
            \/ /\ pc'[w] = "send" /\ job'[w].since = now
               /\ job'[w].result = job[w].result /\ job'[w].asked = job[w].asked
               /\ job'[w].key = job[w].key /\ job'[w].at = job[w].at
               /\ \/ pc[w] = "auth" /\ job'[w].sends = job[w].sends
                  \/ pc[w] = "send" /\ job[w].sends > 0 /\ job'[w].sends = job[w].sends - 1
<1>0. pc[w] \in {"auth", "send"} /\ job[w] \in Job /\ job[w].sends \in Nat
  BY JobParts DEF Auth, Send, AnalysisTypeOK
<1>1. \A v \in Workers \ {w} : Untouched(v)
  BY DEF Auth, Send, End, Goto, AnalysisTypeOK, Untouched
<1>2. CASE End(w)
  BY <1>1, <1>2 DEF End, Goto, AnalysisTypeOK
<1>3. CASE job' = [job EXCEPT ![w].since = now] /\ Goto(w, "send") /\ pc[w] = "auth"
  <2>1. job'[w] = [job[w] EXCEPT !.since = now] /\ pc'[w] = "send"
    BY <1>3 DEF Goto, AnalysisTypeOK
  <2>2. /\ job'[w].since = now
        /\ job'[w].result = job[w].result /\ job'[w].asked = job[w].asked
        /\ job'[w].key = job[w].key /\ job'[w].at = job[w].at /\ job'[w].sends = job[w].sends
    BY <1>0, <2>1 DEF Job
  <2> QED
    BY <1>1, <1>3, <2>1, <2>2
<1>4. CASE /\ pc[w] = "send" /\ UNCHANGED pc /\ job[w].sends # 0
           /\ job' = [job EXCEPT ![w].since = now, ![w].sends = @ - 1]
  <2> DEFINE n == job[w].sends - 1
  <2>1. job'[w] = [job[w] EXCEPT !.since = now, !.sends = n]
    BY <1>4 DEF AnalysisTypeOK
  <2> HIDE DEF n
  <2>2. /\ job'[w].since = now /\ job'[w].sends = n
        /\ job'[w].result = job[w].result /\ job'[w].asked = job[w].asked
        /\ job'[w].key = job[w].key /\ job'[w].at = job[w].at
    BY <1>0, <2>1 DEF Job
  <2> QED
    BY <1>0, <1>1, <1>4, <2>2 DEF n
<1> QED
  BY <1>2, <1>3, <1>4 DEF Auth, Send

\* What the handler puts into the job.
LEMMA AskedJob ==
  ASSUME AnalysisTypeOK, NEW w \in Workers, NEW r \in Replicas, NEW t \in Tokens, NEW who \in Readers,
         Ask(w, r, t, who)
  PROVE  /\ pc'[w] = "ask" /\ job'[w].key = <<t, who>> /\ job'[w].at = now /\ job'[w].since = now
         /\ job'[w].next = 1 /\ job'[w].asked = [p \in Providers |-> "not"]
         /\ job'[w].sends = IF who = Webhook THEN Hooks[t] ELSE 1
         /\ \A v \in Workers \ {w} : Untouched(v)
         /\ now' = now /\ config' = config
BY DEF Ask, Goto, AnalysisTypeOK, Untouched

\* All other steps but that of the clock.
Environment ==
  \/ UNCHANGED vars
  \/ \E t \in Tokens : Register(t) \/ Expire(t) \/ AskExpired(t)
  \/ \E t \in Tokens, r \in Replicas, who \in Readers :
       AskAgain(r, t, who) \/ AskWithoutCredentials(r, t, who)
  \/ \E r \in Replicas : Crash(r)

\* What they leave alone.
LEMMA EnvironmentStep ==
  ASSUME AnalysisTypeOK, Environment, NEW v \in Workers
  PROVE  now' = now /\ Untouched(v)
<1>1. ASSUME NEW r \in Replicas, Crash(r)
      PROVE  now' = now /\ Untouched(v)
  BY <1>1 DEF Crash, Untouched
<1>2. ASSUME NEW t \in Tokens, Register(t) \/ Expire(t) \/ AskExpired(t)
      PROVE  now' = now /\ Untouched(v)
  BY <1>2 DEF Register, Expire, AskExpired, vars, Untouched
<1>3. ASSUME NEW t \in Tokens, NEW r \in Replicas, NEW who \in Readers,
             AskAgain(r, t, who) \/ AskWithoutCredentials(r, t, who)
      PROVE  now' = now /\ Untouched(v)
  BY <1>3 DEF AskAgain, AskWithoutCredentials, Untouched
<1>4. ASSUME UNCHANGED vars
      PROVE  now' = now /\ Untouched(v)
  BY <1>4 DEF vars, Untouched
<1> QED
  BY <1>1, <1>2, <1>3, <1>4 DEF Environment

\* Every step keeps the record of what has been asked, and the card.
LEMMA CardStep ==
  ASSUME AnalysisTypeOK, \A w \in Workers : AskedUpTo(w) /\ Truthful(w), [Next]_vars
  PROVE  \A w \in Workers : AskedUpTo(w)' /\ Truthful(w)'
<1>0. config' = config /\ Chain' = Chain
  BY ConfigStays DEF Chain
<1>1. /\ Chain \in Seq(Providers)
      /\ {Chain[i] : i \in DOMAIN Chain} = config.enabled \cap Permitted(config.strategy)
      /\ \A i, j \in DOMAIN Chain : Chain[i] = Chain[j] => i = j
  BY ChainIs DEF AnalysisTypeOK, Chain
<1>2. DOMAIN Chain = 1 .. Len(Chain) /\ Len(Chain) \in Nat
  BY <1>1
<1> HIDE DEF Chain
<1>3. ASSUME NEW v \in Workers, Untouched(v)
      PROVE  AskedUpTo(v)' /\ Truthful(v)'
  BY <1>0, <1>3 DEF Untouched, AskedUpTo, Truthful
<1>4. ASSUME NEW w \in Workers, NEW t \in Tokens, NEW r \in Replicas, NEW who \in Readers,
             Ask(w, r, t, who)
      PROVE  \A v \in Workers : AskedUpTo(v)' /\ Truthful(v)'
  <2>1. AskedUpTo(w)' /\ Truthful(w)'
    BY <1>0, <1>2, <1>4, AskedJob DEF AskedUpTo, Truthful
  <2> QED
    BY <1>3, <1>4, <2>1, AskedJob
<1>5. ASSUME NEW w \in Workers, Answered(w)
      PROVE  \A v \in Workers : AskedUpTo(v)' /\ Truthful(v)'
  <2> DEFINE n == job[w].next
             p == Chain[n]
             result == [success |-> TRUE, provider |-> p, fallback |-> n > 1]
             asked == [job[w].asked EXCEPT ![p] = "answered"]
  <2>1. /\ pc[w] = "ask" /\ job[w] \in Job /\ n \in Nat \ {0} /\ n <= Len(Chain)
        /\ job[w].asked \in [Providers -> {"not", "failed", "answered"}]
        /\ Deliver(w, result, asked)
    BY <1>5, JobParts DEF Answered, Left, AnalysisTypeOK
  <2>3. p \in Providers
    BY <1>1, <2>1
  <2>2. /\ job'[w].result = result /\ job'[w].asked = asked
        /\ pc'[w] # "ask" /\ \A v \in Workers \ {w} : Untouched(v)
    <3>1. asked \in [Providers -> {"not", "failed", "answered"}]
      BY <2>1
    <3>2. result \in Result
      BY <2>1, <2>3 DEF Result
    <3> HIDE DEF asked, result
    <3> QED
      BY <2>1, <3>1, <3>2, Delivered
  <2>4. \A q \in Providers :
          /\ job[w].asked[q] # "answered"
          /\ job[w].asked[q] = "failed" <=> \E i \in 1 .. n - 1 : Chain[i] = q
    BY <2>1 DEF AskedUpTo
  <2>5. job[w].asked[p] # "failed"
    <3>1. ASSUME NEW i \in 1 .. n - 1, Chain[i] = p
          PROVE  FALSE
      <4>1. i \in DOMAIN Chain /\ n \in DOMAIN Chain /\ i # n
        BY <1>2, <2>1
      <4> QED
        BY <1>1, <3>1, <4>1
    <3> QED
      BY <2>3, <2>4, <3>1
  <2>6. {q \in Providers : asked[q] = "answered"} = {p}
    BY <2>1, <2>3, <2>4
  <2>7. {q \in Providers : asked[q] = "failed"} = {q \in Providers : job[w].asked[q] = "failed"}
    BY <2>1, <2>3, <2>5
  <2>8. n > 1 <=> {q \in Providers : job[w].asked[q] = "failed"} # {}
    <3>1. CASE n > 1
      <4>1. 1 \in 1 .. n - 1 /\ Chain[1] \in Providers
        BY <1>1, <1>2, <2>1, <3>1
      <4> QED
        BY <2>4, <3>1, <4>1
    <3>2. CASE ~(n > 1)
      BY <2>1, <2>4, <3>2
    <3> QED
      BY <3>1, <3>2
  <2>9. result.success /\ result.provider = p /\ (result.fallback <=> n > 1)
    OBVIOUS
  <2> HIDE DEF result, asked, p, n
  <2>10. Truthful(w)'
    BY <2>2, <2>6, <2>7, <2>8, <2>9 DEF Truthful
  <2>11. AskedUpTo(w)'
    BY <2>2 DEF AskedUpTo
  <2> QED
    BY <1>3, <2>2, <2>10, <2>11
<1>6. ASSUME NEW w \in Workers, Failed(w)
      PROVE  \A v \in Workers : AskedUpTo(v)' /\ Truthful(v)'
  <2> DEFINE n == job[w].next
             p == Chain[n]
  <2>1. /\ pc[w] = "ask" /\ job[w] \in Job /\ n \in Nat \ {0} /\ n <= Len(Chain)
        /\ job[w].asked \in [Providers -> {"not", "failed", "answered"}]
    BY <1>6, JobParts DEF Failed, Left, AnalysisTypeOK
  <2>2. /\ job'[w].next = n + 1 /\ job'[w].asked = [job[w].asked EXCEPT ![p] = "failed"]
        /\ pc' = pc /\ \A v \in Workers \ {w} : Untouched(v)
    BY <1>6, FailedJob
  <2>3. p \in Providers
    BY <1>1, <2>1
  <2>4. ASSUME NEW q \in Providers
        PROVE  /\ job'[w].asked[q] \in {"not", "failed"}
               /\ job'[w].asked[q] = "failed" <=> \E i \in 1 .. n : Chain[i] = q
    <3>1. /\ job[w].asked[q] \in {"not", "failed"}
          /\ job[w].asked[q] = "failed" <=> \E i \in 1 .. n - 1 : Chain[i] = q
      BY <2>1 DEF AskedUpTo
    <3>2. CASE q = p
      BY <2>1, <2>2, <3>2
    <3>3. CASE q # p
      <4>1. job'[w].asked[q] = job[w].asked[q]
        BY <2>1, <2>2, <3>3
      <4>2. \A i \in 1 .. n : Chain[i] = q => i \in 1 .. n - 1
        BY <2>1, <3>3
      <4>3. \A i \in 1 .. n - 1 : i \in 1 .. n
        BY <2>1
      <4> QED
        BY <3>1, <4>1, <4>2, <4>3
    <3> QED
      BY <3>2, <3>3
  <2>5. AskedUpTo(w)' /\ Truthful(w)'
    <3>1. 1 .. job'[w].next - 1 = 1 .. n /\ job'[w].next <= Len(Chain) + 1
      BY <1>2, <2>1, <2>2
    <3> QED
      BY <1>0, <2>1, <2>2, <2>4, <3>1 DEF AskedUpTo, Truthful
  <2> QED
    BY <1>3, <2>2, <2>5
<1>7. ASSUME NEW w \in Workers, AllFailed(w)
      PROVE  \A v \in Workers : AskedUpTo(v)' /\ Truthful(v)'
  <2> DEFINE n == job[w].next
  <2>1. /\ pc[w] = "ask" /\ job[w] \in Job /\ n \in Nat \ {0} /\ ~(n <= Len(Chain))
        /\ Deliver(w, NoAnswer, job[w].asked)
        /\ job[w].asked \in [Providers -> {"not", "failed", "answered"}]
    BY <1>7, JobParts DEF AllFailed, Left, AnalysisTypeOK
  <2>2. /\ job'[w].result = NoAnswer /\ job'[w].asked = job[w].asked
        /\ pc'[w] # "ask" /\ \A v \in Workers \ {w} : Untouched(v)
    <3>1. NoAnswer \in Result
      BY DEF NoAnswer, Result
    <3> QED
      BY <2>1, <3>1, Delivered
  <2>3. 1 .. n - 1 = DOMAIN Chain
    BY <1>2, <2>1 DEF AskedUpTo
  <2>4. {q \in Providers : job[w].asked[q] = "failed"} = {Chain[i] : i \in DOMAIN Chain}
    <3>1. \A q \in Providers : job[w].asked[q] = "failed" <=> \E i \in DOMAIN Chain : Chain[i] = q
      BY <2>1, <2>3 DEF AskedUpTo
    <3>2. \A i \in DOMAIN Chain : Chain[i] \in Providers
      BY <1>1
    <3> QED
      BY <3>1, <3>2
  <2>5. Truthful(w)'
    BY <1>0, <1>1, <2>2, <2>4 DEF Truthful, NoAnswer
  <2> QED
    BY <1>3, <2>2, <2>5 DEF AskedUpTo
<1>8. ASSUME NEW w \in Workers, Auth(w) \/ Send(w)
      PROVE  \A v \in Workers : AskedUpTo(v)' /\ Truthful(v)'
  <2>1. AskedUpTo(w)' /\ Truthful(w)'
    BY <1>0, <1>8, FeishuJob DEF AskedUpTo, Truthful
  <2> QED
    BY <1>3, <1>8, <2>1, FeishuJob
<1>9. ASSUME Tick
      PROVE  \A v \in Workers : AskedUpTo(v)' /\ Truthful(v)'
  BY <1>3, <1>9 DEF Tick, Untouched
<1> QED
  BY <1>3, <1>4, <1>5, <1>6, <1>7, <1>8, <1>9, EnvironmentStep DEF Environment, Next, Task

(***************************************************************************)
(* What the sections of the card show.                                     *)
(***************************************************************************)
\* A piece that alone has its heading, and is not blank, is in the section of it.
LEMMA OnlyPiece ==
  ASSUME NEW n \in Nat, NEW content \in [1 .. n -> Piece], NEW i \in 1 .. n,
         ~content[i].blank, \A j \in 1 .. n : content[j].head = content[i].head => j = i
  PROVE  Section(content, content[i].head) = i
<1>1. {j \in DOMAIN content : content[j].head = content[i].head} = {i}
  OBVIOUS
<1>2. Last({i}) = i
  BY DEF Last
<1> QED
  BY <1>1, <1>2 DEF Section

\* The card of an answer is not empty, and shows the pieces whose heading is unique.
LEMMA AnswersAreShown == EveryAnswerShown
<1> SUFFICES ASSUME NEW n \in 1 .. 4, NEW content \in [1 .. n -> Piece]
             PROVE  LET shown == ParseSections(content) IN
                    /\ \E head \in Heads : shown[head] # 0
                    /\ \A i \in 1 .. n :
                         content[i].head \in Heads /\ ~content[i].blank
                           /\ (\A j \in 1 .. n : content[j].head = content[i].head => j = i)
                         => shown[content[i].head] = i
  BY DEF EveryAnswerShown
<1>1. \E head \in Heads : ParseSections(content)[head] # 0
  BY DEF ParseSections, Raw, Heads
<1>2. ASSUME NEW i \in 1 .. n, content[i].head \in Heads, ~content[i].blank,
             \A j \in 1 .. n : content[j].head = content[i].head => j = i
      PROVE  ParseSections(content)[content[i].head] = i
  <2>1. Sections(content)[content[i].head] = i
    BY <1>2, OnlyPiece DEF Sections
  <2> QED
    BY <1>2, <2>1 DEF ParseSections
<1> QED
  BY <1>1, <1>2

(***************************************************************************)
(* How many analyses of one alert can be under way for one reader.         *)
(***************************************************************************)
Cards(k) == IF k[2] = Webhook THEN Hooks[k[1]] ELSE 1

\* What the requests to all providers may take.
Asking == Cardinality(config.enabled) * AITimeout

\* What GetAccessToken may take.
Token(k) == IF k[2] = Webhook THEN 0 ELSE FeishuTimeout

\* The time that w has been under way is accounted for by the requests it has made:
\* `since` is when the last but the present one was over.
Spent(w) ==
  pc[w] # "idle" =>
    /\ job[w].since <= now /\ now <= job[w].since + Limit(w)
    /\ job[w].sends <= Cards(job[w].key)
    /\ pc[w] = "ask" => job[w].since <= job[w].at + (job[w].next - 1) * AITimeout
    /\ pc[w] = "auth" => job[w].key[2] # Webhook /\ job[w].since <= job[w].at + Asking
    /\ pc[w] = "send" =>
         job[w].since + job[w].sends * FeishuTimeout
           <= job[w].at + Asking + Token(job[w].key) + Cards(job[w].key) * FeishuTimeout

\* Products are monotonic.
LEMMA Times ==
  ASSUME NEW a \in Nat, NEW b \in Nat, NEW c \in Nat
  PROVE  /\ a * c \in Nat
         /\ a <= b => a * c <= b * c
         /\ (a + 1) * c = a * c + c
OBVIOUS

\* A chain is no longer than there are providers enabled.
LEMMA ChainLength ==
  ASSUME AnalysisTypeOK
  PROVE  Len(Chain) \in Nat /\ Cardinality(config.enabled) \in Nat
         /\ Len(Chain) <= Cardinality(config.enabled)
<1>1. /\ Chain \in Seq(Providers)
      /\ {Chain[i] : i \in DOMAIN Chain} \subseteq config.enabled
      /\ \A i, j \in DOMAIN Chain : Chain[i] = Chain[j] => i = j
  BY ChainIs DEF AnalysisTypeOK, Chain
<1> HIDE DEF Chain
<1>2. config.enabled \subseteq Providers
  BY DEF AnalysisTypeOK, Configs
<1>3. IsFiniteSet(Providers)
  <2>1. IsFiniteSet({"openclaw"}) /\ Providers = {"openclaw"} \cup {"iflyelf"}
    BY FS_Singleton DEF Providers
  <2> QED
    BY <2>1, FS_AddElement
<1>4. IsFiniteSet(config.enabled) /\ Cardinality(config.enabled) \in Nat
  BY <1>2, <1>3, FS_Subset, FS_CardinalityType
<1>5. /\ Len(Chain) \in Nat /\ DOMAIN Chain = 1 .. Len(Chain)
      /\ Cardinality(1 .. Len(Chain)) = Len(Chain)
  <2>1. Len(Chain) \in Nat /\ DOMAIN Chain = 1 .. Len(Chain)
    BY <1>1
  <2>2. \A m \in Nat : Cardinality(1 .. m) = m
    BY FS_Interval
  <2> QED
    BY <2>1, <2>2
<1>6. Chain \in Injection(1 .. Len(Chain), config.enabled)
  <2>1. Chain \in [1 .. Len(Chain) -> config.enabled]
    <3>1. \A i \in DOMAIN Chain : Chain[i] \in config.enabled
      BY <1>1
    <3>2. Chain = [i \in 1 .. Len(Chain) |-> Chain[i]]
      BY <1>1
    <3> QED
      BY <1>5, <3>1, <3>2
  <2> QED
    BY <1>1, <1>5, <2>1 DEF Injection, IsInjective
<1>7. Cardinality(1 .. Len(Chain)) <= Cardinality(config.enabled)
  BY <1>4, <1>6, FS_Injection DEF ExistsInjection
<1> QED
  BY <1>4, <1>5, <1>7

\* The times and numbers of a job under way are naturals.
LEMMA JobNumbers ==
  ASSUME AnalysisTypeOK, NEW w \in Workers, pc[w] # "idle"
  PROVE  /\ AITimeout \in Nat /\ FeishuTimeout \in Nat /\ AiWindow \in Nat /\ now \in Nat
         /\ job[w] \in Job /\ job[w].key \in Keys
         /\ job[w].next \in Nat \ {0} /\ job[w].next - 1 \in Nat
         /\ job[w].sends \in Nat /\ job[w].at \in Nat /\ job[w].since \in Nat
         /\ Cards(job[w].key) \in Nat /\ Token(job[w].key) \in Nat /\ Asking \in Nat
         /\ Cards(job[w].key) * FeishuTimeout \in Nat
<1>1. /\ job[w] \in Job /\ now \in Nat /\ AITimeout \in Nat /\ FeishuTimeout \in Nat
      /\ AiWindow \in Nat /\ Hooks \in [Tokens -> Nat]
  BY AIAnalysisAssumption DEF AnalysisTypeOK, AIAnalysisAssumption
<1>2. /\ job[w].key \in Keys /\ job[w].next \in Nat \ {0} /\ job[w].sends \in Nat
      /\ job[w].at \in Nat /\ job[w].since \in Nat
  BY <1>1, JobParts
<1>3. Cards(job[w].key) \in Nat /\ Token(job[w].key) \in Nat
  BY <1>1, <1>2 DEF Cards, Token, Keys
<1>4. Asking \in Nat /\ Cards(job[w].key) * FeishuTimeout \in Nat
  BY <1>1, <1>3, ChainLength, Times DEF Asking
<1> QED
  BY <1>1, <1>2, <1>3, <1>4

\* The requests to some providers take no longer than those to all.
LEMMA AskedSoFar ==
  ASSUME AnalysisTypeOK, NEW n \in Nat, n <= Len(Chain)
  PROVE  n * AITimeout \in Nat /\ n * AITimeout <= Asking
<1>1. AITimeout \in Nat
  BY AIAnalysisAssumption DEF AIAnalysisAssumption
<1>2. Cardinality(config.enabled) \in Nat /\ n <= Cardinality(config.enabled)
  BY ChainLength
<1> QED
  BY <1>1, <1>2, Times DEF Asking

\* It is a natural number.
LEMMA LongestType ==
  ASSUME AnalysisTypeOK, NEW k \in Keys
  PROVE  LongestTask(k) \in Nat
<1>1. Cardinality(config.enabled) * AITimeout \in Nat
  <2>1. AITimeout \in Nat
    BY AIAnalysisAssumption DEF AIAnalysisAssumption
  <2> QED
    BY <2>1, ChainLength, Times
<1>2. (IF k[2] = Webhook THEN Hooks[k[1]] ELSE 2) * FeishuTimeout \in Nat
  <2>1. FeishuTimeout \in Nat /\ (IF k[2] = Webhook THEN Hooks[k[1]] ELSE 2) \in Nat
    BY AIAnalysisAssumption DEF AIAnalysisAssumption, Keys
  <2> QED
    BY <2>1, Times
<1> QED
  BY <1>1, <1>2 DEF LongestTask

\* What all requests of an analysis may take.
LEMMA LongestIs ==
  ASSUME AnalysisTypeOK, NEW w \in Workers, pc[w] # "idle"
  PROVE  LongestTask(job[w].key)
           = Asking + Token(job[w].key) + Cards(job[w].key) * FeishuTimeout
<1>1. Asking \in Nat /\ FeishuTimeout \in Nat
  BY JobNumbers
<1>2. CASE job[w].key[2] = Webhook
  BY <1>1, <1>2 DEF LongestTask, Cards, Token, Asking
<1>3. CASE job[w].key[2] # Webhook
  BY <1>1, <1>3 DEF LongestTask, Cards, Token, Asking
<1> QED
  BY <1>2, <1>3

\* Analyze has not lasted longer than the requests it has made may.
LEMMA AskedInTime ==
  ASSUME AnalysisTypeOK, NEW w \in Workers, pc[w] = "ask", AskedUpTo(w), Spent(w)
  PROVE  /\ Left(w) => now <= job[w].at + job[w].next * AITimeout
         /\ now <= job[w].at + Asking
<1> DEFINE A == AITimeout
           n == job[w].next
           m == (job[w].next - 1) * AITimeout
           na == job[w].next * AITimeout
           at == job[w].at
           since == job[w].since
<1>1. /\ A \in Nat /\ Asking \in Nat /\ n \in Nat \ {0} /\ now \in Nat /\ at \in Nat /\ since \in Nat
      /\ n - 1 \in Nat /\ Len(Chain) \in Nat
  BY JobNumbers, ChainLength
<1>2. since <= at + m
  BY DEF Spent
<1>3. CASE Left(w)
  <2>1. now <= since + A
    BY <1>3 DEF Spent, Limit
  <2>2. na <= Asking /\ na \in Nat
    BY <1>1, <1>3, AskedSoFar DEF Left
  <2>3. na = m + A /\ m \in Nat
    <3>1. (n - 1) + 1 = n
      BY <1>1
    <3> QED
      BY <1>1, <3>1, Times
  <2> HIDE DEF A, m, na, at, since
  <2>4. now <= at + na /\ now <= at + Asking
    BY <1>1, <1>2, <2>1, <2>2, <2>3
  <2> QED
    BY <2>4 DEF na, at
<1>4. CASE ~Left(w)
  <2>1. now <= since
    BY <1>1, <1>4 DEF Spent, Limit
  <2>2. n - 1 <= Len(Chain)
    BY <1>1 DEF AskedUpTo
  <2>3. m <= Asking /\ m \in Nat
    BY <1>1, <2>2, AskedSoFar
  <2> HIDE DEF m, at, since
  <2>4. now <= at + Asking
    BY <1>1, <1>2, <2>1, <2>3
  <2> QED
    BY <1>4, <2>4 DEF at
<1> QED
  BY <1>3, <1>4

\* An analysis that is under way has not lasted longer than all its requests may.
LEMMA NotTooLong ==
  ASSUME AnalysisTypeOK, NEW w \in Workers, pc[w] # "idle", AskedUpTo(w), Spent(w)
  PROVE  /\ LongestTask(job[w].key) \in Nat
         /\ now <= job[w].at + LongestTask(job[w].key)
<1> DEFINE F == FeishuTimeout
           E == Asking
           C == Cards(job[w].key) * FeishuTimeout
           s == job[w].sends
           at == job[w].at
           since == job[w].since
           T == Token(job[w].key)
<1>1. /\ F \in Nat /\ E \in Nat /\ C \in Nat /\ s \in Nat
      /\ now \in Nat /\ at \in Nat /\ since \in Nat /\ T \in Nat
  BY JobNumbers
<1>2. LongestTask(job[w].key) = E + T + C
  BY LongestIs
<1>3. now <= at + E + T + C
  <2>1. CASE pc[w] = "ask"
    <3>1. now <= at + E
      BY <2>1, AskedInTime
    <3> HIDE DEF E, C, at, T
    <3> QED
      BY <1>1, <3>1
  <2>2. CASE pc[w] = "auth"
    <3>1. now <= since + F /\ since <= at + E /\ T = F
      BY <2>2 DEF Spent, Limit, Token
    <3> HIDE DEF F, E, C, at, since, T
    <3> QED
      BY <1>1, <3>1
  <2>3. CASE pc[w] = "send"
    <3>1. since + s * F <= at + E + T + C
      BY <2>3 DEF Spent
    <3>2. s * F \in Nat
      BY <1>1, Times
    <3>3. CASE s > 0
      <4>1. now <= since + F
        BY <2>3, <3>3 DEF Spent, Limit
      <4>2. F <= s * F
        <5>1. 1 \in Nat /\ 1 <= s /\ 1 * F = F
          BY <1>1, <3>3
        <5> HIDE DEF s, F
        <5> QED
          BY <1>1, <5>1, Times
      <4> DEFINE sF == s * F
      <4> HIDE DEF F, E, C, at, since, T, sF
      <4> QED
        BY <1>1, <3>1, <3>2, <4>1, <4>2 DEF sF
    <3>4. CASE ~(s > 0)
      <4>1. now <= since
        <5>1. Limit(w) = 0
          BY <2>3, <3>4 DEF Limit
        <5>2. now <= since + Limit(w)
          BY DEF Spent
        <5> HIDE DEF since
        <5> QED
          BY <1>1, <5>1, <5>2
      <4> DEFINE sF == s * F
      <4> HIDE DEF F, E, C, at, since, T, sF
      <4> QED
        BY <1>1, <3>1, <3>2, <4>1 DEF sF
    <3> QED
      BY <3>3, <3>4
  <2> QED
    BY <2>1, <2>2, <2>3 DEF AnalysisTypeOK
<1> HIDE DEF E, C, at, T
<1>4. E + T + C \in Nat /\ now <= at + (E + T + C)
  BY <1>1, <1>3
<1> QED
  BY <1>2, <1>4 DEF E, C, at, T

\* What a worker that goes on may take.
LEMMA LimitType ==
  ASSUME NEW w \in Workers
  PROVE  Limit(w) \in Nat
BY AIAnalysisAssumption DEF AIAnalysisAssumption, Limit

\* A job whose request begins now is in time, if it has been so far.
LEMMA BegunNow ==
  ASSUME AnalysisTypeOK', NEW w \in Workers, now' = now, config' = config,
         job'[w].since = now, job'[w].sends <= Cards(job'[w].key),
         \/ pc'[w] = "ask" /\ now <= job'[w].at + (job'[w].next - 1) * AITimeout
         \/ pc'[w] = "auth" /\ job'[w].key[2] # Webhook /\ now <= job'[w].at + Asking
         \/ /\ pc'[w] = "send"
            /\ now + job'[w].sends * FeishuTimeout
                 <= job'[w].at + Asking + Token(job'[w].key) + Cards(job'[w].key) * FeishuTimeout
  PROVE  Spent(w)'
<1>1. Limit(w)' \in Nat
  BY AIAnalysisAssumption DEF AIAnalysisAssumption, Limit
<1>2. now \in Nat
  BY DEF AnalysisTypeOK
<1>3. job'[w].since <= now' /\ now' <= job'[w].since + Limit(w)'
  BY <1>1, <1>2
<1> QED
  BY <1>3 DEF Spent, Asking, Cards, Token

\* Every step keeps the account of the time.
LEMMA SpentStep ==
  ASSUME AnalysisTypeOK, AnalysisTypeOK', \A w \in Workers : AskedUpTo(w) /\ Spent(w), [Next]_vars
  PROVE  \A w \in Workers : Spent(w)'
<1>0. config' = config
  BY ConfigStays
<1>1. ASSUME NEW v \in Workers, Untouched(v), now' = now
      PROVE  Spent(v)'
  BY <1>0, <1>1 DEF Untouched, Spent, Limit, Left, Chain, Asking
<1>2. ASSUME NEW w \in Workers, NEW t \in Tokens, NEW r \in Replicas, NEW who \in Readers,
             Ask(w, r, t, who)
      PROVE  \A v \in Workers : Spent(v)'
  <2>1. /\ pc'[w] = "ask" /\ job'[w].key = <<t, who>> /\ job'[w].at = now /\ job'[w].since = now
        /\ job'[w].next = 1 /\ job'[w].sends = IF who = Webhook THEN Hooks[t] ELSE 1
        /\ now' = now /\ \A v \in Workers \ {w} : Untouched(v)
    BY <1>2, AskedJob
  <2>2. job'[w].sends <= Cards(job'[w].key)
    BY <2>1, AIAnalysisAssumption DEF AIAnalysisAssumption, Cards
  <2>3. now <= job'[w].at + (job'[w].next - 1) * AITimeout
    <3>1. (1 - 1) * AITimeout = 0 /\ now \in Nat
      BY AIAnalysisAssumption DEF AIAnalysisAssumption, AnalysisTypeOK
    <3> QED
      BY <2>1, <3>1
  <2> QED
    BY <1>0, <1>1, <2>1, <2>2, <2>3, BegunNow
<1>3. ASSUME NEW w \in Workers, Answered(w) \/ AllFailed(w)
      PROVE  \A v \in Workers : Spent(v)'
  <2>1. pc[w] = "ask" /\ job[w] \in Job /\ now' = now
    BY <1>3 DEF Answered, AllFailed, AnalysisTypeOK
  <2>2. PICK result \in Result, asked \in [Providers -> {"not", "failed", "answered"}] :
          Deliver(w, result, asked)
    <3>1. CASE Answered(w)
      <4> DEFINE p == Chain[job[w].next]
                 result == [success |-> TRUE, provider |-> p, fallback |-> job[w].next > 1]
                 asked == [job[w].asked EXCEPT ![p] = "answered"]
      <4>1. Left(w) /\ Deliver(w, result, asked)
        BY <3>1 DEF Answered
      <4>2. p \in Providers
        BY <2>1, <4>1, TurnType
      <4>3. asked \in [Providers -> {"not", "failed", "answered"}]
        BY <2>1, JobParts
      <4>4. result \in Result
        BY <2>1, <4>2, JobParts DEF Result
      <4> QED
        BY <4>1, <4>3, <4>4
    <3>2. CASE AllFailed(w)
      <4>1. NoAnswer \in Result /\ job[w].asked \in [Providers -> {"not", "failed", "answered"}]
        BY <2>1, JobParts DEF NoAnswer, Result
      <4> QED
        BY <3>2, <4>1 DEF AllFailed
    <3> QED
      BY <1>3, <3>1, <3>2
  <2>3. /\ job'[w].since = now /\ job'[w].key = job[w].key /\ job'[w].at = job[w].at
        /\ job'[w].sends = job[w].sends
        /\ pc'[w] = IF job[w].key[2] = Webhook THEN "send" ELSE "auth"
        /\ \A v \in Workers \ {w} : Untouched(v)
    BY <2>1, <2>2, Delivered
  <2>4. now <= job[w].at + Asking
    BY <2>1, AskedInTime
  <2>5. job[w].sends <= Cards(job[w].key)
    BY <2>1 DEF Spent
  <2>6. CASE job[w].key[2] # Webhook
    <3>1. Spent(w)'
      BY <1>0, <2>1, <2>3, <2>4, <2>5, <2>6, BegunNow
    <3> QED
      BY <1>1, <2>1, <2>3, <3>1
  <2>7. CASE job[w].key[2] = Webhook
    <3> DEFINE sF == job[w].sends * FeishuTimeout
               C == Cards(job[w].key) * FeishuTimeout
               T == Token(job[w].key)
               at == job[w].at
    <3>1. /\ sF <= C /\ sF \in Nat /\ C \in Nat /\ T \in Nat /\ at \in Nat /\ now \in Nat
          /\ Asking \in Nat
      BY <2>1, <2>5, JobNumbers, Times
    <3>2. now + sF <= at + Asking + T + C
      <4> HIDE DEF sF, C, T, at
      <4> QED
        BY <2>4, <3>1 DEF at
    <3>3. Spent(w)'
      BY <1>0, <2>1, <2>3, <2>5, <2>7, <3>2, BegunNow
    <3> QED
      BY <1>1, <2>1, <2>3, <3>3
  <2> QED
    BY <2>6, <2>7
<1>4. ASSUME NEW w \in Workers, Failed(w)
      PROVE  \A v \in Workers : Spent(v)'
  <2>1. pc[w] = "ask" /\ Left(w) /\ now' = now
    BY <1>4 DEF Failed
  <2>2. /\ job'[w].since = now /\ job'[w].next = job[w].next + 1
        /\ job'[w].key = job[w].key /\ job'[w].at = job[w].at /\ job'[w].sends = job[w].sends
        /\ pc' = pc /\ \A v \in Workers \ {w} : Untouched(v)
    BY <1>4, FailedJob
  <2>3. now <= job[w].at + job[w].next * AITimeout
    BY <2>1, AskedInTime
  <2>4. job'[w].next - 1 = job[w].next
    BY <2>1, <2>2, JobNumbers
  <2>5. now <= job'[w].at + (job'[w].next - 1) * AITimeout
    BY <2>2, <2>3, <2>4
  <2>6. job'[w].sends <= Cards(job'[w].key)
    BY <2>1, <2>2 DEF Spent
  <2>7. Spent(w)'
    BY <1>0, <2>1, <2>2, <2>5, <2>6, BegunNow
  <2> QED
    BY <1>1, <2>1, <2>2, <2>7
<1>5. ASSUME NEW w \in Workers, Auth(w) \/ Send(w)
      PROVE  \A v \in Workers : Spent(v)'
  <2> DEFINE F == FeishuTimeout
             s == job[w].sends
             sF == job[w].sends * FeishuTimeout
             C == Cards(job[w].key) * FeishuTimeout
             T == Token(job[w].key)
             at == job[w].at
             since == job[w].since
  <2>1. /\ pc[w] \in {"auth", "send"} /\ now' = now /\ \A v \in Workers \ {w} : Untouched(v)
        /\ s <= Cards(job[w].key)
    BY <1>5, FeishuJob DEF Auth, Send, Spent
  <2>2. /\ sF <= C /\ sF \in Nat /\ C \in Nat /\ T \in Nat /\ at \in Nat /\ now \in Nat
        /\ Asking \in Nat /\ since \in Nat /\ F \in Nat /\ s \in Nat /\ Cards(job[w].key) \in Nat
    BY <2>1, JobNumbers, Times
  <2>3. CASE pc'[w] = "idle"
    BY <1>1, <2>1, <2>3 DEF Untouched
  <2>4. CASE /\ pc'[w] = "send" /\ job'[w].since = now /\ job'[w].key = job[w].key
             /\ job'[w].at = at /\ pc[w] = "auth" /\ job'[w].sends = s
    <3>1. now <= since + F /\ since <= at + Asking /\ T = F
      BY <2>4 DEF Spent, Limit, Token
    <3>2. now + sF <= at + Asking + T + C
      <4> HIDE DEF F, sF, C, T, at, since
      <4> QED
        BY <2>2, <3>1
    <3>3. Spent(w)'
      BY <1>0, <2>1, <2>4, <3>2, BegunNow
    <3> QED
      BY <1>1, <2>1, <3>3
  <2>5. CASE /\ pc'[w] = "send" /\ job'[w].since = now /\ job'[w].key = job[w].key
             /\ job'[w].at = at /\ pc[w] = "send" /\ s > 0 /\ job'[w].sends = s - 1
    <3> DEFINE less == (s - 1) * F
    <3>1. now <= since + F /\ since + sF <= at + Asking + T + C
      BY <2>5 DEF Spent, Limit
    <3>2. sF = less + F /\ less \in Nat
      <4>1. s - 1 \in Nat /\ (s - 1) + 1 = s
        BY <2>2, <2>5
      <4> QED
        BY <2>2, <4>1, Times
    <3>3. now + less <= at + Asking + T + C
      <4> HIDE DEF F, sF, C, T, at, since, less
      <4> QED
        BY <2>2, <3>1, <3>2
    <3>4. s - 1 <= Cards(job[w].key)
      BY <2>1, <2>2
    <3>5. Spent(w)'
      BY <1>0, <2>1, <2>5, <3>3, <3>4, BegunNow
    <3> QED
      BY <1>1, <2>1, <3>5
  <2> QED
    BY <1>5, <2>3, <2>4, <2>5, FeishuJob
<1>6. ASSUME Tick, NEW v \in Workers, pc[v] # "idle"
      PROVE  Spent(v)'
  <2>1. /\ now' = now + 1 /\ UNCHANGED <<config, pc, job>> /\ now < job[v].since + Limit(v)
        /\ Limit(v)' = Limit(v)
    BY <1>6 DEF Tick, Limit, Left, Chain
  <2>2. now \in Nat /\ job[v].since \in Nat /\ Limit(v) \in Nat
    BY <1>6, JobNumbers, LimitType
  <2>3. job[v].since <= now' /\ now' <= job[v].since + Limit(v)
    <3> HIDE DEF Limit
    <3>1. job[v].since <= now
      BY <1>6 DEF Spent
    <3> QED
      BY <2>1, <2>2, <3>1
  <2> QED
    BY <1>6, <2>1, <2>3 DEF Spent, Asking
<1>7. ASSUME Tick
      PROVE  \A v \in Workers : Spent(v)'
  BY <1>6, <1>7 DEF Tick, Spent
<1> QED
  BY <1>1, <1>2, <1>3, <1>4, <1>5, <1>7, EnvironmentStep DEF Environment, Next, Task

\* Of two numbers that are more than a window apart, the quotients differ.
LEMMA Quotients ==
  ASSUME NEW a \in Nat, NEW b \in Nat, NEW m \in Nat
  PROVE  /\ a \div (m + 1) \in Nat
         /\ a <= b => a \div (m + 1) <= b \div (m + 1)
         /\ a + m < b => a \div (m + 1) # b \div (m + 1)
OBVIOUS

\* Analyses that are under way together are told apart by the number of windows
\* for which they have lasted, and that number is bounded.
LEMMA FitInto ==
  ASSUME IInv, \A w \in Workers : AskedUpTo(w) /\ Spent(w)
  PROVE  OverlapBounded
<1> SUFFICES ASSUME NEW r \in Replicas, NEW k \in Keys
             PROVE  Cardinality(Running(r, k)) <= LongestTask(k) \div (AiWindow + 1) + 1
  BY DEF OverlapBounded
<1> DEFINE R == Running(r, k)
           L == LongestTask(k) \div (AiWindow + 1)
           age(w) == now - job[w].at
           f == [w \in R |-> age(w) \div (AiWindow + 1)]
<1>1. AnalysisTypeOK /\ RunningSpaced /\ AiWindow \in Nat /\ now \in Nat
  BY Numbers DEF IInv, AnalysisTypeOK
<1>2. ASSUME NEW w \in R
      PROVE  /\ w \in Workers /\ pc[w] # "idle" /\ job[w].rep = r /\ job[w].key = k
             /\ job[w].at \in Nat /\ age(w) \in Nat
             /\ LongestTask(k) \in Nat /\ age(w) <= LongestTask(k)
  <2>1. w \in Workers /\ pc[w] # "idle" /\ job[w].rep = r /\ job[w].key = k
    BY DEF Running
  <2>2. job[w].at \in Nat /\ job[w].at <= now
    BY <1>1, <2>1, JobNumbers DEF IInv, Remembered
  <2>3. LongestTask(k) \in Nat /\ now <= job[w].at + LongestTask(k)
    BY <1>1, <2>1, NotTooLong
  <2> HIDE DEF R
  <2> QED
    BY <1>1, <2>1, <2>2, <2>3
<1> HIDE DEF R
<1>3. CASE R = {}
  <2>1. LongestTask(k) \in Nat
    BY <1>1, LongestType
  <2>2. L \in Nat
    BY <1>1, <2>1, Quotients
  <2>3. Cardinality(R) = 0
    BY <1>3, FS_EmptySet
  <2> QED
    BY <2>2, <2>3 DEF R
<1>4. CASE R # {}
  <2>1. L \in Nat
    BY <1>1, <1>2, <1>4, Quotients
  <2>2. f \in [R -> 0 .. L]
    <3>1. ASSUME NEW w \in R
          PROVE  age(w) \div (AiWindow + 1) \in 0 .. L
      <4>1. age(w) \in Nat /\ LongestTask(k) \in Nat /\ age(w) <= LongestTask(k)
        BY <1>2
      <4> HIDE DEF age
      <4>2. age(w) \div (AiWindow + 1) \in Nat /\ age(w) \div (AiWindow + 1) <= L
        BY <1>1, <4>1, Quotients
      <4> HIDE DEF L
      <4> QED
        BY <2>1, <4>2
    <3> HIDE DEF L, age
    <3> QED
      BY <3>1
  <2>3. ASSUME NEW v \in R, NEW w \in R, v # w
        PROVE  f[v] # f[w]
    <3>1. \/ job[v].at + AiWindow < job[w].at
          \/ job[w].at + AiWindow < job[v].at
      BY <1>1, <1>2, <2>3 DEF RunningSpaced
    <3>2. age(w) + AiWindow < age(v) \/ age(v) + AiWindow < age(w)
      BY <1>1, <1>2, <3>1
    <3>3. age(v) \in Nat /\ age(w) \in Nat
      BY <1>2
    <3> HIDE DEF age
    <3>4. age(v) \div (AiWindow + 1) # age(w) \div (AiWindow + 1)
      BY <1>1, <3>2, <3>3, Quotients
    <3> QED
      BY <3>4
  <2>4. f \in Injection(R, 0 .. L)
    <3> HIDE DEF f, L
    <3> QED
      BY <2>2, <2>3 DEF Injection, IsInjective
  <2>5. IsFiniteSet(0 .. L) /\ Cardinality(0 .. L) = L + 1
    <3> HIDE DEF L
    <3>1. 0 \in Int /\ L \in Int /\ ~(0 > L) /\ L - 0 + 1 = L + 1
      BY <2>1
    <3> QED
      BY <3>1, FS_Interval
  <2>6. Cardinality(R) <= Cardinality(0 .. L)
    <3> HIDE DEF f, L
    <3> QED
      BY <2>4, <2>5, FS_Injection DEF ExistsInjection
  <2> QED
    BY <2>5, <2>6 DEF R
<1> QED
  BY <1>3, <1>4

\* The invariant, with the record of what was asked and the account of the time.
FullInv == IInv /\ \A w \in Workers : AskedUpTo(w) /\ Truthful(w) /\ Spent(w)

\* It holds in every state.
LEMMA FullInvariant == Spec => []FullInv
<1>1. Init => IInv
  BY InitInv
<1>2. Init => \A w \in Workers : AskedUpTo(w) /\ Truthful(w) /\ Spent(w)
  BY DEF Init, AskedUpTo, Truthful, Spent
<1>3. FullInv /\ [Next]_vars => FullInv'
  <2> SUFFICES ASSUME FullInv, [Next]_vars
               PROVE  IInv' /\ \A w \in Workers : AskedUpTo(w)' /\ Truthful(w)' /\ Spent(w)'
    BY DEF FullInv
  <2>1. IInv' /\ AnalysisTypeOK /\ AnalysisTypeOK'
    BY InvStep DEF IInv, FullInv
  <2> QED
    BY <2>1, CardStep, SpentStep DEF FullInv
<1>4. Init => FullInv
  BY <1>1, <1>2 DEF FullInv
<1> QED
  BY <1>3, <1>4, PTL DEF Spec

(***************************************************************************)
(* The theorems about what is shown and how much goes on.                  *)
(***************************************************************************)
\* The card tells what happened: an answer of the provider that gave it, called a
\* fallback just if another was asked in vain, or a failure of all that were due.
THEOREM CardsAreTruthful == Spec => []CardTruthful
<1>1. FullInv => CardTruthful
  BY DEF FullInv, Truthful, CardTruthful
<1> QED
  BY <1>1, FullInvariant, PTL

\* Of every answer, something is shown, and what stands alone under a heading is
\* shown under that heading.
THEOREM AnswersShown == Spec => []AnswerShown
<1>1. AnswerShown
  BY AnswersAreShown DEF AnswerShown
<1> QED
  BY <1>1, PTL

\* One replica has no more analyses of an alert under way for one reader than
\* windows fit into the longest that an analysis may take.
THEOREM OverlapsBounded == Spec => []OverlapBounded
<1>1. FullInv => OverlapBounded
  BY FitInto DEF FullInv
<1> QED
  BY <1>1, FullInvariant, PTL
===============================================================================
