--------------------------- MODULE GroupChatProofs ---------------------------
(***************************************************************************)
(* For every number of workers, replicas, operators, cards and crashes,    *)
(* however long a task takes, and whatever write or request fails: a chat  *)
(* that was taken off its token, or never got there, is not put there by a *)
(* task that still runs; a replica runs two tasks of one button for one    *)
(* operator only when they were started more than the window apart; and an *)
(* alert has one live chat, which its entry names, unless a task was       *)
(* started on a click that another had overtaken.                          *)
(***************************************************************************)
EXTENDS GroupChat, TLAPS

(***************************************************************************)
(* The inductive invariant.                                                *)
(***************************************************************************)
InFlight == {"populate", "record"}  \* a chat was created and is not yet recorded

\* A chat id lives and dies with the token it was created for.
Owned ==
  /\ \A c \in Chats : chat[c] = "none" => owner[c] = NoToken
  /\ \A c \in released : owner[c] # NoToken
  /\ \A t \in Tokens : chatOf[t] # NoChat => owner[chatOf[t]] = t
  /\ \A t \in Tokens : t \notin registered => chatOf[t] = NoChat

\* What a worker has in hand is a chat of its token.
InHand(w) ==
  /\ pc[w] # "idle" /\ job[w].snap # NoChat => owner[job[w].snap] = job[w].tok
  /\ pc[w] \in InFlight => job[w].chat \in Chats /\ owner[job[w].chat] = job[w].tok
  /\ pc[w] = "auth" /\ job[w].op = "dismiss" => job[w].snap # NoChat
  /\ pc[w] \in {"dissolve", "clear"} => job[w].snap # NoChat

\* Only its creator knows of a chat before the chat is recorded.
Unknown(w) ==
  pc[w] \in InFlight =>
    /\ job[w].chat \notin released
    /\ \A t \in Tokens : chatOf[t] # job[w].chat
    /\ \A v \in Workers : pc[v] # "idle" => job[v].snap # job[w].chat
    /\ \A v \in Workers : pc[v] \in InFlight /\ job[v].chat = job[w].chat => v = w

Inv == Owned /\ ReleasedNotRecorded /\ \A w \in Workers : InHand(w) /\ Unknown(w)

IInv == TypeOK /\ Inv

(***************************************************************************)
(* Type correctness.                                                       *)
(***************************************************************************)
\* The empty job is no job.
LEMMA NoJobType == NoJob \notin Job
BY DEF NoJob, Job, Actions

\* A dedup cache keeps its type when a key is checked.
LEMMA CheckedType ==
  ASSUME NEW d \in [Keys -> Nat \cup {NotSeen}], NEW k \in Keys, NEW at \in Nat, NEW ttl \in Nat
  PROVE  Checked(d, k, at, ttl) \in [Keys -> Nat \cup {NotSeen}]
BY DEF Checked, Purge

\* The worker whose step it is ends well typed, and so does one that is moved on.
LEMMA WorkerType ==
  ASSUME TypeOK, NEW w \in Workers,
         \/ End(w)
         \/ \E l \in Locations : Goto(w, l) /\ pc[w] # "idle" /\ UNCHANGED job
  PROVE  /\ pc' \in [Workers -> Locations]
         /\ job' \in [Workers -> Job \cup {NoJob}]
         /\ \A v \in Workers : pc'[v] # "idle" => job'[v] \in Job
BY DEF TypeOK, End, Goto, Locations

\* Update writes a chat id, or nothing.
LEMMA UpdateType ==
  ASSUME TypeOK, NEW t \in Tokens, NEW c \in Chats \cup {NoChat}, Update(t, c)
  PROVE  chatOf' \in [Tokens -> Chats \cup {NoChat}]
BY DEF TypeOK, Update

\* Every step keeps the variables well typed.
LEMMA TypeStep ==
  ASSUME TypeOK, \A w \in Workers : InHand(w), [Next]_vars
  PROVE  TypeOK'
<1> USE DEF Locations
<1>1. ASSUME NEW w \in Workers, NEW t \in Tokens, NEW op \in Actions, NEW who \in Operators,
             Click(w, t, op, who)
      PROVE  TypeOK'
  <2> DEFINE new == [op |-> op, key |-> <<t, op, who>>, tok |-> t, at |-> now,
                     snap |-> chatOf[t], chat |-> NoChat, ok |-> FALSE]
  <2>1. new \in Job
    BY DEF Job, Keys, TypeOK
  <2>2. job' = [job EXCEPT ![w] = new] /\ pc' = [pc EXCEPT ![w] = "loaded"]
    BY <1>1 DEF Click, Goto
  <2> HIDE DEF new
  <2>3. /\ pc' \in [Workers -> Locations]
        /\ job' \in [Workers -> Job \cup {NoJob}]
        /\ \A v \in Workers : pc'[v] # "idle" => job'[v] \in Job
    BY <2>1, <2>2 DEF TypeOK
  <2> QED
    BY <1>1, <2>3 DEF Click, TypeOK
<1>2. ASSUME NEW w \in Workers, Decide(w)
      PROVE  TypeOK'
  <2>1. job[w] \in Job /\ job[w].key \in Keys /\ Home[w] \in Replicas /\ GcWindow \in Nat
    BY <1>2, GroupChatAssumption DEF Decide, TypeOK, Job, GroupChatAssumption
  <2>2. gcSeen' \in [Replicas -> [Keys -> Nat \cup {NotSeen}]]
    BY <1>2, <2>1, CheckedType DEF Decide, TypeOK
  <2>3. CASE Start(w)
    <3>1. [job[w] EXCEPT !.at = now] \in Job
      BY <2>1 DEF Job, TypeOK
    <3>2. job' = [job EXCEPT ![w] = [job[w] EXCEPT !.at = now]] /\ pc' = [pc EXCEPT ![w] = "auth"]
      BY <2>1, <2>3 DEF Start, Goto
    <3>3. /\ pc' \in [Workers -> Locations]
          /\ job' \in [Workers -> Job \cup {NoJob}]
          /\ \A v \in Workers : pc'[v] # "idle" => job'[v] \in Job
      BY <3>1, <3>2 DEF TypeOK
    <3>4. raced' \subseteq Tokens
      BY <2>1, <2>3 DEF Start, TypeOK, Job
    <3> QED
      BY <1>2, <2>2, <3>3, <3>4 DEF Decide, TypeOK
  <2>4. CASE End(w) /\ UNCHANGED raced
    BY <1>2, <2>2, <2>4, WorkerType DEF Decide, TypeOK
  <2> QED
    BY <1>2, <2>3, <2>4 DEF Decide
<1>3. ASSUME NEW w \in Workers, Auth(w) \/ Populate(w) \/ Notify(w)
      PROVE  TypeOK'
  BY <1>3, WorkerType DEF Auth, Populate, Notify, TypeOK
<1>4. ASSUME NEW w \in Workers, CreateChat(w)
      PROVE  TypeOK'
  <2>1. job[w] \in Job /\ job[w].tok \in Tokens /\ pc[w] = "create"
    BY <1>4 DEF CreateChat, TypeOK, Job
  <2>2. /\ chat' \in [Chats -> {"none", "live", "dissolved"}]
        /\ owner' \in [Chats -> Tokens \cup {NoToken}]
        /\ released' \subseteq Chats
    BY <1>4, <2>1 DEF CreateChat, TypeOK
  <2>3. CASE UNCHANGED job /\ Goto(w, "notify")
    BY <1>4, <2>1, <2>2, <2>3, WorkerType DEF CreateChat, TypeOK
  <2>4. CASE \E c \in Chats : /\ job' = [job EXCEPT ![w].chat = c, ![w].ok = TRUE]
                              /\ Goto(w, "populate")
    <3>1. PICK c \in Chats : /\ job' = [job EXCEPT ![w].chat = c, ![w].ok = TRUE]
                             /\ Goto(w, "populate")
      BY <2>4
    <3>2. [job[w] EXCEPT !.chat = c, !.ok = TRUE] \in Job
      BY <2>1 DEF Job
    <3>3. job' = [job EXCEPT ![w] = [job[w] EXCEPT !.chat = c, !.ok = TRUE]]
      BY <2>1, <3>1 DEF TypeOK
    <3>4. /\ pc' \in [Workers -> Locations]
          /\ job' \in [Workers -> Job \cup {NoJob}]
          /\ \A v \in Workers : pc'[v] # "idle" => job'[v] \in Job
      BY <3>1, <3>2, <3>3 DEF TypeOK, Goto
    <3> QED
      BY <1>4, <2>2, <3>4 DEF CreateChat, TypeOK
  <2> QED
    BY <1>4, <2>3, <2>4 DEF CreateChat
<1>5. ASSUME NEW w \in Workers, Record(w) \/ Clear(w)
      PROVE  TypeOK'
  <2>1. job[w].tok \in Tokens /\ job[w].chat \in Chats \cup {NoChat} /\ pc[w] # "idle"
    BY <1>5 DEF Record, Clear, TypeOK, Job
  <2>2. chatOf' \in [Tokens -> Chats \cup {NoChat}]
    BY <1>5, <2>1, UpdateType DEF Record, Clear
  <2>3. released' \subseteq Chats
    BY <1>5 DEF Record, Clear, InHand, InFlight, TypeOK, Job
  <2>4. /\ pc' \in [Workers -> Locations]
        /\ job' \in [Workers -> Job \cup {NoJob}]
        /\ \A v \in Workers : pc'[v] # "idle" => job'[v] \in Job
    BY <1>5, <2>1, WorkerType DEF Record, Clear
  <2> QED
    BY <1>5, <2>2, <2>3, <2>4 DEF Record, Clear, TypeOK
<1>6. ASSUME NEW w \in Workers, Dissolve(w)
      PROVE  TypeOK'
  <2>1. job[w] \in Job /\ pc[w] = "dissolve"
    BY <1>6 DEF Dissolve, TypeOK
  <2>2. \E ok \in BOOLEAN : job' = [job EXCEPT ![w] = [job[w] EXCEPT !.ok = ok]]
    <3>1. job = [job EXCEPT ![w] = [job[w] EXCEPT !.ok = job[w].ok]] /\ job[w].ok \in BOOLEAN
      BY <2>1 DEF TypeOK, Job
    <3> QED
      BY <1>6, <3>1 DEF Dissolve
  <2>3. PICK ok \in BOOLEAN : job' = [job EXCEPT ![w] = [job[w] EXCEPT !.ok = ok]]
    BY <2>2
  <2>4. [job[w] EXCEPT !.ok = ok] \in Job
    BY <2>1 DEF Job
  <2>5. /\ pc' \in [Workers -> Locations]
        /\ job' \in [Workers -> Job \cup {NoJob}]
        /\ \A v \in Workers : pc'[v] # "idle" => job'[v] \in Job
    BY <1>6, <2>3, <2>4 DEF Dissolve, Goto, TypeOK
  <2>6. chat' \in [Chats -> {"none", "live", "dissolved"}]
    BY <1>6 DEF Dissolve, TypeOK
  <2> QED
    BY <1>6, <2>5, <2>6 DEF Dissolve, TypeOK
<1>7. ASSUME NEW t \in Tokens, Register(t) \/ Expire(t)
      PROVE  TypeOK'
  BY <1>7 DEF Register, Expire, TypeOK
<1>8. ASSUME NEW c \in Chats, DissolvedByHand(c)
      PROVE  TypeOK'
  BY <1>8 DEF DissolvedByHand, TypeOK
<1>9. ASSUME NEW r \in Replicas, Crash(r)
      PROVE  TypeOK'
  <2>1. Unrecorded(r) \subseteq Chats
    BY DEF Unrecorded, InHand, InFlight
  <2> QED
    BY <1>9, <2>1 DEF Crash, TypeOK, NoItems, NotSeen
<1>10. CASE Tick \/ UNCHANGED vars
  BY <1>10 DEF Tick, vars, TypeOK
<1> QED
  BY <1>1, <1>2, <1>3, <1>4, <1>5, <1>6, <1>7, <1>8, <1>9, <1>10 DEF Next, Task, ClickExpired

(***************************************************************************)
(* The inductive invariant holds at every step.                            *)
(***************************************************************************)
\* Worker w ends, or goes on with the same job and no more in hand than before.
Continues(w) ==
  \/ pc'[w] = "idle"
  \/ /\ pc[w] # "idle"
     /\ \A f \in {"op", "tok", "snap", "chat"} : job'[w][f] = job[w][f]
     /\ pc'[w] \in InFlight => pc[w] \in InFlight
     /\ pc'[w] = "auth" /\ job[w].op = "dismiss" => job[w].snap # NoChat
     /\ pc'[w] \in {"dissolve", "clear"} => job[w].snap # NoChat

\* A step that changes neither the store nor what is known of the chats keeps the
\* invariant, also if it gives up chats that have not been recorded.
LEMMA Unaffected ==
  ASSUME Inv, UNCHANGED <<registered, chatOf, owner>>,
         \A c \in Chats : chat'[c] = "none" => chat[c] = "none",
         \A c \in released' :
           \/ c \in released
           \/ /\ owner[c] # NoToken
              /\ \A t \in Tokens : chatOf[t] # c
              /\ \A v \in Workers : pc'[v] \in InFlight => job'[v].chat # c,
         \A w \in Workers : Continues(w)
  PROVE  Inv'
<1>1. Owned' /\ ReleasedNotRecorded'
  BY DEF Inv, Owned, ReleasedNotRecorded
<1>2. ASSUME NEW w \in Workers
      PROVE  InHand(w)'
  BY DEF Inv, InHand, Continues, InFlight
<1>3. ASSUME NEW w \in Workers
      PROVE  Unknown(w)'
  <2>1. ASSUME NEW v \in Workers, pc'[v] \in InFlight
        PROVE  /\ pc[v] \in InFlight
               /\ job'[v].chat = job[v].chat
    BY <2>1 DEF Continues, InFlight
  <2>2. ASSUME NEW v \in Workers, pc'[v] # "idle"
        PROVE  pc[v] # "idle" /\ job'[v].snap = job[v].snap
    BY <2>2 DEF Continues
  <2>3. CASE pc'[w] \notin InFlight
    BY <2>3 DEF Unknown
  <2>4. CASE pc'[w] \in InFlight
    <3>1. Unknown(w) /\ pc[w] \in InFlight /\ job'[w].chat = job[w].chat
      BY <2>1, <2>4 DEF Inv
    <3>2. /\ job[w].chat \notin released
          /\ \A t \in Tokens : chatOf[t] # job[w].chat
          /\ \A v \in Workers : pc[v] # "idle" => job[v].snap # job[w].chat
          /\ \A v \in Workers : pc[v] \in InFlight /\ job[v].chat = job[w].chat => v = w
      BY <3>1 DEF Unknown
    <3>3. \A v \in Workers : pc'[v] # "idle" => job'[v].snap # job'[w].chat
      BY <2>2, <3>1, <3>2
    <3>4. \A v \in Workers : pc'[v] \in InFlight /\ job'[v].chat = job'[w].chat => v = w
      BY <2>1, <3>1, <3>2
    <3>5. job'[w].chat \notin released'
      BY <2>4, <3>1, <3>2
    <3> QED
      BY <3>1, <3>2, <3>3, <3>4, <3>5 DEF Unknown
  <2> QED
    BY <2>3, <2>4
<1> QED
  BY <1>1, <1>2, <1>3 DEF Inv

\* A click brings only the recorded chat of its token into a worker's hands.
LEMMA ClickStep ==
  ASSUME IInv, NEW w \in Workers, NEW t \in Tokens, NEW op \in Actions, NEW who \in Operators,
         Click(w, t, op, who)
  PROVE  Inv'
<1>1. /\ pc[w] = "idle" /\ pc'[w] = "loaded"
      /\ job'[w].snap = chatOf[t] /\ job'[w].tok = t
      /\ \A v \in Workers \ {w} : pc'[v] = pc[v] /\ job'[v] = job[v]
      /\ UNCHANGED <<registered, chatOf, chat, owner, released>>
  BY DEF Click, Goto, IInv, TypeOK
<1>2. Owned' /\ ReleasedNotRecorded'
  BY <1>1 DEF IInv, Inv, Owned, ReleasedNotRecorded
<1>3. ASSUME NEW v \in Workers
      PROVE  InHand(v)'
  BY <1>1 DEF IInv, Inv, Owned, InHand, InFlight
<1>4. ASSUME NEW v \in Workers
      PROVE  Unknown(v)'
  BY <1>1 DEF IInv, Inv, Unknown, InFlight
<1> QED
  BY <1>2, <1>3, <1>4 DEF Inv

\* A chat that Feishu has just created is in nobody else's hands.
LEMMA CreateStep ==
  ASSUME IInv, NEW w \in Workers, CreateChat(w)
  PROVE  Inv'
<1>1. /\ TypeOK /\ Inv /\ pc[w] = "create" /\ job[w] \in Job /\ job[w].tok \in Tokens
      /\ NoChat \notin Chats /\ NoToken \notin Tokens
  BY GroupChatAssumption DEF CreateChat, IInv, TypeOK, Job, GroupChatAssumption
<1>2. CASE UNCHANGED <<chat, job, owner, released>> /\ Goto(w, "notify")
  <2>1. \A v \in Workers : Continues(v)
    BY <1>1, <1>2 DEF Inv, InHand, Continues, Goto, TypeOK, InFlight
  <2> QED
    BY <1>1, <1>2, <2>1, Unaffected DEF CreateChat
<1>3. ASSUME NEW c \in Chats,
             chat[c] = "none", chat' = [chat EXCEPT ![c] = "live"],
             owner' = [owner EXCEPT ![c] = job[w].tok],
             \/ /\ job' = [job EXCEPT ![w].chat = c, ![w].ok = TRUE]
                /\ Goto(w, "populate")
                /\ UNCHANGED released
             \/ /\ Goto(w, "notify")
                /\ released' = released \cup {c}
                /\ UNCHANGED job
      PROVE  Inv'
  <2>1. owner[c] = NoToken /\ c \notin released /\ c # NoChat
    BY <1>1, <1>3 DEF Inv, Owned
  <2>2. /\ \A t \in Tokens : chatOf[t] # c
        /\ \A v \in Workers : pc[v] # "idle" => job[v].snap # c
        /\ \A v \in Workers : pc[v] \in InFlight => job[v].chat # c
    BY <1>1, <2>1 DEF Inv, Owned, InHand, TypeOK, Job, InFlight
  <2>3. /\ job'[w].tok = job[w].tok /\ job'[w].snap = job[w].snap
        /\ \/ pc'[w] = "populate" /\ job'[w].chat = c /\ UNCHANGED released
           \/ pc'[w] = "notify" /\ released' = released \cup {c}
        /\ \A v \in Workers \ {w} : pc'[v] = pc[v] /\ job'[v] = job[v]
        /\ UNCHANGED <<registered, chatOf>>
        /\ owner'[c] = job[w].tok
        /\ \A d \in Chats \ {c} : owner'[d] = owner[d] /\ chat'[d] = chat[d]
    BY <1>1, <1>3 DEF CreateChat, Goto, TypeOK, Job
  <2>4. Owned' /\ ReleasedNotRecorded'
    BY <1>1, <1>3, <2>1, <2>2, <2>3 DEF Inv, Owned, ReleasedNotRecorded, TypeOK
  <2>5. ASSUME NEW v \in Workers
        PROVE  InHand(v)'
    <3>1. InHand(v) /\ (pc[v] # "idle" => job[v].snap \in Chats \cup {NoChat})
      BY <1>1 DEF Inv, TypeOK, Job
    <3>2. CASE v = w
      BY <1>1, <2>2, <2>3, <3>1, <3>2 DEF InHand, InFlight
    <3>3. CASE v # w
      BY <1>1, <2>2, <2>3, <3>1, <3>3 DEF InHand, InFlight
    <3> QED
      BY <3>2, <3>3
  <2>6. ASSUME NEW v \in Workers
        PROVE  Unknown(v)'
    <3>1. Unknown(v)
      BY <1>1 DEF Inv
    <3>2. CASE v = w
      BY <1>1, <2>1, <2>2, <2>3, <3>2 DEF Unknown, InFlight
    <3>3. CASE v # w
      BY <1>1, <2>2, <2>3, <3>1, <3>3 DEF Unknown, InFlight
    <3> QED
      BY <3>2, <3>3
  <2> QED
    BY <2>4, <2>5, <2>6 DEF Inv
<1> QED
  BY <1>2, <1>3 DEF CreateChat

\* The chat that a task records has not been released, and is its token's; one that
\* it fails to record is in nobody else's hands.
LEMMA RecordStep ==
  ASSUME IInv, NEW w \in Workers, Record(w)
  PROVE  Inv'
<1> DEFINE t == job[w].tok
           c == job[w].chat
<1>1. /\ TypeOK /\ Inv /\ t \in Tokens
      /\ pc[w] = "record" /\ pc' = [pc EXCEPT ![w] = "notify"]
      /\ \/ t \in registered /\ chatOf' = [chatOf EXCEPT ![t] = c]
         \/ UNCHANGED chatOf
      /\ released' = released \cup ({c} \ {chatOf'[t]})
      /\ UNCHANGED <<registered, job, chat, owner>>
  BY DEF Record, Update, Goto, IInv, TypeOK, Job
<1>2. c \in Chats /\ owner[c] = t /\ c \notin released
  BY <1>1 DEF Inv, InHand, Unknown, InFlight
<1>3. Owned'
  BY <1>1, <1>2, GroupChatAssumption DEF Inv, Owned, TypeOK, GroupChatAssumption
<1>4. ReleasedNotRecorded'
  <2>1. \A u \in Tokens : chatOf[u] # c /\ chatOf[u] \notin released
    BY <1>1 DEF Inv, Unknown, InFlight, ReleasedNotRecorded
  <2> QED
    BY <1>1, <1>2, <2>1 DEF ReleasedNotRecorded, TypeOK
<1>5. ASSUME NEW v \in Workers
      PROVE  InHand(v)'
  BY <1>1 DEF Inv, InHand, InFlight, TypeOK
<1>6. ASSUME NEW v \in Workers
      PROVE  Unknown(v)'
  <2>1. Unknown(v) /\ Unknown(w)
    BY <1>1 DEF Inv
  <2>2. CASE pc'[v] \in InFlight
    <3>1. v # w /\ pc[v] \in InFlight /\ job[v].chat # c
      BY <1>1, <2>1, <2>2 DEF Unknown, InFlight, TypeOK
    <3>2. \A u \in Tokens : chatOf'[u] # job[v].chat
      BY <1>1, <2>1, <3>1 DEF Unknown, TypeOK
    <3> QED
      BY <1>1, <2>1, <3>1, <3>2 DEF Unknown, InFlight, TypeOK
  <2> QED
    BY <2>2 DEF Unknown
<1> QED
  BY <1>3, <1>4, <1>5, <1>6 DEF Inv

\* The chat that a dismissal releases is recorded nowhere, and in no task's hands
\* to be recorded.
LEMMA ClearStep ==
  ASSUME IInv, NEW w \in Workers, Clear(w)
  PROVE  Inv'
<1> DEFINE t == job[w].tok
           c == job[w].snap
<1>1. /\ TypeOK /\ Inv /\ t \in Tokens /\ NoToken \notin Tokens
      /\ pc[w] = "clear" /\ pc' = [pc EXCEPT ![w] = "notify"]
      /\ \/ t \in registered /\ chatOf' = [chatOf EXCEPT ![t] = NoChat]
         \/ UNCHANGED chatOf
      /\ released' \subseteq released \cup {c}
      /\ chatOf'[t] # NoChat => released' = released
      /\ UNCHANGED <<registered, job, chat, owner>>
  BY GroupChatAssumption DEF Clear, Update, Goto, IInv, TypeOK, Job, GroupChatAssumption
<1>2. c # NoChat /\ owner[c] = t
  BY <1>1 DEF Inv, InHand
<1>3. Owned'
  BY <1>1, <1>2 DEF Inv, Owned, TypeOK
<1>4. ReleasedNotRecorded'
  <2>1. ASSUME NEW u \in Tokens
        PROVE  chatOf'[u] \notin released'
    <3>1. chatOf'[u] \in {chatOf[u], NoChat} /\ chatOf[u] \notin released
      BY <1>1 DEF Inv, ReleasedNotRecorded, TypeOK
    <3>2. NoChat \notin released'
      BY <1>1, <1>2, GroupChatAssumption DEF TypeOK, GroupChatAssumption
    <3>3. chatOf'[u] = c => released' = released
      BY <1>1, <1>2 DEF Inv, Owned, TypeOK
    <3> QED
      BY <1>1, <3>1, <3>2, <3>3
  <2> QED
    BY <2>1 DEF ReleasedNotRecorded
<1>5. ASSUME NEW v \in Workers
      PROVE  InHand(v)'
  BY <1>1 DEF Inv, InHand, InFlight, TypeOK
<1>6. ASSUME NEW v \in Workers
      PROVE  Unknown(v)'
  <2>1. Unknown(v)
    BY <1>1 DEF Inv
  <2>2. CASE pc'[v] \in InFlight
    <3>1. pc[v] \in InFlight /\ job[v].chat \in Chats /\ job[v].chat # c
      BY <1>1, <2>1, <2>2 DEF Inv, InHand, Unknown, InFlight, TypeOK
    <3>2. \A u \in Tokens : chatOf'[u] # job[v].chat
      BY <1>1, <2>1, <3>1, GroupChatAssumption DEF Unknown, TypeOK, GroupChatAssumption
    <3> QED
      BY <1>1, <2>1, <3>1, <3>2 DEF Unknown, InFlight, TypeOK
  <2> QED
    BY <2>2 DEF Unknown
<1> QED
  BY <1>3, <1>4, <1>5, <1>6 DEF Inv

\* Registering or dropping a token keeps the invariant.
LEMMA TokenStep ==
  ASSUME IInv, NEW t \in Tokens, Register(t) \/ Expire(t)
  PROVE  Inv'
<1>1. /\ TypeOK /\ Inv /\ NoChat \notin Chats
      /\ \A u \in Tokens : chatOf'[u] \in {chatOf[u], NoChat}
      /\ \A u \in Tokens : u \notin registered' => chatOf'[u] = NoChat
      /\ UNCHANGED <<pc, job, chat, owner, released>>
  BY GroupChatAssumption DEF IInv, Inv, Owned, Register, Expire, TypeOK, GroupChatAssumption
<1>2. Owned'
  BY <1>1 DEF Inv, Owned
<1>3. ReleasedNotRecorded'
  BY <1>1 DEF Inv, ReleasedNotRecorded, TypeOK
<1>4. ASSUME NEW v \in Workers
      PROVE  InHand(v)' /\ Unknown(v)'
  BY <1>1 DEF Inv, InHand, Unknown
<1> QED
  BY <1>2, <1>3, <1>4 DEF Inv

\* Every step keeps the invariant.
LEMMA InvStep ==
  ASSUME IInv, [Next]_vars
  PROVE  IInv'
<1>0. TypeOK /\ Inv
  BY DEF IInv
<1>1. TypeOK'
  BY <1>0, TypeStep DEF Inv
<1>2. ASSUME NEW w \in Workers, Decide(w)
      PROVE  Inv'
  <2>1. /\ pc[w] = "loaded" /\ job[w] \in Job
        /\ \/ pc'[w] = "idle"
           \/ /\ job' = [job EXCEPT ![w].at = now] /\ pc'[w] = "auth"
              /\ job[w].op = "dismiss" => job[w].snap # NoChat
        /\ \A v \in Workers \ {w} : pc'[v] = pc[v] /\ job'[v] = job[v]
    BY <1>0, <1>2 DEF Decide, Accepted, Start, Goto, End, TypeOK
  <2>2. job' = [job EXCEPT ![w].at = now] =>
          \A f \in {"op", "tok", "snap", "chat"} : job'[w][f] = job[w][f]
    BY <1>0, <2>1 DEF TypeOK, Job
  <2>3. \A v \in Workers : Continues(v)
    BY <1>0, <2>1, <2>2 DEF Continues, Inv, InHand, InFlight
  <2> QED
    BY <1>0, <1>2, <2>3, Unaffected DEF Decide
<1>3. ASSUME NEW w \in Workers, Auth(w) \/ Populate(w) \/ Notify(w)
      PROVE  Inv'
  <2>1. job[w] \in Job /\ Actions = {"create", "dismiss"}
    BY <1>0, <1>3 DEF Auth, Populate, Notify, TypeOK, Actions
  <2>2. \A v \in Workers : Continues(v)
    BY <1>0, <1>3, <2>1
    DEF Auth, Populate, Notify, Goto, End, Continues, Inv, InHand, InFlight, TypeOK, Job
  <2> QED
    BY <1>0, <1>3, <2>2, Unaffected DEF Auth, Populate, Notify
<1>4. ASSUME NEW w \in Workers, Dissolve(w)
      PROVE  Inv'
  <2>1. job[w] \in Job /\ pc[w] = "dissolve" /\ pc' = [pc EXCEPT ![w] = "clear"]
    BY <1>0, <1>4 DEF Dissolve, Goto, TypeOK
  <2>2. \A v \in Workers : \A f \in {"op", "tok", "snap", "chat"} : job'[v][f] = job[v][f]
    <3>1. CASE UNCHANGED job
      BY <3>1
    <3>2. CASE \E ok \in BOOLEAN : job' = [job EXCEPT ![w].ok = ok]
      BY <1>0, <2>1, <3>2 DEF TypeOK, Job
    <3> QED
      BY <1>4, <3>1, <3>2 DEF Dissolve
  <2>3. \A v \in Workers : Continues(v)
    BY <1>0, <2>1, <2>2 DEF Continues, Inv, InHand, InFlight, TypeOK
  <2>4. \A c \in Chats : chat'[c] = "none" => chat[c] = "none"
    BY <1>0, <1>4 DEF Dissolve, TypeOK
  <2> QED
    BY <1>0, <1>4, <2>3, <2>4, Unaffected DEF Dissolve
<1>5. ASSUME NEW c \in Chats, DissolvedByHand(c)
      PROVE  Inv'
  <2>1. \A d \in Chats : chat'[d] = "none" => chat[d] = "none"
    BY <1>0, <1>5 DEF DissolvedByHand, TypeOK
  <2>2. \A v \in Workers : Continues(v)
    BY <1>0, <1>5 DEF DissolvedByHand, Continues, Inv, InHand, TypeOK
  <2> QED
    BY <1>0, <1>5, <2>1, <2>2, Unaffected DEF DissolvedByHand
<1>6. ASSUME NEW r \in Replicas, Crash(r)
      PROVE  Inv'
  <2>1. \A v \in Workers : Continues(v)
    BY <1>0, <1>6 DEF Crash, Continues, Inv, InHand, TypeOK
  <2>2. ASSUME NEW c \in Unrecorded(r)
        PROVE  /\ owner[c] # NoToken
               /\ \A t \in Tokens : chatOf[t] # c
               /\ \A v \in Workers : pc'[v] \in InFlight => job'[v].chat # c
    <3>1. PICK w \in Workers : Home[w] = r /\ pc[w] \in InFlight /\ c = job[w].chat
      BY <2>2 DEF Unrecorded, InFlight
    <3>2. owner[c] = job[w].tok /\ job[w].tok \in Tokens
      BY <1>0, <3>1 DEF Inv, InHand, InFlight, TypeOK, Job
    <3>3. /\ \A t \in Tokens : chatOf[t] # c
          /\ \A v \in Workers : pc[v] \in InFlight /\ job[v].chat = c => v = w
      BY <1>0, <3>1 DEF Inv, Unknown
    <3>4. \A v \in Workers : pc'[v] \in InFlight => v # w /\ pc'[v] = pc[v] /\ job'[v] = job[v]
      BY <1>6, <3>1 DEF Crash, InFlight
    <3> QED
      BY <3>2, <3>3, <3>4, GroupChatAssumption DEF GroupChatAssumption
  <2> QED
    BY <1>0, <1>6, <2>1, <2>2, Unaffected DEF Crash
<1>7. ASSUME Tick \/ UNCHANGED vars
      PROVE  Inv'
  <2>1. \A v \in Workers : Continues(v)
    BY <1>0, <1>7 DEF Tick, vars, Continues, Inv, InHand, TypeOK
  <2> QED
    BY <1>0, <1>7, <2>1, Unaffected DEF Tick, vars
<1> QED
  BY <1>1, <1>2, <1>3, <1>4, <1>5, <1>6, <1>7, ClickStep, CreateStep, RecordStep, ClearStep,
     TokenStep
  DEF IInv, Next, Task, ClickExpired

\* The invariant holds in every reachable state.
LEMMA Invariant == Spec => []IInv
<1>1. Init => IInv
  BY NoJobType, GroupChatAssumption
  DEF Init, IInv, Inv, TypeOK, Owned, InHand, Unknown, ReleasedNotRecorded, InFlight, Locations,
      NoItems, NotSeen, GroupChatAssumption
<1> QED
  BY <1>1, InvStep, PTL DEF Spec

\* The variables of the group chat handler are always well typed.
THEOREM TypeCorrect == Spec => []TypeOK
<1>1. IInv => TypeOK
  BY DEF IInv
<1> QED
  BY <1>1, Invariant, PTL

\* No task puts a dismissed chat back on its card, whatever is clicked, lost, timed
\* out or crashed.
THEOREM ReleasedStaysReleased == Spec => []ReleasedNotRecorded
<1>1. IInv => ReleasedNotRecorded
  BY DEF IInv, Inv
<1> QED
  BY <1>1, Invariant, PTL

(***************************************************************************)
(* What gcDedup holds back: the key of a task is remembered as long as its *)
(* window lasts, whatever other clicks are checked meanwhile.              *)
(***************************************************************************)
\* A key that was seen at `since` or later, or forgotten after its window.
Kept(seen, since, at) == seen >= since \/ (seen = NotSeen /\ at - since > GcWindow)

Remembered(w) ==
  AtWork(w) => job[w].at <= now /\ Kept(gcSeen[Home[w]][job[w].key], job[w].at, now)

Spacing == TasksSpaced /\ \A w \in Workers : Remembered(w)

\* Checking a key k leaves any key j remembered for its window.
LEMMA CheckedKeeps ==
  ASSUME NEW d \in [Keys -> Nat \cup {NotSeen}], NEW k \in Keys, NEW j \in Keys,
         NEW at \in Nat, NEW since \in Nat, since <= at, Kept(d[j], since, at)
  PROVE  Kept(Checked(d, k, at, GcWindow)[j], since, at)
<1>1. GcWindow \in Nat
  BY GroupChatAssumption DEF GroupChatAssumption
<1>2. d[j] \in Int /\ (d[j] = NotSeen \/ d[j] >= 0) /\ NotSeen = -1
  BY DEF NotSeen
<1>3. Purge(d, at, GcWindow)[j] = (IF at - d[j] > GcWindow THEN NotSeen ELSE d[j])
  BY DEF Purge
<1>4. Checked(d, k, at, GcWindow)[j] \in {Purge(d, at, GcWindow)[j], at}
  BY DEF Checked, Purge
<1> QED
  BY <1>1, <1>2, <1>3, <1>4 DEF Kept

\* A click is a duplicate within the window of a task with its key.
LEMMA NotRepeated ==
  ASSUME NEW d \in [Keys -> Nat \cup {NotSeen}], NEW k \in Keys,
         NEW at \in Nat, NEW since \in Nat, Kept(d[k], since, at),
         ~IsDuplicate(d, k, at, GcWindow)
  PROVE  /\ at - since > GcWindow
         /\ Checked(d, k, at, GcWindow)[k] = at
<1>1. GcWindow \in Nat
  BY GroupChatAssumption DEF GroupChatAssumption
<1>2. d[k] \in Int /\ (d[k] = NotSeen \/ d[k] >= 0) /\ NotSeen = -1
  BY DEF NotSeen
<1>3. Purge(d, at, GcWindow)[k] = (IF at - d[k] > GcWindow THEN NotSeen ELSE d[k])
  BY DEF Purge
<1>4. Purge(d, at, GcWindow)[k] = NotSeen
  BY DEF IsDuplicate
<1>5. Checked(d, k, at, GcWindow)[k] = at
  BY <1>4 DEF Checked, Purge
<1> QED
  BY <1>1, <1>2, <1>3, <1>4, <1>5 DEF Kept

\* The key of a click that is no duplicate is marked with the present.
LEMMA Marked ==
  ASSUME NEW d \in [Keys -> Nat \cup {NotSeen}], NEW k \in Keys, NEW at \in Nat,
         ~IsDuplicate(d, k, at, GcWindow)
  PROVE  Checked(d, k, at, GcWindow)[k] = at
BY DEF Checked, IsDuplicate, Purge

\* Worker w has not started a task in this step.
Goes(w) ==
  AtWork(w)' => AtWork(w) /\ job'[w].at = job[w].at /\ job'[w].key = job[w].key

\* A step that starts no task and checks no click keeps the spacing, also if it
\* empties the caches of replicas where no task goes on.
LEMMA SpacedFrame ==
  ASSUME TypeOK, TypeOK', Spacing, now' >= now,
         \A w \in Workers : Goes(w),
         \A w \in Workers : AtWork(w)' => gcSeen'[Home[w]] = gcSeen[Home[w]]
  PROVE  Spacing'
<1>1. GcWindow \in Nat /\ now \in Nat /\ now' \in Nat
  BY GroupChatAssumption DEF TypeOK, GroupChatAssumption
<1>2. TasksSpaced'
  BY DEF Spacing, TasksSpaced, Goes
<1>3. ASSUME NEW w \in Workers
      PROVE  Remembered(w)'
  <2>1. CASE AtWork(w)'
    <3>1. /\ AtWork(w) /\ job'[w].at = job[w].at /\ job'[w].key = job[w].key
          /\ gcSeen'[Home[w]] = gcSeen[Home[w]] /\ job[w].at \in Nat
      BY <2>1 DEF Goes, TypeOK, AtWork, Job
    <3>2. job[w].at <= now /\ Kept(gcSeen[Home[w]][job[w].key], job[w].at, now)
      BY <3>1 DEF Spacing, Remembered
    <3>3. Kept(gcSeen[Home[w]][job[w].key], job[w].at, now')
      BY <1>1, <3>1, <3>2 DEF Kept
    <3>4. job'[w].at <= now'
      BY <1>1, <3>1, <3>2
    <3>5. Kept(gcSeen'[Home[w]][job'[w].key], job'[w].at, now')
      BY <3>1, <3>3
    <3> QED
      BY <3>4, <3>5 DEF Remembered, Kept
  <2> QED
    BY <2>1 DEF Remembered
<1> QED
  BY <1>2, <1>3 DEF Spacing

\* A click that gets through comes after the window of any task with its key.
LEMMA SpacedDecide ==
  ASSUME TypeOK, TypeOK', Spacing, NEW w \in Workers, Decide(w)
  PROVE  Spacing'
<1> DEFINE d == gcSeen[Home[w]]
           k == job[w].key
<1>1. /\ GcWindow \in Nat /\ now \in Nat /\ now' = now
      /\ Home \in [Workers -> Replicas]
      /\ pc[w] = "loaded" /\ job[w] \in Job /\ k \in Keys
      /\ d \in [Keys -> Nat \cup {NotSeen}]
      /\ gcSeen' = [gcSeen EXCEPT ![Home[w]] = Checked(d, k, now, GcWindow)]
      /\ Start(w) \/ End(w)
      /\ Start(w) => Accepted(w)
  BY GroupChatAssumption DEF Decide, TypeOK, Job, GroupChatAssumption, Start, End, Goto
<1>2. /\ \A v \in Workers \ {w} : pc'[v] = pc[v] /\ job'[v] = job[v]
      /\ AtWork(w)' => /\ ~IsDuplicate(d, k, now, GcWindow)
                       /\ job'[w].at = now /\ job'[w].key = k
  BY <1>1 DEF Start, End, Goto, AtWork, TypeOK, Job, Accepted, Repeated
<1>3. ASSUME NEW v \in Workers, v # w, AtWork(v)'
      PROVE  /\ job[v].at \in Nat /\ job[v].key \in Keys /\ job[v].at <= now
             /\ gcSeen[Home[v]] \in [Keys -> Nat \cup {NotSeen}]
             /\ Kept(gcSeen[Home[v]][job[v].key], job[v].at, now)
  BY <1>1, <1>2, <1>3 DEF Spacing, Remembered, AtWork, TypeOK, Job
<1> HIDE DEF d, k
<1>4. ASSUME NEW v \in Workers, v # w, AtWork(v)', AtWork(w)', Home[v] = Home[w],
             job'[v].key = job'[w].key
      PROVE  job'[w].at - job'[v].at > GcWindow
  <2>1. job[v].key = k /\ job'[v].at = job[v].at /\ job'[w].at = now
    BY <1>2, <1>4
  <2>2. Kept(d[k], job[v].at, now)
    BY <1>3, <1>4, <2>1 DEF d
  <2> QED
    BY <1>1, <1>2, <1>3, <1>4, <2>1, <2>2, NotRepeated
<1>5. TasksSpaced'
  <2>1. \A v \in Workers \ {w} : AtWork(v)' => AtWork(v)
    BY <1>2 DEF AtWork
  <2>2. ASSUME NEW u \in Workers, NEW v \in Workers, u # v, AtWork(u)', AtWork(v)',
               Home[u] = Home[v], job'[u].key = job'[v].key
        PROVE  job'[v].at - job'[u].at > GcWindow \/ job'[u].at - job'[v].at > GcWindow
    <3>1. CASE u = w
      BY <1>4, <2>2, <3>1
    <3>2. CASE v = w
      BY <1>4, <2>2, <3>2
    <3>3. CASE u # w /\ v # w
      BY <1>2, <2>1, <2>2, <3>3 DEF Spacing, TasksSpaced
    <3> QED
      BY <3>1, <3>2, <3>3
  <2> QED
    BY <2>2 DEF TasksSpaced
<1>6. ASSUME NEW v \in Workers, AtWork(v)'
      PROVE  job'[v].at <= now' /\ Kept(gcSeen'[Home[v]][job'[v].key], job'[v].at, now')
  <2>1. CASE v = w
    <3>1. gcSeen'[Home[w]][k] = now
      BY <1>1, <1>2, <1>6, <2>1, Marked DEF TypeOK
    <3> QED
      BY <1>1, <1>2, <1>6, <2>1, <3>1 DEF Kept
  <2>2. CASE v # w /\ Home[v] = Home[w]
    <3>1. gcSeen'[Home[v]] = Checked(d, k, now, GcWindow) /\ gcSeen[Home[v]] = d
      BY <1>1, <2>2 DEF TypeOK, d
    <3>2. Kept(Checked(d, k, now, GcWindow)[job[v].key], job[v].at, now)
      BY <1>1, <1>3, <1>6, <2>2, <3>1, CheckedKeeps
    <3> QED
      BY <1>1, <1>2, <1>3, <1>6, <2>2, <3>1, <3>2
  <2>3. CASE v # w /\ Home[v] # Home[w]
    <3>1. gcSeen'[Home[v]] = gcSeen[Home[v]]
      BY <1>1, <2>3 DEF TypeOK
    <3> QED
      BY <1>1, <1>2, <1>3, <1>6, <2>3, <3>1
  <2> QED
    BY <2>1, <2>2, <2>3
<1>7. \A v \in Workers : Remembered(v)'
  BY <1>6 DEF Remembered, Kept
<1> QED
  BY <1>5, <1>7 DEF Spacing

\* Every step keeps the spacing.
LEMMA SpacedStep ==
  ASSUME IInv, IInv', Spacing, [Next]_vars
  PROVE  Spacing'
<1>0. TypeOK /\ TypeOK' /\ now \in Nat
  BY DEF IInv, TypeOK
<1>1. ASSUME NEW w \in Workers, Decide(w)
      PROVE  Spacing'
  BY <1>0, <1>1, SpacedDecide
<1>2. ASSUME NEW w \in Workers,
             \/ \E t \in Tokens, op \in Actions, who \in Operators : Click(w, t, op, who)
             \/ Task(w)
      PROVE  Spacing'
  <2>1. /\ UNCHANGED <<now, gcSeen>>
        /\ \A v \in Workers \ {w} : pc'[v] = pc[v] /\ job'[v] = job[v]
    BY <1>0, <1>2
    DEF Click, Task, Auth, CreateChat, Populate, Record, Dissolve, Clear, Notify, Goto, End, TypeOK
  <2>2. Goes(w)
    <3>1. CASE \E t \in Tokens, op \in Actions, who \in Operators : Click(w, t, op, who)
      BY <1>0, <3>1 DEF Click, Goto, Goes, AtWork, TypeOK
    <3>2. CASE Auth(w) \/ Populate(w) \/ Record(w) \/ Clear(w) \/ Notify(w)
      BY <1>0, <3>2 DEF Auth, Populate, Record, Clear, Notify, Goto, End, Goes, AtWork, TypeOK
    <3>3. ASSUME CreateChat(w) \/ Dissolve(w)
          PROVE  Goes(w)
      <4>1. AtWork(w) /\ job[w] \in Job
        BY <1>0, <3>3 DEF CreateChat, Dissolve, TypeOK, AtWork
      <4>2. \/ UNCHANGED job
            \/ \E c \in Chats : job' = [job EXCEPT ![w].chat = c, ![w].ok = TRUE]
            \/ \E ok \in BOOLEAN : job' = [job EXCEPT ![w].ok = ok]
        BY <3>3 DEF CreateChat, Dissolve
      <4>3. job'[w].at = job[w].at /\ job'[w].key = job[w].key
        <5>1. ASSUME NEW c \in Chats, job' = [job EXCEPT ![w].chat = c, ![w].ok = TRUE]
              PROVE  job'[w].at = job[w].at /\ job'[w].key = job[w].key
          BY <1>0, <4>1, <5>1 DEF TypeOK, Job
        <5>2. ASSUME NEW ok \in BOOLEAN, job' = [job EXCEPT ![w].ok = ok]
              PROVE  job'[w].at = job[w].at /\ job'[w].key = job[w].key
          BY <1>0, <4>1, <5>2 DEF TypeOK, Job
        <5> QED
          BY <4>2, <5>1, <5>2
      <4> QED
        BY <4>1, <4>3 DEF Goes
    <3> QED
      BY <1>2, <3>1, <3>2, <3>3 DEF Task
  <2>3. \A v \in Workers : Goes(v)
    BY <2>1, <2>2 DEF Goes, AtWork
  <2> QED
    BY <1>0, <2>1, <2>3, SpacedFrame
<1>3. ASSUME NEW r \in Replicas, Crash(r)
      PROVE  Spacing'
  <2>1. \A v \in Workers : Goes(v)
    BY <1>0, <1>3 DEF Crash, Goes, AtWork, TypeOK
  <2>2. \A v \in Workers : AtWork(v)' => gcSeen'[Home[v]] = gcSeen[Home[v]]
    BY <1>0, <1>3, GroupChatAssumption DEF Crash, AtWork, TypeOK, GroupChatAssumption
  <2> QED
    BY <1>0, <1>3, <2>1, <2>2, SpacedFrame DEF Crash
<1>4. ASSUME \/ \E t \in Tokens : Register(t) \/ Expire(t)
             \/ \E c \in Chats : DissolvedByHand(c)
             \/ Tick
             \/ UNCHANGED vars
      PROVE  Spacing'
  <2>1. UNCHANGED <<gcSeen, pc, job>> /\ now' \in {now, now + 1}
    BY <1>4 DEF Register, Expire, DissolvedByHand, Tick, vars
  <2>2. \A v \in Workers : Goes(v)
    BY <2>1 DEF Goes, AtWork
  <2> QED
    BY <1>0, <2>1, <2>2, SpacedFrame
<1> QED
  BY <1>1, <1>2, <1>3, <1>4 DEF Next, ClickExpired

\* One replica works twice at once for the same click only when the two were
\* started more than the window apart, whatever the window and however slow Feishu.
THEOREM TasksAreSpaced == Spec => []TasksSpaced
<1>1. Init => Spacing
  BY DEF Init, Spacing, TasksSpaced, Remembered, AtWork
<1>2. IInv /\ IInv' /\ Spacing /\ [Next]_vars => Spacing'
  BY SpacedStep
<1>3. Spacing => TasksSpaced
  BY DEF Spacing
<1> QED
  BY <1>1, <1>2, <1>3, Invariant, PTL DEF Spec

(***************************************************************************)
(* One task after the other.  As long as no click of a card was overtaken, *)
(* its tasks see what the earlier ones have left, even if requests and     *)
(* writes fail.                                                            *)
(***************************************************************************)
\* The task of w has still to write to the entry of t.
Busy(w, t, op) ==
  pc[w] \notin {"idle", "loaded", "notify"} /\ job[w].tok = t /\ job[w].op = op

\* The live chat c of t has been created and is to be recorded by a task.
Coming(t, c) ==
  \E w \in Workers : Busy(w, t, "create") /\ pc[w] \in InFlight /\ job[w].chat = c

Sequential(t) ==
  /\ \A op \in Actions, v, w \in Workers : Busy(v, t, op) /\ Busy(w, t, op) => v = w
  /\ \A w \in Workers : Busy(w, t, "create") =>
       /\ chatOf[t] = NoChat
       /\ \A c \in LiveChats(t) : pc[w] \in InFlight /\ job[w].chat = c
  /\ t \in registered => \A w \in Workers : Busy(w, t, "dismiss") => chatOf[t] = job[w].snap
  /\ t \in registered => \A c \in LiveChats(t) : c = chatOf[t] \/ Coming(t, c)
  /\ \A c, d \in LiveChats(t) : c = d

\* A task stands where its button has sent it.
Fits(w) ==
  /\ pc[w] \in {"create"} \cup InFlight => job[w].op = "create"
  /\ pc[w] \in {"dissolve", "clear"} => job[w].op = "dismiss"

\* Nothing is known of a token that has not been drawn.
Drawn ==
  /\ \A c \in Chats : owner[c] \in drawn \cup {NoToken}
  /\ \A w \in Workers : pc[w] # "idle" => job[w].tok \in drawn

Inv2 == Drawn /\ \A w \in Workers : Fits(w)
SInv == Inv2 /\ \A t \in Tokens \ raced : Sequential(t)

\* A step of w is no step of another worker.
LEMMA OneWorker ==
  ASSUME TypeOK, NEW w \in Workers,
         \/ \E t \in Tokens, op \in Actions, who \in Operators : Click(w, t, op, who)
         \/ Decide(w) \/ Task(w)
  PROVE  \A v \in Workers \ {w} : pc'[v] = pc[v] /\ job'[v] = job[v]
BY DEF Click, Decide, Start, Task, Auth, CreateChat, Populate, Record, Dissolve, Clear, Notify,
       Goto, End, TypeOK

\* A step of a task goes on with the same job, but for the chat and the outcome.
LEMMA SameJob ==
  ASSUME TypeOK, NEW w \in Workers, Decide(w) \/ Task(w), pc'[w] # "idle"
  PROVE  /\ pc[w] # "idle" /\ job[w] \in Job
         /\ \A f \in {"op", "tok", "snap"} : job'[w][f] = job[w][f]
         /\ ~CreateChat(w) => job'[w].chat = job[w].chat
<1>1. pc[w] # "idle" /\ job[w] \in Job
  BY DEF Decide, Task, Auth, CreateChat, Populate, Record, Dissolve, Clear, Notify, TypeOK
<1>2. \/ UNCHANGED job
      \/ job' = [job EXCEPT ![w].at = now]
      \/ CreateChat(w) /\ \E c \in Chats : job' = [job EXCEPT ![w].chat = c, ![w].ok = TRUE]
      \/ \E ok \in BOOLEAN : job' = [job EXCEPT ![w].ok = ok]
  BY DEF Decide, Start, Task, Auth, CreateChat, Populate, Record, Dissolve, Clear, Notify, End,
         Goto, TypeOK
<1>3. ASSUME job' = [job EXCEPT ![w].at = now]
      PROVE  \A f \in {"op", "tok", "snap", "chat"} : job'[w][f] = job[w][f]
  BY <1>1, <1>3 DEF TypeOK, Job
<1>4. ASSUME NEW c \in Chats, job' = [job EXCEPT ![w].chat = c, ![w].ok = TRUE]
      PROVE  \A f \in {"op", "tok", "snap"} : job'[w][f] = job[w][f]
  BY <1>1, <1>4 DEF TypeOK, Job
<1>5. ASSUME NEW ok \in BOOLEAN, job' = [job EXCEPT ![w].ok = ok]
      PROVE  \A f \in {"op", "tok", "snap", "chat"} : job'[w][f] = job[w][f]
  BY <1>1, <1>5 DEF TypeOK, Job
<1> QED
  BY <1>1, <1>2, <1>3, <1>4, <1>5

\* Every step keeps tasks where their button has sent them, and undrawn tokens unknown.
LEMMA Inv2Step ==
  ASSUME IInv, Inv2, [Next]_vars
  PROVE  Inv2'
<1>0. TypeOK /\ Drawn /\ \A v \in Workers : Fits(v)
  BY DEF IInv, Inv2
<1>1. ASSUME NEW w \in Workers, NEW t \in Tokens, NEW op \in Actions, NEW who \in Operators,
             Click(w, t, op, who)
      PROVE  Inv2'
  <2>1. /\ pc'[w] = "loaded" /\ job'[w].tok = t /\ t \in drawn
        /\ UNCHANGED <<drawn, owner>>
    BY <1>0, <1>1 DEF Click, Goto, TypeOK
  <2>2. \A v \in Workers \ {w} : pc'[v] = pc[v] /\ job'[v] = job[v]
    BY <1>0, <1>1, OneWorker
  <2> QED
    BY <1>0, <2>1, <2>2 DEF Inv2, Drawn, Fits, InFlight
<1>2. ASSUME NEW w \in Workers, Decide(w) \/ Task(w)
      PROVE  Inv2'
  <2>1. \A v \in Workers \ {w} : pc'[v] = pc[v] /\ job'[v] = job[v]
    BY <1>0, <1>2, OneWorker
  <2>2. pc'[w] # "idle" => /\ pc[w] # "idle" /\ job[w] \in Job
                           /\ job'[w].op = job[w].op /\ job'[w].tok = job[w].tok
    BY <1>0, <1>2, SameJob
  <2>3. pc[w] # "idle" /\ job[w].tok \in drawn /\ UNCHANGED drawn
    BY <1>0, <1>2
    DEF Decide, Task, Auth, CreateChat, Populate, Record, Dissolve, Clear, Notify, Drawn
  <2>4. \A c \in Chats : owner'[c] \in {owner[c], job[w].tok}
    BY <1>0, <1>2
    DEF Decide, Task, Auth, CreateChat, Populate, Record, Dissolve, Clear, Notify, TypeOK
  <2>5. Drawn'
    BY <1>0, <2>1, <2>2, <2>3, <2>4 DEF Drawn
  <2>6. \/ pc'[w] \in {"idle", "auth", "notify"}
        \/ pc'[w] = "create" /\ job[w].op = "create"
        \/ pc'[w] = "dissolve" /\ job[w].op # "create"
        \/ pc'[w] = "clear" /\ pc[w] = "dissolve"
        \/ pc'[w] \in InFlight /\ pc[w] \in {"create"} \cup InFlight
    BY <1>0, <1>2
    DEF Decide, Start, Task, Auth, CreateChat, Populate, Record, Dissolve, Clear, Notify, Goto,
        End, TypeOK, InFlight
  <2>7. Fits(w)'
    <3>1. pc'[w] # "idle" => job[w].op \in {"create", "dismiss"}
      BY <2>2 DEF Job, Actions
    <3> QED
      BY <1>0, <2>2, <2>6, <3>1 DEF Fits, InFlight
  <2> QED
    BY <1>0, <2>1, <2>5, <2>7 DEF Inv2, Fits
<1>3. ASSUME \/ \E t \in Tokens : Register(t) \/ Expire(t)
             \/ \E c \in Chats : DissolvedByHand(c)
             \/ \E r \in Replicas : Crash(r)
             \/ Tick
             \/ UNCHANGED vars
      PROVE  Inv2'
  <2>1. /\ drawn \subseteq drawn' /\ UNCHANGED owner
        /\ \A w \in Workers : pc'[w] = "idle" \/ (pc'[w] = pc[w] /\ job'[w] = job[w])
    BY <1>0, <1>3 DEF Register, Expire, DissolvedByHand, Crash, Tick, vars, TypeOK
  <2> QED
    BY <1>0, <2>1 DEF Inv2, Drawn, Fits, InFlight
<1> QED
  BY <1>1, <1>2, <1>3 DEF Next, ClickExpired

\* A step that leaves the entry of t alone, brings t no live chat, starts no task for
\* it, and ends one with a live chat in hand only by giving the chat up.
LEMMA SequentialFrame ==
  ASSUME NEW t \in Tokens, Sequential(t),
         t \in registered' <=> t \in registered, chatOf'[t] = chatOf[t],
         LiveChats(t)' \subseteq LiveChats(t),
         \A op \in Actions, w \in Workers : Busy(w, t, op)' =>
           Busy(w, t, op) /\ job'[w].snap = job[w].snap,
         \A w \in Workers :
           Busy(w, t, "create") /\ pc[w] \in InFlight /\ job[w].chat \in LiveChats(t)' =>
             Busy(w, t, "create")' /\ pc'[w] \in InFlight /\ job'[w].chat = job[w].chat
  PROVE  Sequential(t)'
<1> USE DEF Actions
<1>1. \A op \in Actions, v, w \in Workers : Busy(v, t, op)' /\ Busy(w, t, op)' => v = w
  BY DEF Sequential
<1>2. ASSUME NEW w \in Workers, Busy(w, t, "create")'
      PROVE  /\ chatOf'[t] = NoChat
             /\ \A c \in LiveChats(t)' : pc'[w] \in InFlight /\ job'[w].chat = c
  BY <1>2 DEF Sequential
<1>3. t \in registered' =>
        \A w \in Workers : Busy(w, t, "dismiss")' => chatOf'[t] = job'[w].snap
  BY DEF Sequential
<1>4. ASSUME t \in registered', NEW c \in LiveChats(t)'
      PROVE  c = chatOf'[t] \/ Coming(t, c)'
  BY <1>4 DEF Sequential, Coming
<1>5. \A c, d \in LiveChats(t)' : c = d
  BY DEF Sequential
<1> QED
  BY <1>1, <1>2, <1>3, <1>4, <1>5 DEF Sequential

\* A click that starts a task without having been overtaken finds the entry of its
\* card as the tasks before have left it.
LEMMA SequentialDecide ==
  ASSUME IInv, SInv, NEW w \in Workers, Decide(w), NEW t \in Tokens \ raced'
  PROVE  Sequential(t)'
<1>1. /\ TypeOK /\ pc[w] = "loaded" /\ job[w] \in Job
      /\ UNCHANGED <<registered, chatOf, chat, owner, released>>
      /\ (Start(w) /\ Accepted(w)) \/ (End(w) /\ UNCHANGED raced)
      /\ Actions = {"create", "dismiss"}
  BY DEF Decide, IInv, TypeOK, Actions
<1>2. t \notin raced /\ Sequential(t)
  BY <1>1 DEF Start, SInv
<1>3. \A v \in Workers \ {w} : pc'[v] = pc[v] /\ job'[v] = job[v]
  BY <1>1, OneWorker
<1>4. LiveChats(t)' = LiveChats(t)
  BY <1>1 DEF LiveChats
<1>5. CASE \A op \in Actions : ~Busy(w, t, op)'
  <2>1. \A op \in Actions : ~Busy(w, t, op)
    BY <1>1 DEF Busy
  <2>2. \A op \in Actions, v \in Workers : Busy(v, t, op)' <=> Busy(v, t, op)
    BY <1>3, <1>5, <2>1 DEF Busy
  <2>3. \A v \in Workers : Busy(v, t, "create") => v # w
    BY <1>1, <2>1
  <2> QED
    BY <1>1, <1>2, <1>3, <1>4, <1>5, <2>2, <2>3, SequentialFrame
<1>6. CASE \E op \in Actions : Busy(w, t, op)'
  <2>1. /\ Start(w) /\ Accepted(w) /\ pc'[w] = "auth" /\ t = job[w].tok
        /\ job'[w].op = job[w].op /\ job'[w].tok = t /\ job'[w].snap = job[w].snap
    <3>1. pc'[w] # "idle" /\ Start(w) /\ Accepted(w)
      BY <1>1, <1>6 DEF Busy, End, Goto, TypeOK
    <3>2. job'[w].op = job[w].op /\ job'[w].tok = job[w].tok /\ job'[w].snap = job[w].snap
      BY <1>1, <3>1, SameJob
    <3> QED
      BY <1>1, <1>6, <3>1, <3>2 DEF Busy, Start, Goto, TypeOK
  <2>2. ~Overtaken(w)
    BY <1>1, <2>1 DEF Start
  <2>3. /\ t \in registered /\ chatOf[t] = job[w].snap
        /\ \A v \in Workers : ~Busy(v, t, job[w].op)
    BY <2>1, <2>2 DEF Overtaken, Tasks, AtWork, Busy
  <2>4. \A op \in Actions : Busy(w, t, op)' <=> op = job[w].op
    BY <2>1 DEF Busy
  <2>5. \A op \in Actions, v \in Workers \ {w} : Busy(v, t, op)' <=> Busy(v, t, op)
    BY <1>3 DEF Busy
  <2>6. \A op \in Actions, u, v \in Workers : Busy(u, t, op)' /\ Busy(v, t, op)' => u = v
    BY <1>2, <2>3, <2>4, <2>5 DEF Sequential
  <2>7. \A c \in LiveChats(t) : c = chatOf[t] \/ Coming(t, c)
    BY <1>2, <2>3 DEF Sequential
  <2>8. ASSUME NEW v \in Workers, Busy(v, t, "create")'
        PROVE  /\ chatOf'[t] = NoChat
               /\ \A c \in LiveChats(t)' : pc'[v] \in InFlight /\ job'[v].chat = c
    <3>1. CASE v = w
      <4>1. job[w].op = "create" /\ chatOf[t] = NoChat
        BY <1>1, <2>1, <2>3, <2>4, <2>8, <3>1 DEF Accepted
      <4>2. LiveChats(t) = {}
        BY <2>3, <2>7, <4>1, GroupChatAssumption DEF Coming, LiveChats, GroupChatAssumption
      <4> QED
        BY <1>1, <1>4, <4>1, <4>2
    <3>2. CASE v # w
      BY <1>1, <1>2, <1>3, <1>4, <2>5, <2>8, <3>2 DEF Sequential
    <3> QED
      BY <3>1, <3>2
  <2>9. \A v \in Workers : Busy(v, t, "dismiss")' => chatOf'[t] = job'[v].snap
    BY <1>1, <1>2, <1>3, <2>1, <2>3, <2>5 DEF Sequential
  <2>10. ASSUME NEW c \in LiveChats(t)'
         PROVE  c = chatOf'[t] \/ Coming(t, c)'
    <3>1. Coming(t, c) => Coming(t, c)'
      <4>1. ASSUME NEW v \in Workers, Busy(v, t, "create"), pc[v] \in InFlight, job[v].chat = c
            PROVE  Coming(t, c)'
        <5>1. v # w
          BY <1>1, <4>1 DEF InFlight
        <5> QED
          BY <1>1, <1>3, <2>5, <4>1, <5>1 DEF Coming
      <4> QED
        BY <4>1 DEF Coming
    <3> QED
      BY <1>1, <1>4, <2>7, <3>1
  <2>11. \A c, d \in LiveChats(t)' : c = d
    BY <1>2, <1>4 DEF Sequential
  <2> QED
    BY <2>6, <2>8, <2>9, <2>10, <2>11 DEF Sequential
<1> QED
  BY <1>5, <1>6

\* A chat that a task creates is the only one of its card.
LEMMA SequentialCreate ==
  ASSUME IInv, SInv, NEW w \in Workers, CreateChat(w), NEW t \in Tokens \ raced'
  PROVE  Sequential(t)'
<1>1. /\ TypeOK /\ pc[w] = "create" /\ job[w] \in Job /\ Actions = {"create", "dismiss"}
      /\ UNCHANGED <<registered, chatOf, raced>> /\ Sequential(t)
      /\ job[w].op = "create" /\ pc[w] \notin InFlight
  BY DEF CreateChat, IInv, SInv, Inv2, Fits, TypeOK, Actions, InFlight
<1>2. \A v \in Workers \ {w} : pc'[v] = pc[v] /\ job'[v] = job[v]
  BY <1>1, OneWorker DEF Task
<1>3. /\ pc'[w] # "idle"
      /\ job'[w].op = job[w].op /\ job'[w].tok = job[w].tok /\ job'[w].snap = job[w].snap
  <2>1. pc'[w] # "idle"
    BY <1>1 DEF CreateChat, Goto, TypeOK
  <2> QED
    BY <1>1, <2>1, SameJob DEF Task
<1>4. CASE LiveChats(t)' \subseteq LiveChats(t)
  <2>1. \A op \in Actions, v \in Workers : Busy(v, t, op)' =>
          Busy(v, t, op) /\ job'[v].snap = job[v].snap
    BY <1>1, <1>2, <1>3 DEF Busy
  <2>2. \A v \in Workers : Busy(v, t, "create") /\ pc[v] \in InFlight =>
          Busy(v, t, "create")' /\ pc'[v] \in InFlight /\ job'[v].chat = job[v].chat
    BY <1>1, <1>2 DEF Busy
  <2> QED
    BY <1>1, <1>4, <2>1, <2>2, SequentialFrame
<1>5. CASE ~(LiveChats(t)' \subseteq LiveChats(t))
  <2>1. PICK c \in Chats : /\ owner'[c] = t /\ chat'[c] = "live" /\ c \notin released'
                           /\ ~(owner[c] = t /\ chat[c] = "live" /\ c \notin released)
    BY <1>5 DEF LiveChats
  <2>2. /\ chat' = [chat EXCEPT ![c] = "live"] /\ t = job[w].tok
        /\ pc'[w] = "populate" /\ job'[w].chat = c /\ UNCHANGED released
        /\ owner' = [owner EXCEPT ![c] = t]
    <3>1. ~UNCHANGED <<chat, owner, released>>
      BY <2>1
    <3>2. PICK d \in Chats :
            /\ chat' = [chat EXCEPT ![d] = "live"]
            /\ owner' = [owner EXCEPT ![d] = job[w].tok]
            /\ \/ /\ job' = [job EXCEPT ![w].chat = d, ![w].ok = TRUE]
                  /\ Goto(w, "populate")
                  /\ UNCHANGED released
               \/ released' = released \cup {d}
      BY <3>1 DEF CreateChat
    <3>3. d = c /\ t = job[w].tok
      BY <1>1, <2>1, <3>2 DEF TypeOK
    <3>4. /\ job' = [job EXCEPT ![w].chat = c, ![w].ok = TRUE]
          /\ Goto(w, "populate") /\ UNCHANGED released
      BY <2>1, <3>2, <3>3
    <3>5. job'[w].chat = c /\ pc'[w] = "populate"
      BY <1>1, <3>4 DEF TypeOK, Job, Goto
    <3> QED
      BY <3>2, <3>3, <3>4, <3>5
  <2>3. Busy(w, t, "create") /\ Busy(w, t, "create")' /\ pc'[w] \in InFlight
    BY <1>1, <1>3, <2>2 DEF Busy, InFlight
  <2>4. \A v \in Workers : Busy(v, t, "create")' => v = w
    BY <1>1, <1>2, <2>3 DEF Sequential, Busy
  <2>5. LiveChats(t) = {} /\ chatOf[t] = NoChat
    BY <1>1, <2>3 DEF Sequential
  <2>6. LiveChats(t)' \subseteq {c}
    BY <1>1, <2>2, <2>5 DEF LiveChats, TypeOK
  <2>7. \A op \in Actions, v \in Workers : Busy(v, t, op)' => Busy(v, t, op)
    BY <1>2, <1>3, <2>3 DEF Busy
  <2>8. \A op \in Actions, u, v \in Workers : Busy(u, t, op)' /\ Busy(v, t, op)' => u = v
    BY <1>1, <2>7 DEF Sequential
  <2>9. \A v \in Workers : Busy(v, t, "create")' =>
          /\ chatOf'[t] = NoChat
          /\ \A d \in LiveChats(t)' : pc'[v] \in InFlight /\ job'[v].chat = d
    BY <1>1, <2>2, <2>3, <2>4, <2>5, <2>6
  <2>10. t \in registered' =>
           \A v \in Workers : Busy(v, t, "dismiss")' => chatOf'[t] = job'[v].snap
    BY <1>1, <1>2, <1>3, <2>7 DEF Sequential
  <2>11. \A d \in LiveChats(t)' : Coming(t, d)'
    BY <2>2, <2>3, <2>6 DEF Coming
  <2> QED
    BY <2>6, <2>8, <2>9, <2>10, <2>11 DEF Sequential
<1> QED
  BY <1>4, <1>5

\* A chat that is recorded was on no card and is the only one of its card; one whose
\* record fails is given up.
LEMMA SequentialRecord ==
  ASSUME IInv, SInv, NEW w \in Workers, Record(w), NEW t \in Tokens \ raced'
  PROVE  Sequential(t)'
<1> DEFINE c == job[w].chat
<1>1. /\ TypeOK /\ Inv /\ pc[w] = "record" /\ job[w] \in Job
      /\ Actions = {"create", "dismiss"}
      /\ UNCHANGED <<registered, job, chat, owner, raced>> /\ Sequential(t)
      /\ job[w].op = "create" /\ pc[w] \in InFlight
      /\ pc' = [pc EXCEPT ![w] = "notify"]
      /\ \/ job[w].tok \in registered /\ chatOf' = [chatOf EXCEPT ![job[w].tok] = c]
         \/ UNCHANGED chatOf
      /\ released' = released \cup ({c} \ {chatOf'[job[w].tok]})
  BY DEF Record, Update, Goto, IInv, SInv, Inv2, Fits, TypeOK, Actions, InFlight
<1>2. c \in Chats /\ \A u \in Tokens : chatOf[u] # c
  BY <1>1 DEF Inv, InHand, Unknown
<1>3. LiveChats(t)' \subseteq LiveChats(t)
  BY <1>1 DEF LiveChats
<1>4. \A op \in Actions, v \in Workers : Busy(v, t, op)' <=> Busy(v, t, op) /\ v # w
  BY <1>1 DEF Busy, TypeOK
<1>5. CASE t # job[w].tok \/ UNCHANGED chatOf
  <2>1. chatOf'[t] = chatOf[t]
    BY <1>1, <1>5 DEF TypeOK, Job
  <2>2. ~(Busy(w, t, "create") /\ c \in LiveChats(t)')
    <3>1. CASE t # job[w].tok
      BY <3>1 DEF Busy
    <3>2. CASE UNCHANGED chatOf
      BY <1>1, <1>2, <3>2 DEF LiveChats, Job
    <3> QED
      BY <1>5, <3>1, <3>2
  <2>3. \A v \in Workers :
          Busy(v, t, "create") /\ pc[v] \in InFlight /\ job[v].chat \in LiveChats(t)' =>
            Busy(v, t, "create")' /\ pc'[v] \in InFlight /\ job'[v].chat = job[v].chat
    BY <1>1, <1>4, <2>2 DEF TypeOK
  <2> QED
    BY <1>1, <1>3, <1>4, <2>1, <2>3, SequentialFrame
<1>6. CASE t = job[w].tok /\ t \in registered /\ chatOf' = [chatOf EXCEPT ![t] = c]
  <2>1. Busy(w, t, "create") /\ chatOf'[t] = c
    BY <1>1, <1>6 DEF Busy, TypeOK
  <2>2. chatOf[t] = NoChat /\ \A d \in LiveChats(t) : d = c
    BY <1>1, <2>1 DEF Sequential
  <2>3. \A v \in Workers : ~Busy(v, t, "create")'
    BY <1>1, <1>4, <2>1 DEF Sequential
  <2>4. ASSUME NEW v \in Workers
        PROVE  ~Busy(v, t, "dismiss")
    <3>1. Fits(v) /\ InHand(v) /\ pc[v] \in Locations
      BY <1>1 DEF SInv, Inv2, Inv, TypeOK
    <3>2. Busy(v, t, "dismiss") => job[v].snap # NoChat
      BY <3>1 DEF Busy, Fits, InHand, InFlight, Locations
    <3> QED
      BY <1>1, <1>6, <2>2, <3>2 DEF Sequential
  <2> QED
    BY <1>1, <1>3, <1>4, <2>1, <2>2, <2>3, <2>4 DEF Sequential
<1> QED
  BY <1>1, <1>5, <1>6

\* A dismissal that is not overtaken erases its own chat.
LEMMA SequentialClear ==
  ASSUME IInv, SInv, NEW w \in Workers, Clear(w), NEW t \in Tokens \ raced'
  PROVE  Sequential(t)'
<1> DEFINE c == job[w].snap
<1>1. /\ TypeOK /\ pc[w] = "clear" /\ job[w] \in Job
      /\ Actions = {"create", "dismiss"}
      /\ UNCHANGED <<registered, job, chat, owner, raced>> /\ Sequential(t)
      /\ job[w].op = "dismiss" /\ pc[w] \notin InFlight
      /\ pc' = [pc EXCEPT ![w] = "notify"]
      /\ \/ job[w].tok \in registered /\ chatOf' = [chatOf EXCEPT ![job[w].tok] = NoChat]
         \/ UNCHANGED chatOf
      /\ released \subseteq released'
      /\ chatOf'[job[w].tok] = NoChat => c \in released'
  BY DEF Clear, Update, Goto, IInv, SInv, Inv2, Fits, TypeOK, Actions, InFlight
<1>2. LiveChats(t)' \subseteq LiveChats(t)
  BY <1>1 DEF LiveChats
<1>3. \A op \in Actions, v \in Workers : Busy(v, t, op)' <=> Busy(v, t, op) /\ v # w
  BY <1>1 DEF Busy, TypeOK
<1>4. \A v \in Workers : Busy(v, t, "create") => Busy(v, t, "create")' /\ pc'[v] = pc[v]
  BY <1>1, <1>3 DEF Busy, TypeOK
<1>5. CASE t # job[w].tok \/ UNCHANGED chatOf
  <2>1. chatOf'[t] = chatOf[t]
    BY <1>1, <1>5 DEF TypeOK, Job
  <2> QED
    BY <1>1, <1>2, <1>3, <1>4, <2>1, SequentialFrame
<1>6. CASE t = job[w].tok /\ t \in registered /\ chatOf' = [chatOf EXCEPT ![t] = NoChat]
  <2>1. Busy(w, t, "dismiss") /\ chatOf'[t] = NoChat /\ c \in released'
    BY <1>1, <1>6 DEF Busy, TypeOK
  <2>2. chatOf[t] = c
    BY <1>1, <1>6, <2>1 DEF Sequential
  <2>3. \A v \in Workers : ~Busy(v, t, "dismiss")'
    BY <1>1, <1>3, <2>1 DEF Sequential
  <2>4. ASSUME NEW d \in LiveChats(t)'
        PROVE  Coming(t, d)'
    <3>1. d # chatOf[t] /\ d \in LiveChats(t)
      BY <1>2, <2>1, <2>2, <2>4 DEF LiveChats
    <3>2. Coming(t, d)
      BY <1>1, <1>6, <3>1 DEF Sequential
    <3> QED
      BY <1>1, <1>4, <3>2 DEF Coming
  <2>5. \A v \in Workers : Busy(v, t, "create")' =>
          \A d \in LiveChats(t)' : pc'[v] \in InFlight /\ job'[v].chat = d
    BY <1>1, <1>2, <1>3, <1>4 DEF Sequential
  <2> QED
    BY <1>1, <1>2, <1>3, <2>1, <2>3, <2>4, <2>5 DEF Sequential
<1> QED
  BY <1>1, <1>5, <1>6

\* Every step keeps the tasks of a card that was not overtaken one after the other.
LEMMA SequentialStep ==
  ASSUME IInv, SInv, [Next]_vars
  PROVE  SInv'
<1>0. TypeOK /\ Inv /\ Drawn /\ \A t \in Tokens \ raced : Sequential(t)
  BY DEF IInv, SInv, Inv2
<1>1. Inv2'
  BY Inv2Step DEF SInv
<1>2. ASSUME NEW w \in Workers, NEW t \in Tokens \ raced',
             \/ \E u \in Tokens, op \in Actions, who \in Operators : Click(w, u, op, who)
             \/ Auth(w) \/ Populate(w) \/ Notify(w) \/ Dissolve(w)
      PROVE  Sequential(t)'
  <2>1. \A v \in Workers \ {w} : pc'[v] = pc[v] /\ job'[v] = job[v]
    BY <1>0, <1>2, OneWorker DEF Task
  <2>2. /\ UNCHANGED <<registered, chatOf, owner, released, raced>>
        /\ \A c \in Chats : chat'[c] = "live" => chat[c] = "live"
        /\ pc'[w] \in {"idle", "loaded", "notify"} \/ Auth(w) \/ Populate(w) \/ Dissolve(w)
        /\ pc[w] \in InFlight => Populate(w)
    BY <1>0, <1>2 DEF Click, Auth, Populate, Notify, Dissolve, Goto, End, TypeOK, InFlight
  <2>3. LiveChats(t)' \subseteq LiveChats(t)
    BY <2>2 DEF LiveChats
  <2>4. \A op \in Actions : Busy(w, t, op)' => Busy(w, t, op) /\ job'[w].snap = job[w].snap
    <3>1. ASSUME NEW op \in Actions, Busy(w, t, op)'
          PROVE  Busy(w, t, op) /\ job'[w].snap = job[w].snap
      <4>1. Auth(w) \/ Populate(w) \/ Dissolve(w)
        BY <2>2, <3>1 DEF Busy
      <4>2. pc[w] \in {"auth", "populate", "dissolve"} /\ pc'[w] # "idle"
        BY <3>1, <4>1 DEF Auth, Populate, Dissolve, Busy
      <4>3. job'[w].op = job[w].op /\ job'[w].tok = job[w].tok /\ job'[w].snap = job[w].snap
        BY <1>0, <4>1, <4>2, SameJob DEF Task
      <4> QED
        BY <3>1, <4>2, <4>3 DEF Busy
    <3> QED
      BY <3>1
  <2>5. pc[w] \in InFlight => pc'[w] = "record" /\ job'[w] = job[w]
    BY <1>0, <2>2 DEF Populate, Goto, TypeOK
  <2>6. \A op \in Actions, v \in Workers : Busy(v, t, op)' =>
          Busy(v, t, op) /\ job'[v].snap = job[v].snap
    BY <2>1, <2>4 DEF Busy
  <2>7. \A v \in Workers : Busy(v, t, "create") /\ pc[v] \in InFlight =>
          Busy(v, t, "create")' /\ pc'[v] \in InFlight /\ job'[v].chat = job[v].chat
    BY <2>1, <2>5 DEF Busy, InFlight
  <2> QED
    BY <1>0, <2>2, <2>3, <2>6, <2>7, SequentialFrame
<1>3. ASSUME NEW u \in Tokens, NEW t \in Tokens \ raced', Register(u)
      PROVE  Sequential(t)'
  <2>1. /\ UNCHANGED <<chatOf, pc, job, chat, owner, released, raced>> /\ Sequential(t)
        /\ registered' = registered \cup {u} /\ u \notin drawn
    BY <1>0, <1>3 DEF Register
  <2>2. \A op \in Actions, w \in Workers : Busy(w, t, op)' <=> Busy(w, t, op)
    BY <2>1 DEF Busy
  <2>3. LiveChats(t)' = LiveChats(t)
    BY <2>1 DEF LiveChats
  <2>4. CASE t # u
    BY <2>1, <2>2, <2>3, <2>4, SequentialFrame DEF Actions
  <2>5. CASE t = u
    <3>1. LiveChats(t) = {} /\ \A op \in Actions, w \in Workers : ~Busy(w, t, op)
      BY <1>0, <2>1, <2>5, GroupChatAssumption DEF Drawn, LiveChats, Busy, GroupChatAssumption
    <3> QED
      BY <2>2, <2>3, <3>1 DEF Sequential, Actions
  <2> QED
    BY <2>4, <2>5
<1>4. ASSUME NEW u \in Tokens, NEW t \in Tokens \ raced', Expire(u)
      PROVE  Sequential(t)'
  <2>1. /\ UNCHANGED <<pc, job, chat, owner, released, raced>> /\ Sequential(t)
        /\ registered' = registered \ {u} /\ chatOf' = [chatOf EXCEPT ![u] = NoChat]
    BY <1>0, <1>4 DEF Expire
  <2>2. \A op \in Actions, w \in Workers : Busy(w, t, op)' <=> Busy(w, t, op)
    BY <2>1 DEF Busy
  <2>3. LiveChats(t)' = LiveChats(t)
    BY <2>1 DEF LiveChats
  <2>4. CASE t # u
    <3>1. chatOf'[t] = chatOf[t]
      BY <1>0, <2>1, <2>4 DEF TypeOK
    <3> QED
      BY <2>1, <2>2, <2>3, <2>4, <3>1, SequentialFrame DEF Actions
  <2>5. CASE t = u
    <3>1. chatOf'[t] = NoChat /\ t \notin registered'
      BY <1>0, <2>1, <2>5 DEF TypeOK
    <3> QED
      BY <2>1, <2>2, <2>3, <3>1 DEF Sequential, Actions
  <2> QED
    BY <2>4, <2>5
<1>5. ASSUME NEW c \in Chats, NEW t \in Tokens \ raced', DissolvedByHand(c)
      PROVE  Sequential(t)'
  <2>1. UNCHANGED <<registered, chatOf, pc, job, owner, released, raced>> /\ Sequential(t)
    BY <1>0, <1>5 DEF DissolvedByHand
  <2>2. \A op \in Actions, w \in Workers : Busy(w, t, op)' <=> Busy(w, t, op)
    BY <2>1 DEF Busy
  <2>3. LiveChats(t)' \subseteq LiveChats(t)
    BY <1>0, <1>5, <2>1 DEF DissolvedByHand, LiveChats, TypeOK
  <2> QED
    BY <2>1, <2>2, <2>3, SequentialFrame DEF Actions
<1>6. ASSUME NEW r \in Replicas, NEW t \in Tokens \ raced', Crash(r)
      PROVE  Sequential(t)'
  <2>1. /\ UNCHANGED <<registered, chatOf, chat, owner, raced>> /\ Sequential(t)
        /\ \A w \in Workers : IF Home[w] = r THEN pc'[w] = "idle"
                                             ELSE pc'[w] = pc[w] /\ job'[w] = job[w]
        /\ released' = released \cup Unrecorded(r)
    BY <1>0, <1>6 DEF Crash, TypeOK
  <2>2. \A op \in Actions, w \in Workers :
          Busy(w, t, op)' => Busy(w, t, op) /\ job'[w] = job[w]
    BY <2>1 DEF Busy
  <2>3. LiveChats(t)' \subseteq LiveChats(t)
    BY <2>1 DEF LiveChats
  <2>4. ASSUME NEW w \in Workers, Busy(w, t, "create"), pc[w] \in InFlight,
               job[w].chat \in LiveChats(t)'
        PROVE  Busy(w, t, "create")' /\ pc'[w] \in InFlight /\ job'[w].chat = job[w].chat
    <3>1. Home[w] # r
      BY <2>1, <2>4 DEF LiveChats, Unrecorded, InFlight
    <3> QED
      BY <2>1, <2>4, <3>1 DEF Busy
  <2> QED
    BY <2>1, <2>2, <2>3, <2>4, SequentialFrame
<1>7. ASSUME NEW t \in Tokens \ raced', Tick \/ UNCHANGED vars
      PROVE  Sequential(t)'
  <2>1. UNCHANGED <<registered, chatOf, pc, job, chat, owner, released, raced>> /\ Sequential(t)
    BY <1>0, <1>7 DEF Tick, vars
  <2>2. \A op \in Actions, w \in Workers : Busy(w, t, op)' <=> Busy(w, t, op)
    BY <2>1 DEF Busy
  <2>3. LiveChats(t)' = LiveChats(t)
    BY <2>1 DEF LiveChats
  <2> QED
    BY <2>1, <2>2, <2>3, SequentialFrame DEF Actions
<1>8. \A t \in Tokens \ raced' : Sequential(t)'
  BY <1>2, <1>3, <1>4, <1>5, <1>6, <1>7, SequentialDecide, SequentialCreate, SequentialRecord,
     SequentialClear
  DEF Next, Task, ClickExpired
<1> QED
  BY <1>1, <1>8 DEF SInv

\* The tasks of a card that was not overtaken follow one another in every
\* reachable state.
LEMMA InSequence == Spec => []SInv
<1>1. Init => SInv
  BY DEF Init, SInv, Inv2, Drawn, Fits, Sequential, Busy, Coming, LiveChats, InFlight
<1>2. IInv /\ SInv /\ [Next]_vars => SInv'
  BY SequentialStep
<1> QED
  BY <1>1, <1>2, Invariant, PTL DEF Spec

\* A card has two live chats only if a task was started on a click that another had
\* overtaken: no failing write or request, crash, expiry or slow task does it.
THEOREM SecondChatsHaveCause == Spec => []SecondChatHasCause
<1>1. SInv => SecondChatHasCause
  BY DEF SInv, Sequential, SecondChatHasCause
<1> QED
  BY <1>1, InSequence, PTL

\* Nor is a live chat missing from the entry of its card otherwise, once its tasks
\* are over.
THEOREM UnrecordedHaveCause == Spec => []UnrecordedHasCause
<1>1. ASSUME IInv, SInv
      PROVE  UnrecordedHasCause
  <2>1. ASSUME NEW t \in registered \ raced, Tasks(t) = {}, NEW c \in LiveChats(t)
        PROVE  c = chatOf[t]
    <3>1. t \in Tokens /\ Sequential(t)
      BY <1>1, <2>1 DEF IInv, TypeOK, SInv
    <3>2. ~Coming(t, c)
      BY <2>1 DEF Coming, Busy, Tasks, AtWork
    <3> QED
      BY <2>1, <3>1, <3>2 DEF Sequential
  <2> QED
    BY <2>1 DEF UnrecordedHasCause
<1> QED
  BY <1>1, Invariant, InSequence, PTL

\* Nor does a dismissal erase the record of another chat than its own.
THEOREM ErasesOwn == Spec => ErasesOwnChat
<1>1. ASSUME IInv, SInv, NEW w \in Workers, pc[w] = "clear", job[w].tok \notin raced
      PROVE  chatOf[job[w].tok] \in {NoChat, job[w].snap}
  <2>1. /\ job[w].tok \in Tokens /\ Busy(w, job[w].tok, "dismiss") /\ Sequential(job[w].tok)
        /\ job[w].tok \notin registered => chatOf[job[w].tok] = NoChat
    BY <1>1 DEF IInv, Inv, Owned, TypeOK, Job, SInv, Inv2, Fits, Busy
  <2> QED
    BY <2>1 DEF Sequential
<1>2. IInv /\ SInv /\ [Next]_vars =>
        [\A w \in Workers :
           pc[w] = "clear" /\ pc'[w] = "notify" /\ job[w].tok \notin raced =>
             chatOf[job[w].tok] \in {NoChat, job[w].snap}]_vars
  BY <1>1
<1> QED
  BY <1>2, Invariant, InSequence, PTL DEF Spec, ErasesOwnChat
===============================================================================
