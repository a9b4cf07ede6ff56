------------------------------ MODULE GroupChat ------------------------------
(***************************************************************************)
(* The "create a group chat" and "dismiss it" buttons of an alert card:    *)
(* handleGroupChatCallback, asyncCreateChat and asyncDismissChat of        *)
(* internal/gateway/handlers.go, over the token store, the gcDedup cache   *)
(* of each replica and the chats of Feishu.                                *)
(*                                                                         *)
(* A worker is the goroutine that serves one callback and then the task it *)
(* starts with `go`.  It works throughout on the chat_id it loaded at the  *)
(* start.  Load and Update are single steps that may fail.  What only a    *)
(* client of Redis can do, to send a SET again after others have written,  *)
(* is in RedisTokenStore and not here.                                     *)
(***************************************************************************)
EXTENDS Dedup

CONSTANTS
  Workers,      \* callbacks that can be in progress at once
  Replicas,     \* gateway processes
  Home,         \* Home[w]: the replica that serves w
  Operators,    \* users who click
  Tokens,       \* alert cards
  Chats,        \* chat ids that Feishu can give out
  NoChat,       \* the empty chat_id
  NoToken,      \* of a chat that has not been created
  GcWindow,     \* ttl of gcDedup: 60 s
  HandlerTime,  \* longest time from Load to isDuplicate in the handler
  TaskTime,     \* longest time of a task: 15 s for each of its requests
  Credentials,  \* tokens for which resolveFeishuCreds finds credentials
  MaxTime,      \* bound on the clock, for TLC only
  MaxCrashes    \* bound on the crashes of a process

Actions == {"create", "dismiss"}
Keys    == Tokens \X Actions \X Operators

ASSUME GroupChatAssumption ==
  /\ Home \in [Workers -> Replicas]
  /\ NoChat \notin Chats /\ NoToken \notin Tokens
  /\ Credentials \subseteq Tokens
  /\ {GcWindow, HandlerTime, TaskTime, MaxTime, MaxCrashes} \subseteq Nat

VARIABLES
  now,        \* the clock, in seconds
  drawn,      \* tokens that GenToken has drawn
  registered, \* tokens of which the store still has an entry
  chatOf,     \* chatOf[t]: the chat_id in the entry of t
  gcSeen,     \* gcSeen[r]: the gcDedup cache of replica r
  pc,         \* pc[w]: where worker w stands
  job,        \* job[w]: what worker w works on
  chat,       \* chat[c]: "none", "live" or "dissolved" in Feishu
  crashes,    \* crashes so far
  owner,      \* history: owner[c] is the token that c was created for
  released,   \* history: chats that a dismissal, failed or not, has taken off their token,
              \* and those that have not got there: the reply to their creation was lost,
              \* the write of the id failed, or a crash came before it
  raced       \* history: tokens for which a task was started on an Overtaken click

vars ==
  <<now, drawn, registered, chatOf, gcSeen, pc, job, chat, crashes, owner, released, raced>>

NoJob == [op |-> "none"]
Job ==
  [op: Actions, key: Keys, tok: Tokens, at: Nat, snap: Chats \cup {NoChat},
   chat: Chats \cup {NoChat}, ok: BOOLEAN]

Locations ==
  {"idle", "loaded", "auth", "create", "populate", "record", "dissolve", "clear", "notify"}

\* The task of w has started and has not ended.
AtWork(w) == pc[w] \notin {"idle", "loaded"}
Tasks(t)  == {w \in Workers : AtWork(w) /\ job[w].tok = t}

TypeOK ==
  /\ now \in Nat
  /\ registered \subseteq drawn /\ drawn \subseteq Tokens
  /\ chatOf \in [Tokens -> Chats \cup {NoChat}]
  /\ gcSeen \in [Replicas -> [Keys -> Nat \cup {NotSeen}]]
  /\ pc \in [Workers -> Locations]
  /\ job \in [Workers -> Job \cup {NoJob}]
  /\ \A w \in Workers : pc[w] # "idle" => job[w] \in Job
  /\ chat \in [Chats -> {"none", "live", "dissolved"}]
  /\ crashes \in Nat
  /\ owner \in [Chats -> Tokens \cup {NoToken}]
  /\ released \subseteq Chats
  /\ raced \subseteq Tokens

Init ==
  /\ now = 0
  /\ drawn = {}
  /\ registered = {}
  /\ chatOf = [t \in Tokens |-> NoChat]
  /\ gcSeen = [r \in Replicas |-> NoItems(Keys)]
  /\ pc = [w \in Workers |-> "idle"]
  /\ job = [w \in Workers |-> NoJob]
  /\ chat = [c \in Chats |-> "none"]
  /\ crashes = 0
  /\ owner = [c \in Chats |-> NoToken]
  /\ released = {}
  /\ raced = {}

Goto(w, l) == pc' = [pc EXCEPT ![w] = l]

End(w) ==
  /\ Goto(w, "idle")
  /\ job' = [job EXCEPT ![w] = NoJob]

\* handleGroupChatRegister; a token is drawn once.
Register(t) ==
  /\ t \notin drawn
  /\ drawn' = drawn \cup {t}
  /\ registered' = registered \cup {t}
  /\ UNCHANGED <<now, chatOf, gcSeen, pc, job, chat, crashes, owner, released, raced>>

(***************************************************************************)
(* The handler.                                                            *)
(***************************************************************************)
\* Load finds nothing, or fails: the operator is told that the token has expired.
ClickExpired(w, t) ==
  /\ pc[w] = "idle"
  /\ t \in drawn
  /\ UNCHANGED vars

Click(w, t, op, who) ==
  /\ pc[w] = "idle"
  /\ t \in registered
  /\ job' = [job EXCEPT ![w] =
       [op |-> op, key |-> <<t, op, who>>, tok |-> t, at |-> now,
        snap |-> chatOf[t], chat |-> NoChat, ok |-> FALSE]]
  /\ Goto(w, "loaded")
  /\ UNCHANGED <<now, drawn, registered, chatOf, gcSeen, chat, crashes, owner, released, raced>>

Repeated(w) == IsDuplicate(gcSeen[Home[w]], job[w].key, now, GcWindow)

\* Fault: the chat_id is not looked at.
AcceptedBlindly(w) == ~Repeated(w) /\ job[w].tok \in Credentials

\* A click that gets through starts a task, unless there are no credentials, or
\* there is a chat already (create) or none yet (dismiss).
Accepted(w) ==
  /\ ~Repeated(w)
  /\ job[w].tok \in Credentials
  /\ (job[w].snap = NoChat) <=> (job[w].op = "create")

\* What w has loaded is out of date, or a task of the same button on the same card
\* is about to make it so.
Overtaken(w) ==
  \/ job[w].tok \notin registered
  \/ chatOf[job[w].tok] # job[w].snap
  \/ \E v \in Tasks(job[w].tok) : job[v].op = job[w].op /\ pc[v] # "notify"

Start(w) ==
  /\ Goto(w, "auth")
  /\ job' = [job EXCEPT ![w].at = now]
  /\ raced' = raced \cup {t \in {job[w].tok} : Overtaken(w)}

Decide(w) ==
  /\ pc[w] = "loaded"
  /\ gcSeen' = [gcSeen EXCEPT ![Home[w]] = Checked(@, job[w].key, now, GcWindow)]
  /\ IF Accepted(w) THEN Start(w) ELSE End(w) /\ UNCHANGED raced
  /\ UNCHANGED <<now, drawn, registered, chatOf, chat, crashes, owner, released>>

(***************************************************************************)
(* The tasks.  A request to Feishu can be refused, or its reply be lost    *)
(* after it has taken effect; neither is tried again.                      *)
(***************************************************************************)
\* GetAccessToken, whose failure ends either task without a card.
Auth(w) ==
  /\ pc[w] = "auth"
  /\ \/ Goto(w, IF job[w].op = "create" THEN "create" ELSE "dissolve") /\ UNCHANGED job
     \/ End(w)
  /\ UNCHANGED <<now, drawn, registered, chatOf, gcSeen, chat, crashes, owner, released, raced>>

\* Update fails if the entry is gone, and may fail with the entry still there, on
\* an error of the disk or of Redis.  No caller looks at its result.
Update(t, c) ==
  \/ /\ t \in registered
     /\ chatOf' = [chatOf EXCEPT ![t] = c]
  \/ UNCHANGED chatOf

CreateChat(w) ==
  /\ pc[w] = "create"
  /\ \/ \E c \in Chats :
          /\ chat[c] = "none"
          /\ chat' = [chat EXCEPT ![c] = "live"]
          /\ owner' = [owner EXCEPT ![c] = job[w].tok]
          /\ \/ /\ job' = [job EXCEPT ![w].chat = c, ![w].ok = TRUE]
                /\ Goto(w, "populate")
                /\ UNCHANGED released
             \/ /\ Goto(w, "notify")
                /\ released' = released \cup {c}
                /\ UNCHANGED job
     \/ /\ Goto(w, "notify")
        /\ UNCHANGED <<chat, job, owner, released>>
  /\ UNCHANGED <<now, drawn, registered, chatOf, gcSeen, crashes, raced>>

\* Fault: a member that cannot be added ends the task.
PopulateGivesUp(w) ==
  /\ pc[w] = "populate"
  /\ Goto(w, "record") \/ Goto(w, "notify")
  /\ UNCHANGED <<now, drawn, registered, chatOf, gcSeen, job, chat, crashes, owner, released, raced>>

\* Fault: the chat is written back early, and again at the end.
PopulateRecords(w) ==
  /\ pc[w] = "populate"
  /\ Update(job[w].tok, job[w].chat)
  /\ Goto(w, "record")
  /\ UNCHANGED <<now, drawn, registered, gcSeen, job, chat, crashes, owner, released, raced>>

\* AddMembersByEmail, AddChatManagers and SendCardToChat: their failures are
\* only logged, so that all they do to the task is take time.
Populate(w) ==
  /\ pc[w] = "populate"
  /\ Goto(w, "record")
  /\ UNCHANGED <<now, drawn, registered, chatOf, gcSeen, job, chat, crashes, owner, released, raced>>

Record(w) ==
  /\ pc[w] = "record"
  /\ Update(job[w].tok, job[w].chat)
  /\ released' = released \cup ({job[w].chat} \ {chatOf'[job[w].tok]})
  /\ Goto(w, "notify")
  /\ UNCHANGED <<now, drawn, registered, gcSeen, job, chat, crashes, owner, raced>>

\* DismissChat; a chat that Feishu says is dissolved already counts as success.
Dissolve(w) ==
  /\ pc[w] = "dissolve"
  /\ LET c == job[w].snap IN
       \/ /\ chat' = [chat EXCEPT ![c] = "dissolved"]
          /\ \E ok \in BOOLEAN : job' = [job EXCEPT ![w].ok = ok]
       \/ UNCHANGED <<chat, job>>
  /\ Goto(w, "clear")
  /\ UNCHANGED <<now, drawn, registered, chatOf, gcSeen, crashes, owner, released, raced>>

\* The chat_id is erased even if the dismissal failed: the card then tells the
\* operator to dissolve the chat by hand.  If Update fails it stays.
Clear(w) ==
  /\ pc[w] = "clear"
  /\ Update(job[w].tok, NoChat)
  /\ released' = IF chatOf'[job[w].tok] = NoChat THEN released \cup {job[w].snap} ELSE released
  /\ Goto(w, "notify")
  /\ UNCHANGED <<now, drawn, registered, gcSeen, job, chat, crashes, owner, raced>>

\* The card for the operator.
Notify(w) ==
  /\ pc[w] = "notify"
  /\ End(w)
  /\ UNCHANGED <<now, drawn, registered, chatOf, gcSeen, chat, crashes, owner, released, raced>>

(***************************************************************************)
(* The environment.                                                        *)
(***************************************************************************)
\* The store drops an entry whose TTL is over.
Expire(t) ==
  /\ t \in registered
  /\ registered' = registered \ {t}
  /\ chatOf' = [chatOf EXCEPT ![t] = NoChat]
  /\ UNCHANGED <<now, drawn, gcSeen, pc, job, chat, crashes, owner, released, raced>>

\* Members may dissolve the chat in Feishu itself.
DissolvedByHand(c) ==
  /\ chat[c] = "live"
  /\ chat' = [chat EXCEPT ![c] = "dissolved"]
  /\ UNCHANGED <<now, drawn, registered, chatOf, gcSeen, pc, job, crashes, owner, released, raced>>

\* Chats that only the tasks of r know of.
Unrecorded(r) ==
  {job[w].chat : w \in {v \in Workers : Home[v] = r /\ pc[v] \in {"populate", "record"}}}

Crash(r) ==
  /\ crashes < MaxCrashes
  /\ crashes' = crashes + 1
  /\ gcSeen' = [gcSeen EXCEPT ![r] = NoItems(Keys)]
  /\ pc' = [w \in Workers |-> IF Home[w] = r THEN "idle" ELSE pc[w]]
  /\ job' = [w \in Workers |-> IF Home[w] = r THEN NoJob ELSE job[w]]
  /\ released' = released \cup Unrecorded(r)
  /\ UNCHANGED <<now, drawn, registered, chatOf, chat, owner, raced>>

Deadline(w) == job[w].at + (IF pc[w] = "loaded" THEN HandlerTime ELSE TaskTime)

Tick ==
  /\ now < MaxTime
  /\ \A w \in Workers : pc[w] # "idle" => now < Deadline(w)
  /\ now' = now + 1
  /\ UNCHANGED <<drawn, registered, chatOf, gcSeen, pc, job, chat, crashes, owner, released, raced>>

Task(w) ==
  Auth(w) \/ CreateChat(w) \/ Populate(w) \/ Record(w) \/ Dissolve(w) \/ Clear(w) \/ Notify(w)

Next ==
  \/ \E w \in Workers :
       \/ \E t \in Tokens, op \in Actions, who \in Operators : Click(w, t, op, who)
       \/ \E t \in Tokens : ClickExpired(w, t)
       \/ Decide(w) \/ Task(w)
  \/ \E t \in Tokens : Register(t) \/ Expire(t)
  \/ \E c \in Chats : DissolvedByHand(c)
  \/ \E r \in Replicas : Crash(r)
  \/ Tick

Spec == Init /\ [][Next]_vars

(***************************************************************************)
(* Properties.                                                             *)
(***************************************************************************)
\* The live chats of t that have neither been taken off its entry by a dismissal nor
\* been lost on the way there.
LiveChats(t) == {c \in Chats : owner[c] = t /\ chat[c] = "live" /\ c \notin released}

\* "协同群已存在，无需重复创建": an alert that has a group chat gets no second one.  The
\* code does not keep this.
OneLiveChat == \A t \in Tokens : \A c, d \in LiveChats(t) : c = d

\* gcDedup lets one replica work twice at once for the same button of the same card
\* and the same operator only when the tasks were started more than its window
\* apart, however long they take.
TasksSpaced ==
  \A v, w \in Workers :
    /\ v # w /\ AtWork(v) /\ AtWork(w)
    /\ Home[v] = Home[w] /\ job[v].key = job[w].key
    => \/ job[w].at - job[v].at > GcWindow
       \/ job[v].at - job[w].at > GcWindow

\* An alert comes by a second live chat only after a task was started on an
\* overtaken click.  A write that fails, a lost reply, a dismissal that fails, a
\* crash, an entry that expires or a slow task is not enough.
SecondChatHasCause == \A t \in Tokens \ raced : \A c, d \in LiveChats(t) : c = d

\* Without an overtaken click no chat is orphaned: when no task works on t, the live
\* chat of t is the one in its entry, so that its members can still dismiss it.
UnrecordedHasCause ==
  \A t \in registered \ raced : Tasks(t) = {} => LiveChats(t) \subseteq {chatOf[t]}

\* Without an overtaken click a dismissal erases the record of the chat that it was
\* started for, and not that of a chat created since.
ErasesOwnChat ==
  [][\A w \in Workers :
       pc[w] = "clear" /\ pc'[w] = "notify" /\ job[w].tok \notin raced =>
         chatOf[job[w].tok] \in {NoChat, job[w].snap}]_vars

\* Once a dismissal has taken a chat off its token, or the chat was lost on the way
\* there, no task that is still running, of whatever operator and replica, puts it
\* there.
ReleasedNotRecorded == \A t \in Tokens : chatOf[t] \notin released
===============================================================================
