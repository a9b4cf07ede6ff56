-------------------------- MODULE GroupMembersProofs --------------------------
(***************************************************************************)
(* The requests that fill a new chat are a step of GroupChat, seen from    *)
(* closer by; and the card about the chat lists its members as it should,  *)
(* for any number of operators, replicas, invited people and failures.     *)
(***************************************************************************)
EXTENDS GroupMembers, GroupChatProofs

(***************************************************************************)
(* The steps of GroupMembers are steps of GroupChat, or leave it alone.    *)
(***************************************************************************)
\* The filling of a chat is an implementation of GroupChat, whose theorems hold of
\* it therefore.
THEOREM MembersUseGroupChat == MembersSpec => Spec
<1>1. MembersInit => Init
  BY DEF MembersInit
<1>2. [MembersNext]_membersVars => [Next]_vars
  <2> SUFFICES ASSUME [MembersNext]_membersVars
               PROVE  [Next]_vars
    OBVIOUS
  <2>1. ASSUME NEW w \in Workers,
               Lookup(w) \/ AddMembers(w) \/ AddMembersFails(w) \/ AdminLookup(w) \/ AdminJoin(w)
        PROVE  UNCHANGED vars
    BY <2>1 DEF Lookup, AddMembers, AddMembersFails, AdminLookup, AdminJoin
  <2>2. ASSUME NEW w \in Workers, CardToChat(w)
        PROVE  Next
    BY <2>2 DEF CardToChat, Next, Task
  <2>3. CASE Elsewhere
    BY <2>3 DEF Elsewhere
  <2>4. CASE UNCHANGED membersVars
    BY <2>4 DEF membersVars
  <2> QED
    BY <2>1, <2>2, <2>3, <2>4 DEF MembersNext
<1> QED
  BY <1>1, <1>2, PTL DEF MembersSpec, Spec

(***************************************************************************)
(* The invariant.                                                          *)
(***************************************************************************)
\* Where a worker stands tells what it is at.
Placed(w) ==
  /\ pc[w] \in {"loaded", "auth", "create"} => ~job[w].ok
  /\ pc[w] = "create" => job[w].op = "create"
  /\ pc[w] \in {"dissolve", "clear"} => job[w].op = "dismiss"
  /\ pc[w] \in {"populate", "record"} => HasMade(w)

\* A chat that was made is a chat of its own.
Own(w) ==
  HasMade(w) =>
    /\ job[w].chat \in Chats /\ chat[job[w].chat] # "none"
    /\ \A v \in Workers : HasMade(v) /\ job[v].chat = job[w].chat => v = w

\* What a worker knows of the members of its chat is right.
Knows(w) ==
  IF ~HasMade(w) THEN roll[w] = NewRoll
  ELSE LET in == joined[job[w].chat] IN
       /\ pc[w] \in {"record", "notify"} => roll[w].step = "card"
       /\ roll[w].step \in {"lookup", "add"} => in = {}
       /\ roll[w].step = "add" => roll[w].invalid = Asked(w) \ roll[w].found
       /\ roll[w].step \in {"admin", "join", "card"} =>
            /\ Asked(w) \ roll[w].invalid \subseteq in
            /\ ~roll[w].lost => in \cap Asked(w) \subseteq (Asked(w) \ roll[w].invalid) \cup Admin

\* Nobody is in a chat that does not exist.
Empty == \A c \in Chats : chat[c] = "none" => joined[c] = {}

RollType == roll \in [Workers -> Roll] /\ joined \in [Chats -> SUBSET Emails]

MembersInv == RollType /\ Empty /\ \A w \in Workers : Placed(w) /\ Own(w) /\ Knows(w)

\* The fields of a job, and of what a worker knows of the members.
LEMMA Parts ==
  ASSUME TypeOK, RollType, NEW w \in Workers
  PROVE  /\ pc[w] # "idle" =>
              /\ job[w] \in Job /\ job[w].tok \in Tokens /\ job[w].ok \in BOOLEAN
              /\ job[w].chat \in Chats \cup {NoChat}
              /\ Asked(w) \in SUBSET Emails
         /\ roll[w] \in Roll
         /\ roll[w].found \in SUBSET Emails /\ roll[w].invalid \in SUBSET Emails
         /\ roll[w].lost \in BOOLEAN
         /\ Admin \subseteq Emails
BY GroupMembersAssumption DEF GroupMembersAssumption, TypeOK, RollType, Roll, Job, Asked

\* A new roll is a roll.
LEMMA NewRollType == NewRoll \in Roll /\ NewRoll.step = "lookup"
<1>1. NewRoll.step = "lookup" /\ NewRoll.lost = FALSE
  BY DEF NewRoll
<1>2. NewRoll.found = {} /\ NewRoll.invalid = {}
  BY Zenon DEF NewRoll
<1>3. {} \in SUBSET Emails
  OBVIOUS
<1> QED
  BY <1>1, <1>2, <1>3, Zenon DEF NewRoll, Roll

(***************************************************************************)
(* The requests for the members of a chat.                                 *)
(***************************************************************************)
\* What a worker learns and whom it adds to its own chat is no matter of another.
LEMMA RollStep ==
  ASSUME TypeOK, MembersInv, NEW w \in Workers, pc[w] = "populate", UNCHANGED vars,
         RollType',
         \A v \in Workers : v # w => roll'[v] = roll[v],
         \A c \in Chats : c # job[w].chat => joined'[c] = joined[c],
         Knows(w)'
  PROVE  MembersInv'
<1>1. HasMade(w) /\ job[w].chat \in Chats /\ chat[job[w].chat] # "none"
  BY DEF MembersInv, Placed, Own
<1>2. Empty'
  BY <1>1 DEF MembersInv, Empty, vars
<1>3. ASSUME NEW v \in Workers
      PROVE  Placed(v)' /\ Own(v)'
  BY DEF MembersInv, Placed, Own, HasMade, vars
<1>4. ASSUME NEW v \in Workers, v # w
      PROVE  Knows(v)'
  <2>1. HasMade(v) => job[v].chat \in Chats /\ job[v].chat # job[w].chat
    BY <1>1, <1>4 DEF MembersInv, Own
  <2>2. Knows(v) /\ roll'[v] = roll[v]
    BY <1>4 DEF MembersInv
  <2>3. HasMade(v)' = HasMade(v) /\ Asked(v)' = Asked(v) /\ job' = job /\ pc' = pc
    BY DEF HasMade, Asked, vars
  <2>4. HasMade(v) => joined'[job[v].chat] = joined[job[v].chat]
    BY <2>1
  <2> QED
    BY <2>2, <2>3, <2>4 DEF Knows
<1> QED
  BY <1>2, <1>3, <1>4 DEF MembersInv

(***************************************************************************)
(* The steps elsewhere.                                                    *)
(***************************************************************************)
\* v ends, or goes on with the chat that it has made or has not.
Proceeds(v) ==
  \/ pc'[v] = "idle"
  \/ /\ Placed(v)'
     /\ HasMade(v)' <=> HasMade(v)
     /\ HasMade(v) =>
          /\ job'[v].chat = job[v].chat /\ job'[v].tok = job[v].tok
          /\ pc[v] = "populate" /\ pc'[v] # "populate" => roll[v].step = "card"

\* A step that leaves the members of the chats alone and ends what the workers know
\* with their jobs.
Aside ==
  /\ RollType'
  /\ UNCHANGED joined
  /\ \A v \in Workers : roll'[v] = IF pc'[v] = "idle" THEN NewRoll ELSE roll[v]
  /\ \A c \in Chats : chat'[c] = "none" => chat[c] = "none"

\* What a worker that proceeds knows stays right.
LEMMA ProceedsKnowing ==
  ASSUME MembersInv, Aside, NEW v \in Workers, Proceeds(v)
  PROVE  Placed(v)' /\ Knows(v)'
<1>1. CASE pc'[v] = "idle"
  BY <1>1 DEF Placed, Knows, HasMade, Aside
<1>2. CASE pc'[v] # "idle"
  <2>1. Knows(v) /\ roll'[v] = roll[v] /\ joined' = joined
    BY <1>2 DEF MembersInv, Aside
  <2>2. Proceeds(v) /\ (HasMade(v) => Asked(v)' = Asked(v))
    BY <1>2 DEF Proceeds, Asked
  <2>3. CASE ~HasMade(v)
    BY <1>2, <2>1, <2>2, <2>3 DEF Proceeds, Knows
  <2>4. CASE HasMade(v)
    <3>1. HasMade(v)' /\ job'[v].chat = job[v].chat /\ Asked(v)' = Asked(v)
      BY <1>2, <2>2, <2>4 DEF Proceeds
    <3>2. pc'[v] \in {"record", "notify"} => roll[v].step = "card"
      BY <1>2, <2>1, <2>2, <2>4 DEF Proceeds, Knows, HasMade
    <3>3. Knows(v)'
      BY <2>1, <2>4, <3>1, <3>2 DEF Knows
    <3> QED
      BY <1>2, <2>2, <3>3 DEF Proceeds
  <2> QED
    BY <2>3, <2>4
<1> QED
  BY <1>1, <1>2 DEF Proceeds

\* No chat is made.
LEMMA AllProceed ==
  ASSUME MembersInv, Aside, \A v \in Workers : Proceeds(v)
  PROVE  MembersInv'
<1>1. Empty'
  BY DEF MembersInv, Empty, Aside
<1>2. ASSUME NEW v \in Workers
      PROVE  HasMade(v)' => HasMade(v) /\ job'[v].chat = job[v].chat
  BY DEF Proceeds, HasMade
<1>3. ASSUME NEW v \in Workers
      PROVE  Own(v)'
  BY <1>2 DEF MembersInv, Own, Aside
<1> QED
  BY <1>1, <1>3, ProceedsKnowing DEF MembersInv, Aside

\* w makes a chat.
LEMMA OneMakes ==
  ASSUME MembersInv, Aside, NEW w \in Workers, NEW c \in Chats,
         ~HasMade(w), HasMade(w)', pc'[w] = "populate", job'[w].chat = c,
         chat[c] = "none", chat'[c] # "none",
         \A v \in Workers : v # w => Proceeds(v)
  PROVE  MembersInv'
<1>1. Empty'
  BY DEF MembersInv, Empty, Aside
<1>2. ASSUME NEW v \in Workers, v # w
      PROVE  HasMade(v)' => HasMade(v) /\ job'[v].chat = job[v].chat /\ job'[v].chat # c
  BY <1>2 DEF Proceeds, HasMade, MembersInv, Own
<1>3. ASSUME NEW v \in Workers
      PROVE  Own(v)'
  BY <1>2 DEF MembersInv, Own, Aside
<1>4. Placed(w)'
  BY DEF Placed
<1>5. Knows(w)'
  <2>1. roll'[w] = NewRoll /\ joined'[c] = {}
    BY DEF MembersInv, Empty, Knows, Aside
  <2> QED
    BY <2>1, NewRollType DEF Knows
<1> QED
  BY <1>1, <1>3, <1>4, <1>5, ProceedsKnowing DEF MembersInv, Aside

\* A worker proceeds that does nothing, as does one that goes on with the same job
\* where that job may stand.
LEMMA Rests ==
  ASSUME MembersInv, NEW v \in Workers, pc'[v] = pc[v] /\ job'[v] = job[v]
  PROVE  Proceeds(v)
BY DEF MembersInv, Proceeds, Placed, HasMade

\* The steps of a worker, but for the making of a chat.
LEMMA OwnStep ==
  ASSUME TypeOK, MembersInv, NEW w \in Workers,
         ~(pc[w] = "populate" /\ pc'[w] = "record"),
         \/ \E t \in Tokens, op \in Actions, who \in Operators : Click(w, t, op, who)
         \/ Decide(w) \/ Auth(w) \/ Populate(w) \/ Record(w)
         \/ Dissolve(w) \/ Clear(w) \/ Notify(w)
  PROVE  /\ Proceeds(w)
         /\ \A v \in Workers : v # w => Proceeds(v)
         /\ \A c \in Chats : chat'[c] = "none" => chat[c] = "none"
<1>1. \A v \in Workers : v # w => pc'[v] = pc[v] /\ job'[v] = job[v]
  BY OneWorker DEF Task
<1>2. \A c \in Chats : chat'[c] = "none" => chat[c] = "none"
  BY DEF TypeOK, Click, Decide, Auth, Populate, Record, Dissolve, Clear, Notify
<1>3. Placed(w) /\ (pc[w] # "idle" => job[w].ok \in BOOLEAN)
  BY Parts DEF MembersInv
<1>4. ASSUME NEW t \in Tokens, NEW op \in Actions, NEW who \in Operators, Click(w, t, op, who)
      PROVE  Proceeds(w)
  <2>1. pc[w] = "idle" /\ pc'[w] = "loaded" /\ job'[w].ok = FALSE
    BY <1>4 DEF Click, Goto, TypeOK
  <2> QED
    BY <2>1 DEF Proceeds, Placed, HasMade
<1>5. ASSUME Decide(w) \/ Notify(w)
      PROVE  Proceeds(w)
  <2>1. \/ pc'[w] = "idle"
        \/ pc[w] = "loaded" /\ pc'[w] = "auth" /\ job' = [job EXCEPT ![w].at = now]
    BY <1>5 DEF Decide, Start, Notify, End, Goto, TypeOK
  <2>2. pc[w] = "loaded" /\ job' = [job EXCEPT ![w].at = now] => job'[w].ok = job[w].ok
    BY DEF TypeOK, Job
  <2> QED
    BY <1>3, <2>1, <2>2 DEF Proceeds, Placed, HasMade
<1>6. ASSUME Auth(w)
      PROVE  Proceeds(w)
  <2>1. pc[w] = "auth" /\ job[w].op \in {"create", "dismiss"}
    BY <1>6 DEF Auth, TypeOK, Job, Actions
  <2>2. \/ pc'[w] = "idle"
        \/ job' = job /\ pc'[w] = IF job[w].op = "create" THEN "create" ELSE "dissolve"
    BY <1>6 DEF Auth, End, Goto, TypeOK
  <2> QED
    BY <1>3, <2>1, <2>2 DEF Proceeds, Placed, HasMade
<1>7. ASSUME Record(w) \/ Clear(w)
      PROVE  Proceeds(w)
  <2>1. /\ pc[w] \in {"record", "clear"} /\ pc'[w] = "notify" /\ job' = job
    BY <1>7 DEF Record, Clear, Goto, TypeOK
  <2> QED
    BY <1>3, <2>1 DEF Proceeds, Placed, HasMade
<1>8. ASSUME Dissolve(w)
      PROVE  Proceeds(w)
  <2>1. /\ pc[w] = "dissolve" /\ pc'[w] = "clear" /\ job'[w].op = job[w].op
    BY <1>8 DEF Dissolve, Goto, TypeOK, Job
  <2> QED
    BY <1>3, <2>1 DEF Proceeds, Placed, HasMade
<1>9. ~Populate(w)
  BY DEF Populate, Goto, TypeOK
<1> QED
  BY <1>1, <1>2, <1>4, <1>5, <1>6, <1>7, <1>8, <1>9, Rests

\* The making of a chat, or a failure to.
LEMMA MakingStep ==
  ASSUME TypeOK, MembersInv, NEW w \in Workers, CreateChat(w), Aside
  PROVE  MembersInv'
<1>1. \A v \in Workers : v # w => Proceeds(v)
  <2>1. \A v \in Workers : v # w => pc'[v] = pc[v] /\ job'[v] = job[v]
    BY DEF TypeOK, CreateChat, Goto
  <2> QED
    BY <2>1, Rests
<1>2. Placed(w) /\ pc[w] = "create" /\ ~job[w].ok /\ job[w].op = "create" /\ ~HasMade(w)
  BY DEF MembersInv, Placed, CreateChat, HasMade
<1>3. CASE Goto(w, "notify") /\ UNCHANGED job
  <2>1. pc'[w] = "notify" /\ job'[w] = job[w]
    BY <1>3 DEF Goto, TypeOK
  <2>2. Proceeds(w)
    BY <1>2, <2>1 DEF Proceeds, Placed, HasMade
  <2> QED
    BY <1>1, <2>2, AllProceed
<1>4. ASSUME NEW c \in Chats, chat[c] = "none", chat' = [chat EXCEPT ![c] = "live"],
             job' = [job EXCEPT ![w].chat = c, ![w].ok = TRUE], Goto(w, "populate")
      PROVE  MembersInv'
  <2>1. job[w] \in Job
    BY <1>2 DEF TypeOK
  <2>2. job'[w].chat = c /\ job'[w].ok = TRUE /\ job'[w].op = job[w].op
    BY <1>4, <2>1 DEF TypeOK, Job
  <2>3. pc'[w] = "populate" /\ chat'[c] # "none"
    BY <1>4 DEF Goto, TypeOK
  <2>4. HasMade(w)'
    BY <1>2, <2>2, <2>3 DEF HasMade
  <2> QED
    BY <1>1, <1>2, <1>4, <2>2, <2>3, <2>4, OneMakes
<1> QED
  BY <1>3, <1>4 DEF CreateChat

\* Every other step of GroupChat.
LEMMA ElsewhereStep ==
  ASSUME TypeOK, MembersInv, Elsewhere
  PROVE  MembersInv'
<1>1. RollType'
  BY NewRollType DEF MembersInv, RollType, Elsewhere
<1>2. ASSUME \A c \in Chats : chat'[c] = "none" => chat[c] = "none"
      PROVE  Aside
  BY <1>1, <1>2 DEF Aside, Elsewhere
<1>3. ASSUME NEW w \in Workers,
             \/ \E t \in Tokens, op \in Actions, who \in Operators : Click(w, t, op, who)
             \/ Decide(w) \/ Auth(w) \/ Populate(w) \/ Record(w)
             \/ Dissolve(w) \/ Clear(w) \/ Notify(w)
      PROVE  MembersInv'
  <2>1. ~(pc[w] = "populate" /\ pc'[w] = "record")
    BY DEF Elsewhere
  <2> QED
    BY <1>2, <1>3, <2>1, OwnStep, AllProceed
<1>4. ASSUME NEW w \in Workers, CreateChat(w)
      PROVE  MembersInv'
  <2>1. \A c \in Chats : chat'[c] = "none" => chat[c] = "none"
    BY <1>4 DEF CreateChat, TypeOK
  <2> QED
    BY <1>2, <1>4, <2>1, MakingStep
<1>5. ASSUME NEW r \in Replicas, Crash(r)
      PROVE  MembersInv'
  <2>1. \A v \in Workers : pc'[v] = "idle" \/ (pc'[v] = pc[v] /\ job'[v] = job[v])
    BY <1>5 DEF Crash
  <2>2. \A v \in Workers : Proceeds(v)
    BY <2>1, Rests DEF Proceeds
  <2> QED
    BY <1>2, <1>5, <2>2, AllProceed DEF Crash
<1>6. ASSUME \/ \E w \in Workers, t \in Tokens : ClickExpired(w, t)
             \/ \E t \in Tokens : Register(t) \/ Expire(t)
             \/ \E c \in Chats : DissolvedByHand(c)
             \/ Tick
      PROVE  MembersInv'
  <2>1. pc' = pc /\ job' = job
    BY <1>6 DEF ClickExpired, Register, Expire, DissolvedByHand, Tick, vars
  <2>2. \A c \in Chats : chat'[c] = "none" => chat[c] = "none"
    BY <1>6 DEF ClickExpired, Register, Expire, DissolvedByHand, Tick, vars, TypeOK
  <2>3. \A v \in Workers : Proceeds(v)
    BY <2>1, Rests
  <2> QED
    BY <1>2, <2>2, <2>3, AllProceed
<1> QED
  BY <1>3, <1>4, <1>5, <1>6 DEF Elsewhere, Next, Task

(***************************************************************************)
(* The invariant, and what it is for.                                      *)
(***************************************************************************)
\* Every request for the members keeps the invariant.
LEMMA RequestStep ==
  ASSUME TypeOK, MembersInv, NEW w \in Workers,
         Lookup(w) \/ AddMembers(w) \/ AddMembersFails(w) \/ AdminLookup(w) \/ AdminJoin(w)
  PROVE  MembersInv'
<1> DEFINE c == job[w].chat
           in == joined[job[w].chat]
<1>1. pc[w] = "populate" /\ UNCHANGED vars
  BY DEF Lookup, AddMembers, AddMembersFails, AdminLookup, AdminJoin, At
<1>2. HasMade(w) /\ c \in Chats /\ Knows(w) /\ Placed(w)
  BY <1>1 DEF MembersInv, Placed, Own
<1>3. /\ roll \in [Workers -> Roll] /\ joined \in [Chats -> SUBSET Emails]
      /\ Asked(w) \in SUBSET Emails /\ roll[w] \in Roll
      /\ roll[w].found \in SUBSET Emails /\ roll[w].invalid \in SUBSET Emails
      /\ roll[w].lost \in BOOLEAN /\ Admin \in SUBSET Emails
  BY <1>1, Parts DEF MembersInv, RollType
<1>4. HasMade(w)' /\ Asked(w)' = Asked(w) /\ job' = job /\ pc' = pc
  BY <1>1, <1>2 DEF HasMade, Asked, vars
<1>5. ASSUME NEW r \in Roll, NEW who \in SUBSET Emails,
             roll' = [roll EXCEPT ![w] = r], Join(w, who), Knows(w)'
      PROVE  MembersInv'
  <2>1. RollType'
    BY <1>2, <1>3, <1>5 DEF RollType, Join
  <2>2. \A v \in Workers : v # w => roll'[v] = roll[v]
    BY <1>3, <1>5
  <2>3. \A d \in Chats : d # c => joined'[d] = joined[d]
    BY <1>3, <1>5 DEF Join
  <2> QED
    BY <1>1, <2>1, <2>2, <2>3, <1>5, RollStep
<1>6. joined' = joined => Join(w, {})
  BY <1>2, <1>3 DEF Join
<1>7. ASSUME NEW r \in Roll, NEW who \in SUBSET Emails,
             roll' = [roll EXCEPT ![w] = r], Join(w, who)
      PROVE  roll'[w] = r /\ joined'[c] = in \cup who
  BY <1>2, <1>3, <1>7 DEF Join
<1>8. CASE Lookup(w)
  <2>1. PICK found \in SUBSET Asked(w) :
          IF found = {} THEN Set(w, "admin", {}, Asked(w), FALSE)
                        ELSE Set(w, "add", found, Asked(w) \ found, FALSE)
    BY <1>8 DEF Lookup
  <2> DEFINE s == IF found = {} THEN "admin" ELSE "add"
             r == [step |-> s, found |-> found, invalid |-> Asked(w) \ found, lost |-> FALSE]
  <2>2. roll' = [roll EXCEPT ![w] = r]
    <3>1. found = {} => Asked(w) \ found = Asked(w)
      OBVIOUS
    <3> QED
      BY <2>1, <3>1 DEF Set
  <2>3. /\ r \in Roll /\ r.found = found /\ r.invalid = Asked(w) \ found
        /\ r.step = "add" \/ (r.step = "admin" /\ found = {})
    BY <1>3 DEF Roll
  <2> HIDE DEF r
  <2>4. roll'[w] = r /\ in = {} /\ joined'[c] = {}
    <3>1. roll'[w] = r
      BY <1>3, <2>2
    <3>2. in = {}
      BY <1>2, <1>8 DEF Knows, Lookup, At
    <3> QED
      BY <1>8, <3>1, <3>2 DEF Lookup
  <2>5. Knows(w)'
    BY <1>1, <1>3, <1>4, <2>3, <2>4 DEF Knows
  <2>6. Join(w, {})
    BY <1>6, <1>8 DEF Lookup
  <2> QED
    BY <1>5, <2>2, <2>3, <2>5, <2>6
<1>9. CASE AddMembers(w)
  <2> DEFINE r == [step |-> "admin", found |-> roll[w].found, invalid |-> roll[w].invalid,
                   lost |-> FALSE]
  <2>1. roll' = [roll EXCEPT ![w] = r] /\ Join(w, roll[w].found)
    BY <1>9 DEF AddMembers, Set
  <2>2. r \in Roll /\ r.invalid = roll[w].invalid /\ r.step = "admin"
    BY <1>3 DEF Roll
  <2> HIDE DEF r
  <2>3. in = {} /\ roll[w].invalid = Asked(w) \ roll[w].found
    BY <1>2, <1>9 DEF Knows, AddMembers, At
  <2>4. roll'[w] = r /\ joined'[c] = roll[w].found
    BY <1>3, <1>7, <2>1, <2>2, <2>3
  <2>5. Knows(w)'
    BY <1>1, <1>3, <1>4, <2>2, <2>3, <2>4 DEF Knows
  <2> QED
    BY <1>3, <1>5, <2>1, <2>2, <2>5
<1>10. CASE AddMembersFails(w)
  <2>1. PICK lost \in BOOLEAN :
          /\ Set(w, "admin", roll[w].found, Asked(w), lost)
          /\ Join(w, IF lost THEN roll[w].found ELSE {})
    BY <1>10 DEF AddMembersFails
  <2> DEFINE r == [step |-> "admin", found |-> roll[w].found, invalid |-> Asked(w), lost |-> lost]
             who == IF lost THEN roll[w].found ELSE {}
  <2>2. roll' = [roll EXCEPT ![w] = r] /\ Join(w, who) /\ who \in SUBSET Emails
    BY <1>3, <2>1 DEF Set
  <2>3. r \in Roll /\ r.invalid = Asked(w) /\ r.step = "admin" /\ r.lost = lost
    BY <1>3 DEF Roll
  <2>4. ~lost => who = {}
    OBVIOUS
  <2> HIDE DEF r, who
  <2>5. in = {}
    BY <1>2, <1>10 DEF Knows, AddMembersFails, At
  <2>6. roll'[w] = r /\ joined'[c] = who
    <3>1. roll'[w] = r /\ joined'[c] = in \cup who
      BY <1>7, <2>2, <2>3
    <3> QED
      BY <2>5, <3>1
  <2>7. Knows(w)'
    BY <1>1, <1>3, <1>4, <2>3, <2>4, <2>6 DEF Knows
  <2> QED
    BY <1>5, <2>2, <2>3, <2>7
<1>11. ASSUME NEW s \in {"join", "card"}, GoOn(w, s), NEW who \in SUBSET Admin, Join(w, who),
              roll[w].step \in {"admin", "join"}
       PROVE  MembersInv'
  <2> DEFINE r == [roll[w] EXCEPT !.step = s]
  <2>1. roll' = [roll EXCEPT ![w] = r]
    BY <1>11 DEF GoOn
  <2>2. /\ r \in Roll /\ r.step = s
        /\ r.found = roll[w].found /\ r.invalid = roll[w].invalid /\ r.lost = roll[w].lost
    BY <1>3 DEF Roll
  <2> HIDE DEF r
  <2>3. roll'[w] = r /\ joined'[c] = in \cup who /\ who \in SUBSET Emails
    BY <1>3, <1>7, <1>11, <2>1, <2>2
  <2>4. Knows(w)'
    BY <1>1, <1>2, <1>3, <1>4, <1>11, <2>2, <2>3 DEF Knows
  <2> QED
    BY <1>5, <1>11, <2>1, <2>2, <2>3, <2>4
<1>12. CASE AdminLookup(w)
  BY <1>6, <1>11, <1>12 DEF AdminLookup, At
<1>13. CASE AdminJoin(w)
  BY <1>6, <1>11, <1>13 DEF AdminJoin, At
<1> QED
  BY <1>8, <1>9, <1>10, <1>12, <1>13

\* The invariant holds at every step.
LEMMA MembersStep ==
  ASSUME TypeOK, MembersInv, [MembersNext]_membersVars
  PROVE  MembersInv'
<1>1. ASSUME NEW w \in Workers, CardToChat(w)
      PROVE  MembersInv'
  <2>1. /\ pc[w] = "populate" /\ roll[w].step = "card" /\ pc' = [pc EXCEPT ![w] = "record"]
        /\ UNCHANGED <<job, chat, roll, joined>>
    BY <1>1 DEF CardToChat, Populate, At, Goto
  <2>2. Placed(w)
    BY DEF MembersInv
  <2>3. Proceeds(w)
    BY <2>1, <2>2 DEF Proceeds, Placed, HasMade, TypeOK
  <2>4. \A v \in Workers : v # w => Proceeds(v)
    BY <2>1, Rests DEF TypeOK
  <2>5. \A v \in Workers : pc'[v] = "idle" => pc[v] = "idle"
    BY <2>1 DEF TypeOK
  <2>6. \A v \in Workers : roll'[v] = IF pc'[v] = "idle" THEN NewRoll ELSE roll[v]
    BY <2>1, <2>5 DEF MembersInv, Knows, HasMade
  <2>7. Aside
    BY <2>1, <2>6 DEF MembersInv, RollType, Aside
  <2> QED
    BY <2>3, <2>4, <2>7, AllProceed
<1>2. CASE UNCHANGED membersVars
  BY <1>2 DEF membersVars, vars, MembersInv, RollType, Empty, Placed, Own, Knows, HasMade, Asked
<1> QED
  BY <1>1, <1>2, RequestStep, ElsewhereStep DEF MembersNext

\* The invariant holds of the specification.
LEMMA MembersInvariant == MembersSpec => [](TypeOK /\ MembersInv)
<1>1. MembersInit => MembersInv
  <2> SUFFICES ASSUME MembersInit PROVE MembersInv
    OBVIOUS
  <2>1. RollType
    BY NewRollType DEF MembersInit, RollType
  <2>2. \A w \in Workers : pc[w] = "idle" /\ roll[w] = NewRoll
    BY DEF MembersInit, Init
  <2> QED
    BY <2>1, <2>2 DEF MembersInit, MembersInv, Empty, Placed, Own, Knows, HasMade
<1>2. MembersSpec => []TypeOK
  BY MembersUseGroupChat, TypeCorrect, PTL
<1> QED
  BY <1>1, <1>2, MembersStep, PTL DEF MembersSpec

\* The card about a new chat lists its members, whatever is refused or lost.
THEOREM CardsMatchMembers == MembersSpec => []CardMatchesMembers
<1>1. TypeOK /\ MembersInv => CardMatchesMembers
  <2> SUFFICES ASSUME TypeOK, MembersInv, NEW w \in Workers, HasMade(w), pc[w] = "notify"
               PROVE  LET in == joined[job[w].chat] IN
                      /\ Listed(w) \subseteq in \cup Admin
                      /\ ~roll[w].lost => in \cap Asked(w) \subseteq Listed(w)
    BY DEF CardMatchesMembers
  <2> DEFINE in == joined[job[w].chat]
  <2>1. /\ Asked(w) \ roll[w].invalid \subseteq in
        /\ ~roll[w].lost => in \cap Asked(w) \subseteq (Asked(w) \ roll[w].invalid) \cup Admin
    BY DEF MembersInv, Knows
  <2> HIDE DEF in
  <2>2. Listed(w) \subseteq in \cup Admin
    BY <2>1 DEF Listed
  <2>3. ~roll[w].lost => in \cap Asked(w) \subseteq Listed(w)
    BY <2>1 DEF Listed
  <2> QED
    BY <2>2, <2>3 DEF in
<1> QED
  BY <1>1, MembersInvariant, PTL

\* Nor does the filling of a chat put one back that was taken off its card: what is
\* proved of GroupChat holds here.
THEOREM MembersReleaseForGood == MembersSpec => []ReleasedNotRecorded
BY MembersUseGroupChat, ReleasedStaysReleased, PTL

\* Nor does an alert come by a second live chat, or lose the one it has, because its
\* filling takes several requests, any of which may fail: only if a task was started
\* on an overtaken click.
THEOREM MembersSecondChatsHaveCause ==
  MembersSpec => [](SecondChatHasCause /\ UnrecordedHasCause)
BY MembersUseGroupChat, SecondChatsHaveCause, UnrecordedHaveCause, PTL

\* The variables are well typed.
THEOREM MembersTypeCorrect == MembersSpec => []MembersTypeOK
<1>1. TypeOK /\ MembersInv => MembersTypeOK
  BY DEF MembersInv, RollType, MembersTypeOK
<1> QED
  BY <1>1, MembersInvariant, PTL
===============================================================================
