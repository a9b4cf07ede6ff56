----------------------------- MODULE GroupMembers -----------------------------
(***************************************************************************)
(* What happens in the step Populate of GroupChat, request by request: the *)
(* part of asyncCreateChat in internal/gateway/handlers.go that gets the   *)
(* invited people and the default administrator into the new chat, with    *)
(* AddMembersByEmail and AddChatManagers of feishu_client.go, and the list *)
(* of members on the card that the operator gets at the end.               *)
(*                                                                         *)
(* A reply of code 0 is taken to mean that Feishu has done all it was      *)
(* asked.  Every other step is one of GroupChat.                           *)
(***************************************************************************)
EXTENDS GroupChat

CONSTANTS
  Emails,   \* addresses
  Invited,  \* Invited[t]: the addresses in the data behind t
  Admin     \* DEFAULT_ADMIN_EMAIL: the set of that address, or {}

ASSUME GroupMembersAssumption ==
  /\ Invited \in [Tokens -> SUBSET Emails]
  /\ Admin \subseteq Emails /\ \A a, b \in Admin : a = b

VARIABLES
  roll,   \* roll[w]: what w knows of the members of the chat it has made
  joined  \* joined[c]: addresses whose owners a request of the gateway has put into c

membersVars == <<vars, roll, joined>>

\* lost: history, the reply to a request that added members was lost.
NewRoll == [step |-> "lookup", found |-> {}, invalid |-> {}, lost |-> FALSE]
Roll ==
  [step: {"lookup", "add", "admin", "join", "card"},
   found: SUBSET Emails, invalid: SUBSET Emails, lost: BOOLEAN]

MembersTypeOK ==
  /\ TypeOK
  /\ roll \in [Workers -> Roll]
  /\ joined \in [Chats -> SUBSET Emails]

MembersInit ==
  /\ Init
  /\ roll = [w \in Workers |-> NewRoll]
  /\ joined = [c \in Chats |-> {}]

At(w, s) == pc[w] = "populate" /\ roll[w].step = s
Asked(w) == Invited[job[w].tok]

Set(w, s, found, invalid, lost) ==
  roll' = [roll EXCEPT ![w] = [step |-> s, found |-> found, invalid |-> invalid, lost |-> lost]]

Join(w, who) == joined' = [joined EXCEPT ![job[w].chat] = @ \cup who]

(***************************************************************************)
(* AddMembersByEmail.                                                      *)
(***************************************************************************)
\* BatchGetOpenIDByEmail finds some of the addresses, or fails; if there is nobody
\* to add, all of them are invalid and no member is added.
Lookup(w) ==
  /\ At(w, "lookup")
  /\ \E found \in SUBSET Asked(w) :
       IF found = {} THEN Set(w, "admin", {}, Asked(w), FALSE)
                     ELSE Set(w, "add", found, Asked(w) \ found, FALSE)
  /\ UNCHANGED <<vars, joined>>

AddMembers(w) ==
  /\ At(w, "add")
  /\ Set(w, "admin", roll[w].found, roll[w].invalid, FALSE)
  /\ Join(w, roll[w].found)
  /\ UNCHANGED vars

\* Fault: only the addresses that were not found are invalid.
AddMembersFailsUnnoticed(w) ==
  /\ At(w, "add")
  /\ Set(w, "admin", roll[w].found, roll[w].invalid, FALSE)
  /\ UNCHANGED <<vars, joined>>

\* All are invalid then, also if it was only the reply that got lost.
AddMembersFails(w) ==
  /\ At(w, "add")
  /\ \E lost \in BOOLEAN :
       /\ Set(w, "admin", roll[w].found, Asked(w), lost)
       /\ Join(w, IF lost THEN roll[w].found ELSE {})
  /\ UNCHANGED vars

(***************************************************************************)
(* AddChatManagers: none of its results is looked at.                      *)
(***************************************************************************)
GoOn(w, s) == roll' = [roll EXCEPT ![w].step = s]

AdminLookup(w) ==
  /\ At(w, "admin")
  /\ GoOn(w, "card") \/ (Admin # {} /\ GoOn(w, "join"))
  /\ UNCHANGED <<vars, joined>>

\* AddMembersByOpenID for the administrator; to be promoted then makes nobody a
\* member.
AdminJoin(w) ==
  /\ At(w, "join")
  /\ GoOn(w, "card")
  /\ Join(w, Admin) \/ UNCHANGED joined
  /\ UNCHANGED vars

\* SendCardToChat ends the step of GroupChat.
CardToChat(w) ==
  /\ At(w, "card")
  /\ Populate(w)
  /\ UNCHANGED <<roll, joined>>

\* Any other step of GroupChat; what a worker knows ends with its job.
Elsewhere ==
  /\ Next
  /\ \A w \in Workers : ~(pc[w] = "populate" /\ pc'[w] = "record")
  /\ roll' = [w \in Workers |-> IF pc'[w] = "idle" THEN NewRoll ELSE roll[w]]
  /\ UNCHANGED joined

MembersNext ==
  \/ \E w \in Workers :
       \/ Lookup(w) \/ AddMembers(w) \/ AddMembersFails(w)
       \/ AdminLookup(w) \/ AdminJoin(w) \/ CardToChat(w)
  \/ Elsewhere

MembersSpec == MembersInit /\ [][MembersNext]_membersVars

(***************************************************************************)
(* Properties.                                                             *)
(***************************************************************************)
\* w has made a chat of which the operator is still to be told.
HasMade(w) == pc[w] \in {"populate", "record", "notify"} /\ job[w].op = "create" /\ job[w].ok

\* The addresses on the card: the administrator is struck from the invalid ones.
Listed(w) == Asked(w) \ (roll[w].invalid \ Admin)

\* The card that reports a new chat lists as members only people who have been
\* made members, but for the administrator, who is taken for one unseen; and
\* nobody who was invited and is a member is missing, unless a reply was lost.
CardMatchesMembers ==
  \A w \in Workers :
    HasMade(w) /\ pc[w] = "notify" =>
      LET in == joined[job[w].chat] IN
      /\ Listed(w) \subseteq in \cup Admin
      /\ ~roll[w].lost => in \cap Asked(w) \subseteq Listed(w)
===============================================================================
