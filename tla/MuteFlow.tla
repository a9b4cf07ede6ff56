------------------------------- MODULE MuteFlow -------------------------------
(***************************************************************************)
(* The mute and unmute buttons of an alert card: handleMuteCallback,       *)
(* asyncMute and findAndDeleteMuteRules of internal/gateway/handlers.go,   *)
(* over the client of internal/gateway/n9e_client.go, which retries        *)
(* requests that are not idempotent, and the mute rules of N9E.            *)
(*                                                                         *)
(* A worker is the goroutine that serves one click and its task.  Workers  *)
(* of all replicas are alike: they share nothing but N9E.                  *)
(***************************************************************************)
EXTENDS Naturals

CONSTANTS
  Workers,      \* clicks that can be in progress at once
  Alerts,       \* alerts with a card
  NoAlert,      \* of a rule id that N9E has not given out
  Instances,    \* values of the instance tag
  NoInstance,   \* no such tag, "" or "N/A"
  Group,        \* Group[a]: business group of a
  Named,        \* Named[a]: alerts whose note contains the rule name of a
  Tagged,       \* Tagged[a]: the first instance tag of a, which its mutes carry
  Instance,     \* Instance[a]: the instance of a
  Members,      \* Members[a]: the instances of a if it is aggregated, else {}
  RuleIds,      \* ids that N9E can give out, for TLC only finite
  MaxAttempts   \* RETRY_MAX_ATTEMPTS

ASSUME MuteFlowAssumption ==
  /\ NoAlert \notin Alerts /\ NoInstance \notin Instances
  /\ Named \in [Alerts -> SUBSET Alerts]
  /\ \A a \in Alerts : a \in Named[a]
  /\ Tagged \in [Alerts -> Instances \cup {NoInstance}]
  /\ Instance \in [Alerts -> Instances \cup {NoInstance}]
  /\ Members \in [Alerts -> SUBSET (Instances \cup {NoInstance})]
  /\ MaxAttempts \in Nat

VARIABLES
  rule,     \* rule[c]: where the mute rule c stands in N9E
  of,       \* of[c]: the alert that c was made for
  pc,       \* pc[w]: where worker w stands
  job,      \* job[w]: what worker w works on
  cleared   \* history: alerts that an unmute has cleared and no click has muted since

vars == <<rule, of, pc, job, cleared>>

\* "late" is a creation, and "doomed" a removal, that N9E has yet to carry out
\* although the gateway has given up waiting for the reply.
States  == {"none", "late", "present", "doomed", "removed"}
Pending == {"late", "present", "doomed"}
Listed  == {"present", "doomed"}

Results == {"", "success", "info", "warning", "error"}
Job ==
  [op: {"mute", "unmute"}, alert: Alerts, attempt: 0..MaxAttempts, res: Results,
   made: SUBSET RuleIds, todo: SUBSET RuleIds, deleted: SUBSET RuleIds,
   failed: SUBSET RuleIds, alone: BOOLEAN]
NoJob == [op |-> "none"]

TypeOK ==
  /\ rule \in [RuleIds -> States]
  /\ of \in [RuleIds -> Alerts \cup {NoAlert}]
  /\ pc \in [Workers -> {"idle", "create", "list", "delete", "notify"}]
  /\ job \in [Workers -> Job \cup {NoJob}]
  /\ \A w \in Workers : pc[w] # "idle" => job[w] \in Job
  /\ cleared \subseteq Alerts

Init ==
  /\ rule = [c \in RuleIds |-> "none"]
  /\ of = [c \in RuleIds |-> NoAlert]
  /\ pc = [w \in Workers |-> "idle"]
  /\ job = [w \in Workers |-> NoJob]
  /\ cleared = {}

Goto(w, l) == pc' = [pc EXCEPT ![w] = l]

(***************************************************************************)
(* Which rules an unmute of a takes off: those of its group whose note     *)
(* contains its rule name and whose instance tag is among its targets.     *)
(***************************************************************************)
Targets(a) == Members[a] \cup ({Instance[a]} \ {NoInstance})

Covered(a) == {b \in Named[a] : Group[b] = Group[a] /\ Tagged[b] \in Targets(a)}

\* Fault: the search ends with the first match.
MatchingFirst(a) ==
  LET found == {c \in RuleIds : rule[c] \in Listed /\ of[c] \in Covered(a)} IN
  IF found = {} THEN {} ELSE {CHOOSE c \in found : TRUE}

Matching(a) == {c \in RuleIds : rule[c] \in Listed /\ of[c] \in Covered(a)}

\* History: nothing is going to add a rule that an unmute of a should remove.
MutedNowhere(a) ==
  /\ \A w \in Workers : pc[w] = "create" => job[w].alert \notin Covered(a)
  /\ \A c \in RuleIds : rule[c] = "late" => of[c] \notin Covered(a)

(***************************************************************************)
(* The handler.  A click without an option, of a token that is neither     *)
(* stored nor decodes, or with incomplete data only yields a toast.        *)
(***************************************************************************)
ClickRefused(w) ==
  /\ pc[w] = "idle"
  /\ UNCHANGED vars

NewJob(op, a) ==
  [op |-> op, alert |-> a, attempt |-> 0, res |-> "", made |-> {}, todo |-> {},
   deleted |-> {}, failed |-> {}, alone |-> FALSE]

ClickMute(w, a) ==
  /\ pc[w] = "idle"
  /\ Goto(w, "create")
  /\ job' = [v \in Workers |->
       IF v = w THEN NewJob("mute", a)
       ELSE IF pc[v] # "idle" /\ a \in Covered(job[v].alert) THEN [job[v] EXCEPT !.alone = FALSE]
       ELSE job[v]]
  /\ cleared' = {b \in cleared : a \notin Covered(b)}
  /\ UNCHANGED <<rule, of>>

ClickUnmute(w, a) ==
  /\ pc[w] = "idle"
  /\ Goto(w, "list")
  /\ job' = [job EXCEPT ![w] = NewJob("unmute", a)]
  /\ UNCHANGED <<rule, of, cleared>>

(***************************************************************************)
(* doWithRetry.  N9E confirms a request; or refuses it (an `err` in the    *)
(* reply, or a status below 500), which ends the attempts; or there is no  *)
(* telling (no reply, or a status of 500 and above) and it is sent again.  *)
(***************************************************************************)
Finish(w, r) ==
  /\ Goto(w, "notify")
  /\ job' = [job EXCEPT ![w].res = r]

\* An unused id becomes a rule for the alert of w.
Make(w, c, s) ==
  /\ rule[c] = "none"
  /\ rule' = [rule EXCEPT ![c] = s]
  /\ of' = [of EXCEPT ![c] = job[w].alert]

CreateConfirmed(w) ==
  /\ pc[w] = "create" /\ job[w].attempt < MaxAttempts
  /\ \E c \in RuleIds :
       /\ Make(w, c, "present")
       /\ job' = [job EXCEPT ![w].res = "success", ![w].made = @ \cup {c}]
  /\ Goto(w, "notify")
  /\ UNCHANGED cleared

\* Fault: a reply of status 200 counts, whatever its `err` says.
CreateRefusedUnseen(w) ==
  /\ pc[w] = "create" /\ job[w].attempt < MaxAttempts
  /\ Finish(w, "success")
  /\ UNCHANGED <<rule, of, cleared>>

CreateRefused(w) ==
  /\ pc[w] = "create" /\ job[w].attempt < MaxAttempts
  /\ Finish(w, "error")
  /\ UNCHANGED <<rule, of, cleared>>

\* Fault: one attempt too many.
CreateUnsureOnceMore(w) ==
  /\ pc[w] = "create" /\ job[w].attempt <= MaxAttempts
  /\ job' = [job EXCEPT ![w].attempt = @ + 1]
  /\ UNCHANGED <<rule, of, pc, cleared>>

\* The rule may be there, or be made at any time from now on.
CreateUnsure(w) ==
  /\ pc[w] = "create" /\ job[w].attempt < MaxAttempts
  /\ \/ \E c \in RuleIds, s \in {"present", "late"} :
          /\ Make(w, c, s)
          /\ job' = [job EXCEPT ![w].attempt = @ + 1, ![w].made = @ \cup {c}]
     \/ /\ job' = [job EXCEPT ![w].attempt = @ + 1]
        /\ UNCHANGED <<rule, of>>
  /\ UNCHANGED <<pc, cleared>>

\* Fault: when the attempts are used up they start anew.
CreateGivenUpNever(w) ==
  /\ pc[w] = "create" /\ job[w].attempt = MaxAttempts
  /\ job' = [job EXCEPT ![w].attempt = 0]
  /\ UNCHANGED <<rule, of, pc, cleared>>

CreateGivenUp(w) ==
  /\ pc[w] = "create" /\ job[w].attempt = MaxAttempts
  /\ Finish(w, "error")
  /\ UNCHANGED <<rule, of, cleared>>

(***************************************************************************)
(* findAndDeleteMuteRules.                                                 *)
(***************************************************************************)
\* Without a target there is nothing to look for; a listing that fails is not
\* tried again, and answered like one that finds nothing.
ListNothing(w) ==
  /\ pc[w] = "list"
  /\ Finish(w, "info")
  /\ UNCHANGED <<rule, of, cleared>>

List(w) ==
  LET a == job[w].alert IN
  /\ pc[w] = "list"
  /\ Matching(a) # {}
  /\ job' = [job EXCEPT ![w].todo = Matching(a), ![w].alone = MutedNowhere(a)]
  /\ Goto(w, "delete")
  /\ UNCHANGED <<rule, of, cleared>>

\* The rules are deleted one by one; an attempt that fails for good does not
\* keep the others from being tried.
Current(w) == CHOOSE c \in job[w].todo : TRUE

DeleteConfirmed(w) ==
  LET c == Current(w) IN
  /\ pc[w] = "delete" /\ job[w].todo # {} /\ job[w].attempt < MaxAttempts
  /\ rule' = [rule EXCEPT ![c] = "removed"]
  /\ job' = [job EXCEPT ![w].todo = @ \ {c}, ![w].attempt = 0, ![w].deleted = @ \cup {c}]
  /\ UNCHANGED <<of, pc, cleared>>

\* Fault: the last attempt counts as successful.
DeleteGivenUpGladly(w) ==
  LET c == Current(w) IN
  /\ pc[w] = "delete" /\ job[w].todo # {}
  /\ job' = [job EXCEPT ![w].todo = @ \ {c}, ![w].attempt = 0, ![w].deleted = @ \cup {c}]
  /\ UNCHANGED <<rule, of, pc, cleared>>

\* N9E refuses, or the attempts are used up.
DeleteFailed(w) ==
  LET c == Current(w) IN
  /\ pc[w] = "delete" /\ job[w].todo # {}
  /\ job' = [job EXCEPT ![w].todo = @ \ {c}, ![w].attempt = 0, ![w].failed = @ \cup {c}]
  /\ UNCHANGED <<rule, of, pc, cleared>>

DeleteUnsure(w) ==
  LET c == Current(w) IN
  /\ pc[w] = "delete" /\ job[w].todo # {} /\ job[w].attempt < MaxAttempts
  /\ \/ UNCHANGED rule
     \/ rule' = [rule EXCEPT ![c] = "removed"]
     \/ rule[c] = "present" /\ rule' = [rule EXCEPT ![c] = "doomed"]
  /\ job' = [job EXCEPT ![w].attempt = @ + 1]
  /\ UNCHANGED <<of, pc, cleared>>

DeleteDone(w) ==
  LET j == job[w] IN
  /\ pc[w] = "delete" /\ j.todo = {}
  /\ Finish(w, IF j.failed = {} THEN "success" ELSE "warning")
  /\ cleared' = IF j.failed = {} /\ j.alone THEN cleared \cup {j.alert} ELSE cleared
  /\ UNCHANGED <<rule, of>>

\* The card with the result, if there are credentials and Feishu takes it.
Notify(w) ==
  /\ pc[w] = "notify"
  /\ Goto(w, "idle")
  /\ job' = [job EXCEPT ![w] = NoJob]
  /\ UNCHANGED <<rule, of, cleared>>

(***************************************************************************)
(* The environment.                                                        *)
(***************************************************************************)
\* A request that got no reply takes effect in N9E after all.
TakesEffect(c) ==
  /\ \/ rule[c] = "late" /\ rule' = [rule EXCEPT ![c] = "present"]
     \/ rule[c] = "doomed" /\ rule' = [rule EXCEPT ![c] = "removed"]
  /\ UNCHANGED <<of, pc, job, cleared>>

\* Somebody deletes the rule in N9E itself.
RemovedByHand(c) ==
  /\ rule[c] \in Listed
  /\ rule' = [rule EXCEPT ![c] = "removed"]
  /\ UNCHANGED <<of, pc, job, cleared>>

\* The process of w dies; the task is not resumed.
Die(w) ==
  /\ pc[w] # "idle"
  /\ Goto(w, "idle")
  /\ job' = [job EXCEPT ![w] = NoJob]
  /\ UNCHANGED <<rule, of, cleared>>

Task(w) ==
  \/ CreateConfirmed(w) \/ CreateRefused(w) \/ CreateUnsure(w) \/ CreateGivenUp(w)
  \/ ListNothing(w) \/ List(w)
  \/ DeleteConfirmed(w) \/ DeleteFailed(w) \/ DeleteUnsure(w) \/ DeleteDone(w)
  \/ Notify(w)

Next ==
  \/ \E w \in Workers :
       \/ \E a \in Alerts : ClickMute(w, a) \/ ClickUnmute(w, a)
       \/ ClickRefused(w) \/ Task(w) \/ Die(w)
  \/ \E c \in RuleIds : TakesEffect(c) \/ RemovedByHand(c)

Spec == Init /\ [][Next]_vars

\* A goroutine is scheduled again, and the client gives every request a timeout.
FairSpec == Spec /\ \A w \in Workers : WF_vars(Task(w))

(***************************************************************************)
(* Properties.                                                             *)
(***************************************************************************)
\* The card says that the alert is muted only if a request of this very click
\* has made a rule in N9E, whatever became of the requests before it.
MutedMeansRuleMade ==
  \A w \in Workers :
    pc[w] = "notify" /\ job[w].op = "mute" /\ job[w].res = "success" =>
      \E c \in job[w].made : rule[c] \notin {"none", "late"} /\ of[c] = job[w].alert

\* The card of an unmute counts as deleted only rules that are gone for good:
\* no reply that was lost, no retry and no late request makes it overstate.
DeletedMeansGone ==
  \A w \in Workers :
    pc[w] # "idle" => \A c \in job[w].deleted : rule[c] = "removed"

\* One unmute that reports success undoes every mute of the alert, the duplicates
\* that retries have made included, and none comes back, provided that no mute
\* of it was under way, and none is clicked afterwards.
UnmuteIsFinal ==
  \A a \in cleared, c \in RuleIds : of[c] \in Covered(a) => rule[c] \notin Pending

\* Every click comes to its end though N9E may fail for as long as it likes: the
\* attempts are limited and so are the rules found by one listing.
ClickEnds == \A w \in Workers : (pc[w] # "idle") ~> (pc[w] = "idle")
===============================================================================
