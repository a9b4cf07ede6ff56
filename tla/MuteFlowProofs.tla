---------------------------- MODULE MuteFlowProofs ----------------------------
(***************************************************************************)
(* For every number of workers, alerts, rules and attempts, every way in   *)
(* which alerts overlap, and whatever N9E fails to do, does late or does   *)
(* without telling: the cards tell the truth about mutes and deletions.    *)
(***************************************************************************)
EXTENDS MuteFlow, TLAPS

(***************************************************************************)
(* The inductive invariant.                                                *)
(***************************************************************************)
Placed(w) ==
  /\ pc[w] = "create" => job[w].op = "mute"
  /\ pc[w] \in {"list", "delete"} => job[w].op = "unmute"

\* Nobody mutes an alert that counts as cleared.
Quiet ==
  \A a \in cleared, w \in Workers : pc[w] = "create" => job[w].alert \notin Covered(a)

\* A deletion that is alone has every mute of its alert before it, or has failed on it.
Sweeps(w) ==
  pc[w] = "delete" /\ job[w].alone =>
    /\ \A v \in Workers : pc[v] = "create" => job[v].alert \notin Covered(job[w].alert)
    /\ \A c \in RuleIds :
         of[c] \in Covered(job[w].alert) /\ rule[c] \in Pending =>
           c \in job[w].todo \cup job[w].failed

Inv ==
  /\ \A w \in Workers : Placed(w) /\ Sweeps(w)
  /\ MutedMeansRuleMade /\ DeletedMeansGone
  /\ UnmuteIsFinal /\ Quiet

IInv == TypeOK /\ Inv

(***************************************************************************)
(* Type correctness.                                                       *)
(***************************************************************************)
\* The empty job is no job.
LEMMA NoJobType == NoJob \notin Job
BY DEF NoJob, Job

\* A new job is a job.
LEMMA NewJobType ==
  ASSUME NEW op \in {"mute", "unmute"}, NEW a \in Alerts
  PROVE  NewJob(op, a) \in Job
BY MuteFlowAssumption DEF NewJob, Job, Results, MuteFlowAssumption

\* What a new job starts from.
LEMMA NewJobFields ==
  ASSUME NEW op, NEW a
  PROVE  /\ NewJob(op, a).op = op
         /\ NewJob(op, a).alert = a
         /\ NewJob(op, a).deleted = {}
BY Zenon DEF NewJob

\* What is current is still to do.
LEMMA CurrentToDo ==
  ASSUME NEW w \in Workers, job[w].todo # {}
  PROVE  Current(w) \in job[w].todo
BY DEF Current

\* A worker that goes on with a well typed job, or ends, leaves all well typed.
LEMMA WorkerType ==
  ASSUME TypeOK, NEW w \in Workers, NEW j \in Job \cup {NoJob},
         NEW l \in {"idle", "create", "list", "delete", "notify"}, l # "idle" => j \in Job,
         job' = [job EXCEPT ![w] = j], pc' = [pc EXCEPT ![w] = l]
  PROVE  /\ pc' \in [Workers -> {"idle", "create", "list", "delete", "notify"}]
         /\ job' \in [Workers -> Job \cup {NoJob}]
         /\ \A v \in Workers : pc'[v] # "idle" => job'[v] \in Job
BY DEF TypeOK

\* A task ends with a result.
LEMMA FinishType ==
  ASSUME TypeOK, NEW w \in Workers, pc[w] # "idle", NEW r \in Results, Finish(w, r)
  PROVE  /\ pc' \in [Workers -> {"idle", "create", "list", "delete", "notify"}]
         /\ job' \in [Workers -> Job \cup {NoJob}]
         /\ \A v \in Workers : pc'[v] # "idle" => job'[v] \in Job
<1>1. job[w] \in Job
  BY DEF TypeOK
<1>2. [job[w] EXCEPT !.res = r] \in Job
  BY <1>1 DEF Job
<1>3. job' = [job EXCEPT ![w] = [job[w] EXCEPT !.res = r]] /\ pc' = [pc EXCEPT ![w] = "notify"]
  BY DEF Finish, Goto
<1> QED
  BY <1>2, <1>3, WorkerType

\* Every step keeps the variables well typed.
LEMMA TypeStep ==
  ASSUME TypeOK, [Next]_vars
  PROVE  TypeOK'
<1> USE DEF States, Pending, Listed
<1>1. ASSUME NEW w \in Workers, NEW a \in Alerts, ClickMute(w, a)
      PROVE  TypeOK'
  <2>1. \A v \in Workers : pc[v] # "idle" => [job[v] EXCEPT !.alone = FALSE] \in Job
    BY DEF TypeOK, Job
  <2>2. /\ job' \in [Workers -> Job \cup {NoJob}]
        /\ \A v \in Workers : pc'[v] # "idle" => job'[v] \in Job
        /\ pc' \in [Workers -> {"idle", "create", "list", "delete", "notify"}]
    BY <1>1, <2>1, NewJobType DEF ClickMute, Goto, TypeOK
  <2> QED
    BY <1>1, <2>2 DEF ClickMute, TypeOK
<1>2. ASSUME NEW w \in Workers, NEW a \in Alerts, ClickUnmute(w, a)
      PROVE  TypeOK'
  BY <1>2, NewJobType, WorkerType DEF ClickUnmute, Goto, TypeOK
<1>3. ASSUME NEW w \in Workers, CreateConfirmed(w)
      PROVE  TypeOK'
  <2>1. job[w] \in Job /\ job[w].alert \in Alerts
    BY <1>3 DEF CreateConfirmed, TypeOK, Job
  <2>2. PICK c \in RuleIds :
          /\ Make(w, c, "present")
          /\ job' = [job EXCEPT ![w].res = "success", ![w].made = @ \cup {c}]
    BY <1>3 DEF CreateConfirmed
  <2>3. [job[w] EXCEPT !.res = "success", !.made = @ \cup {c}] \in Job
    BY <2>1 DEF Job, Results
  <2>4. job' = [job EXCEPT ![w] = [job[w] EXCEPT !.res = "success", !.made = @ \cup {c}]]
    BY <2>1, <2>2 DEF TypeOK
  <2>5. /\ pc' \in [Workers -> {"idle", "create", "list", "delete", "notify"}]
        /\ job' \in [Workers -> Job \cup {NoJob}]
        /\ \A v \in Workers : pc'[v] # "idle" => job'[v] \in Job
    BY <1>3, <2>3, <2>4, WorkerType DEF CreateConfirmed, Goto
  <2>6. rule' \in [RuleIds -> States] /\ of' \in [RuleIds -> Alerts \cup {NoAlert}]
    BY <2>1, <2>2 DEF Make, TypeOK
  <2> QED
    BY <1>3, <2>5, <2>6 DEF CreateConfirmed, TypeOK
<1>4. ASSUME NEW w \in Workers, CreateUnsure(w)
      PROVE  TypeOK'
  <2>1. /\ job[w] \in Job /\ job[w].alert \in Alerts /\ pc[w] = "create"
        /\ job[w].attempt + 1 \in 0..MaxAttempts
    BY <1>4, MuteFlowAssumption DEF CreateUnsure, TypeOK, Job, MuteFlowAssumption
  <2>2. CASE /\ job' = [job EXCEPT ![w].attempt = @ + 1]
             /\ UNCHANGED <<rule, of>>
    <3>1. [job[w] EXCEPT !.attempt = @ + 1] \in Job
      BY <2>1 DEF Job
    <3>2. job' = [job EXCEPT ![w] = [job[w] EXCEPT !.attempt = @ + 1]]
      BY <2>1, <2>2 DEF TypeOK
    <3>3. pc' = [pc EXCEPT ![w] = "create"]
      BY <1>4, <2>1 DEF CreateUnsure, TypeOK
    <3> QED
      BY <1>4, <2>2, <3>1, <3>2, <3>3, WorkerType DEF CreateUnsure, TypeOK
  <2>3. ASSUME NEW c \in RuleIds, NEW s \in {"present", "late"}, Make(w, c, s),
               job' = [job EXCEPT ![w].attempt = @ + 1, ![w].made = @ \cup {c}]
        PROVE  TypeOK'
    <3>1. [job[w] EXCEPT !.attempt = @ + 1, !.made = @ \cup {c}] \in Job
      BY <2>1 DEF Job
    <3>2. job' = [job EXCEPT ![w] = [job[w] EXCEPT !.attempt = @ + 1, !.made = @ \cup {c}]]
      BY <2>1, <2>3 DEF TypeOK
    <3>3. pc' = [pc EXCEPT ![w] = "create"]
      BY <1>4, <2>1 DEF CreateUnsure, TypeOK
    <3>4. /\ pc' \in [Workers -> {"idle", "create", "list", "delete", "notify"}]
          /\ job' \in [Workers -> Job \cup {NoJob}]
          /\ \A v \in Workers : pc'[v] # "idle" => job'[v] \in Job
      BY <3>1, <3>2, <3>3, WorkerType
    <3>5. rule' \in [RuleIds -> States] /\ of' \in [RuleIds -> Alerts \cup {NoAlert}]
      BY <2>1, <2>3 DEF Make, TypeOK
    <3> QED
      BY <1>4, <3>4, <3>5 DEF CreateUnsure, TypeOK
  <2> QED
    BY <1>4, <2>2, <2>3 DEF CreateUnsure
<1>5. ASSUME NEW w \in Workers, CreateRefused(w) \/ CreateGivenUp(w) \/ ListNothing(w)
      PROVE  TypeOK'
  BY <1>5, FinishType DEF CreateRefused, CreateGivenUp, ListNothing, TypeOK, Results
<1>6. ASSUME NEW w \in Workers, List(w)
      PROVE  TypeOK'
  <2> DEFINE j == [job[w] EXCEPT !.todo = Matching(job[w].alert), !.alone = MutedNowhere(job[w].alert)]
  <2>1. job[w] \in Job
    BY <1>6 DEF List, TypeOK
  <2>2. Matching(job[w].alert) \subseteq RuleIds /\ MutedNowhere(job[w].alert) \in BOOLEAN
    BY DEF Matching, MutedNowhere
  <2>3. j \in Job
    BY <2>1, <2>2 DEF Job
  <2>4. job' = [job EXCEPT ![w] = j]
    BY <1>6, <2>1 DEF List, TypeOK
  <2> HIDE DEF j
  <2> QED
    BY <1>6, <2>3, <2>4, WorkerType DEF List, Goto, TypeOK
<1>7. ASSUME NEW w \in Workers, DeleteConfirmed(w) \/ DeleteFailed(w) \/ DeleteUnsure(w)
      PROVE  TypeOK'
  <2>0. 0 \in 0..MaxAttempts
    BY MuteFlowAssumption DEF MuteFlowAssumption
  <2>1. job[w] \in Job /\ pc[w] = "delete" /\ Current(w) \in RuleIds
    BY <1>7, CurrentToDo DEF DeleteConfirmed, DeleteFailed, DeleteUnsure, TypeOK, Job
  <2>2. pc' = [pc EXCEPT ![w] = "delete"]
    BY <1>7, <2>1 DEF DeleteConfirmed, DeleteFailed, DeleteUnsure, TypeOK
  <2>3. \E j \in Job : job' = [job EXCEPT ![w] = j]
    <3>1. CASE DeleteConfirmed(w)
      <4> DEFINE j == [job[w] EXCEPT !.todo = @ \ {Current(w)}, !.attempt = 0,
                                     !.deleted = @ \cup {Current(w)}]
      <4>1. j \in Job
        BY <2>0, <2>1 DEF Job
      <4>2. job' = [job EXCEPT ![w] = j]
        BY <2>1, <3>1 DEF DeleteConfirmed, TypeOK
      <4> QED
        BY <4>1, <4>2
    <3>2. CASE DeleteFailed(w)
      <4> DEFINE j == [job[w] EXCEPT !.todo = @ \ {Current(w)}, !.attempt = 0,
                                     !.failed = @ \cup {Current(w)}]
      <4>1. j \in Job
        BY <2>0, <2>1 DEF Job
      <4>2. job' = [job EXCEPT ![w] = j]
        BY <2>1, <3>2 DEF DeleteFailed, TypeOK
      <4> QED
        BY <4>1, <4>2
    <3>3. CASE DeleteUnsure(w)
      <4> DEFINE j == [job[w] EXCEPT !.attempt = @ + 1]
      <4>1. j \in Job
        BY <2>1, <3>3, MuteFlowAssumption DEF DeleteUnsure, Job, MuteFlowAssumption
      <4>2. job' = [job EXCEPT ![w] = j]
        BY <2>1, <3>3 DEF DeleteUnsure, TypeOK
      <4> QED
        BY <4>1, <4>2
    <3> QED
      BY <1>7, <3>1, <3>2, <3>3
  <2>4. rule' \in [RuleIds -> States]
    BY <1>7, <2>1 DEF DeleteConfirmed, DeleteFailed, DeleteUnsure, TypeOK
  <2> QED
    BY <1>7, <2>2, <2>3, <2>4, WorkerType DEF DeleteConfirmed, DeleteFailed, DeleteUnsure, TypeOK
<1>8. ASSUME NEW w \in Workers, DeleteDone(w)
      PROVE  TypeOK'
  <2>1. job[w].alert \in Alerts /\ pc[w] = "delete"
    BY <1>8 DEF DeleteDone, TypeOK, Job
  <2>2. \E r \in Results : Finish(w, r)
    BY <1>8 DEF DeleteDone, Results
  <2> QED
    BY <1>8, <2>1, <2>2, FinishType DEF DeleteDone, TypeOK
<1>9. ASSUME NEW w \in Workers, Notify(w) \/ Die(w)
      PROVE  TypeOK'
  BY <1>9, WorkerType DEF Notify, Die, Goto, TypeOK
<1>10. ASSUME NEW c \in RuleIds, TakesEffect(c) \/ RemovedByHand(c)
       PROVE  TypeOK'
  BY <1>10 DEF TakesEffect, RemovedByHand, TypeOK
<1>11. CASE UNCHANGED vars
  BY <1>11 DEF vars, TypeOK
<1> QED
  BY <1>1, <1>2, <1>3, <1>4, <1>5, <1>6, <1>7, <1>8, <1>9, <1>10, <1>11 DEF Next, Task, ClickRefused

(***************************************************************************)
(* The inductive invariant holds at every step.                            *)
(***************************************************************************)
\* Rules only age: what is removed or made stays so, and for the same alert, and
\* only a worker that is creating makes one.
RulesAge ==
  \A c \in RuleIds :
    /\ rule[c] = "removed" => rule'[c] = "removed"
    /\ rule[c] \notin {"none", "late"} => rule'[c] \notin {"none", "late"}
    /\ rule[c] # "none" => of'[c] = of[c]
    /\ rule'[c] \in Pending =>
         \/ rule[c] \in Pending
         \/ \E w \in Workers : pc[w] = "create" /\ of'[c] = job[w].alert

\* A worker rests, ends, or goes on with what it has, whether it is alone or not.
Rests(v) ==
  \/ pc'[v] = "idle"
  \/ /\ pc[v] # "idle"
     /\ pc'[v] = pc[v]
     /\ \A f \in {"op", "alert", "res", "made", "todo", "deleted", "failed"} :
          job'[v][f] = job[v][f]
     /\ job'[v].alone => job[v].alone

\* A worker rests if its entry in job and pc stays.
LEMMA OthersRest ==
  ASSUME TypeOK, NEW w \in Workers, NEW j, NEW l,
         job' = [job EXCEPT ![w] = j], pc' = [pc EXCEPT ![w] = l]
  PROVE  \A v \in Workers \ {w} : Rests(v)
BY DEF TypeOK, Rests

\* That is so at every step.
LEMMA RulesStep ==
  ASSUME TypeOK, [Next]_vars
  PROVE  RulesAge
<1> USE DEF RulesAge, Pending, Listed
<1>1. ASSUME NEW w \in Workers, CreateConfirmed(w) \/ CreateUnsure(w)
      PROVE  RulesAge
  <2>1. CASE UNCHANGED <<rule, of>>
    BY <2>1
  <2>2. ASSUME NEW c \in RuleIds, NEW s \in {"present", "late"}, Make(w, c, s)
        PROVE  RulesAge
    BY <1>1, <2>2 DEF Make, CreateConfirmed, CreateUnsure, TypeOK
  <2> QED
    BY <1>1, <2>1, <2>2 DEF CreateConfirmed, CreateUnsure
<1>2. ASSUME NEW w \in Workers, DeleteConfirmed(w) \/ DeleteUnsure(w)
      PROVE  RulesAge
  <2>1. Current(w) \in RuleIds
    BY <1>2, CurrentToDo DEF DeleteConfirmed, DeleteUnsure, TypeOK, Job
  <2> QED
    BY <1>2, <2>1 DEF DeleteConfirmed, DeleteUnsure, TypeOK
<1>3. ASSUME NEW c \in RuleIds, TakesEffect(c) \/ RemovedByHand(c)
      PROVE  RulesAge
  BY <1>3 DEF TakesEffect, RemovedByHand, TypeOK
<1>4. ASSUME UNCHANGED <<rule, of>>
      PROVE  RulesAge
  BY <1>4
<1> QED
  BY <1>1, <1>2, <1>3, <1>4
  DEF Next, Task, ClickMute, ClickUnmute, ClickRefused, CreateRefused, CreateGivenUp, ListNothing,
      List, DeleteFailed, DeleteDone, Notify, Die, vars

\* What the invariant says of one worker alone.
Local(w) ==
  /\ Placed(w)
  /\ pc[w] = "notify" /\ job[w].op = "mute" /\ job[w].res = "success" =>
       \E c \in job[w].made : rule[c] \notin {"none", "late"} /\ of[c] = job[w].alert
  /\ pc[w] # "idle" => \A c \in job[w].deleted : rule[c] = "removed"

\* A worker that rests keeps it.
LEMMA RestsLocal ==
  ASSUME TypeOK, NEW v \in Workers, Local(v), RulesAge, Rests(v)
  PROVE  Local(v)'
BY DEF TypeOK, Job, Local, Placed, RulesAge, Rests

\* A worker that takes a step keeps it.
LEMMA StepLocal ==
  ASSUME TypeOK, NEW w \in Workers, Local(w), RulesAge, Task(w)
  PROVE  Local(w)'
<1>0. job[w] \in Job
  BY DEF TypeOK, Task, CreateConfirmed, CreateRefused, CreateUnsure, CreateGivenUp, ListNothing, List,
         DeleteConfirmed, DeleteFailed, DeleteUnsure, DeleteDone, Notify
<1>1. CASE CreateConfirmed(w)
  <2>1. PICK c \in RuleIds :
          /\ Make(w, c, "present")
          /\ job' = [job EXCEPT ![w].res = "success", ![w].made = @ \cup {c}]
    BY <1>1 DEF CreateConfirmed
  <2>2. /\ c \in job'[w].made /\ job'[w].alert = job[w].alert
        /\ job'[w].deleted = job[w].deleted
    BY <1>0, <2>1 DEF TypeOK, Job
  <2>3. rule'[c] = "present" /\ of'[c] = job[w].alert
    BY <2>1 DEF Make, TypeOK
  <2>4. pc'[w] = "notify" /\ pc[w] = "create" /\ job[w].deleted \subseteq RuleIds
    BY <1>0, <1>1 DEF CreateConfirmed, Goto, TypeOK, Job
  <2> QED
    BY <2>2, <2>3, <2>4 DEF Local, Placed, RulesAge
<1>2. CASE CreateUnsure(w)
  <2>1. /\ job'[w].op = job[w].op /\ job'[w].deleted = job[w].deleted
        /\ job[w].deleted \subseteq RuleIds /\ pc'[w] = "create" /\ pc[w] = "create"
    BY <1>0, <1>2 DEF CreateUnsure, TypeOK, Job
  <2> QED
    BY <2>1 DEF Local, Placed, RulesAge
<1>3. CASE CreateRefused(w) \/ CreateGivenUp(w) \/ ListNothing(w)
  <2>1. /\ job'[w].op = job[w].op /\ job'[w].deleted = job[w].deleted
        /\ job[w].deleted \subseteq RuleIds /\ pc'[w] = "notify" /\ pc[w] # "idle"
        /\ job'[w].res \in {"error", "info"}
    BY <1>0, <1>3 DEF CreateRefused, CreateGivenUp, ListNothing, Finish, Goto, TypeOK, Job
  <2> QED
    BY <2>1 DEF Local, Placed, RulesAge
<1>4. CASE List(w)
  <2>1. /\ job'[w].op = job[w].op /\ job'[w].deleted = job[w].deleted
        /\ job[w].deleted \subseteq RuleIds /\ pc'[w] = "delete" /\ pc[w] = "list"
    BY <1>0, <1>4 DEF List, Goto, TypeOK, Job
  <2> QED
    BY <2>1 DEF Local, Placed, RulesAge
<1>5. CASE DeleteConfirmed(w)
  <2>1. /\ job'[w].op = job[w].op /\ job'[w].deleted = job[w].deleted \cup {Current(w)}
        /\ job[w].deleted \subseteq RuleIds /\ pc'[w] = "delete" /\ pc[w] = "delete"
    BY <1>0, <1>5 DEF DeleteConfirmed, TypeOK, Job
  <2>2. Current(w) \in RuleIds
    BY <1>0, <1>5, CurrentToDo DEF DeleteConfirmed, Job
  <2>3. rule'[Current(w)] = "removed"
    BY <1>5, <2>2 DEF DeleteConfirmed, TypeOK
  <2> QED
    BY <2>1, <2>2, <2>3 DEF Local, Placed, RulesAge
<1>6. CASE DeleteFailed(w) \/ DeleteUnsure(w)
  <2>1. /\ job'[w].op = job[w].op /\ job'[w].deleted = job[w].deleted
        /\ job[w].deleted \subseteq RuleIds /\ pc'[w] = "delete" /\ pc[w] = "delete"
    BY <1>0, <1>6 DEF DeleteFailed, DeleteUnsure, TypeOK, Job
  <2> QED
    BY <2>1 DEF Local, Placed, RulesAge
<1>7. CASE DeleteDone(w)
  <2>1. /\ job'[w].op = job[w].op /\ job'[w].deleted = job[w].deleted
        /\ job[w].deleted \subseteq RuleIds /\ pc'[w] = "notify" /\ pc[w] = "delete"
    BY <1>0, <1>7 DEF DeleteDone, Finish, Goto, TypeOK, Job
  <2> QED
    BY <2>1 DEF Local, Placed, RulesAge
<1>8. CASE Notify(w)
  BY <1>8 DEF Notify, Goto, Local, Placed, TypeOK
<1> QED
  BY <1>1, <1>2, <1>3, <1>4, <1>5, <1>6, <1>7, <1>8 DEF Task

\* No worker turns to creating.
Calm ==
  \A v \in Workers : pc'[v] = "create" => pc[v] = "create" /\ job'[v].alert = job[v].alert

\* As long as that is so, what is cleared stays cleared.
LEMMA FinalKept ==
  ASSUME TypeOK, UnmuteIsFinal, Quiet, RulesAge, Calm, UNCHANGED cleared
  PROVE  UnmuteIsFinal' /\ Quiet'
<1>1. Quiet'
  BY DEF Quiet, Calm, Covered
<1>2. ASSUME NEW a \in cleared, NEW c \in RuleIds, of'[c] \in Covered(a), rule'[c] \in Pending
      PROVE  FALSE
  <2>1. CASE rule[c] \in Pending
    BY <1>2, <2>1 DEF RulesAge, UnmuteIsFinal, Pending
  <2>2. CASE \E w \in Workers : pc[w] = "create" /\ of'[c] = job[w].alert
    BY <1>2, <2>2 DEF Quiet
  <2> QED
    BY <1>2, <2>1, <2>2 DEF RulesAge
<1> QED
  BY <1>1, <1>2 DEF UnmuteIsFinal, Covered, Targets

\* A deletion goes on: what it strikes off is removed or has failed.
GoesOn(v) ==
  pc'[v] = "delete" /\ job'[v].alone =>
    /\ pc[v] = "delete" /\ job[v].alone
    /\ job'[v].alert = job[v].alert
    /\ \A c \in job[v].todo \cup job[v].failed :
         c \in job'[v].todo \cup job'[v].failed \/ rule'[c] = "removed"

\* Nor is then anything added to what a deletion has before it.
LEMMA SweepsKept ==
  ASSUME NEW v \in Workers, Sweeps(v), RulesAge, Calm, GoesOn(v)
  PROVE  Sweeps(v)'
<1> SUFFICES ASSUME pc'[v] = "delete", job'[v].alone
             PROVE  /\ \A u \in Workers : pc'[u] = "create" => job'[u].alert \notin Covered(job'[v].alert)
                    /\ \A c \in RuleIds :
                         of'[c] \in Covered(job'[v].alert) /\ rule'[c] \in Pending =>
                           c \in job'[v].todo \cup job'[v].failed
  BY DEF Sweeps, Covered, Targets
<1>1. pc[v] = "delete" /\ job[v].alone /\ job'[v].alert = job[v].alert
  BY DEF GoesOn
<1>2. \A u \in Workers : pc'[u] = "create" => job'[u].alert \notin Covered(job'[v].alert)
  BY <1>1 DEF Sweeps, Calm
<1>3. ASSUME NEW c \in RuleIds, of'[c] \in Covered(job'[v].alert), rule'[c] \in Pending
      PROVE  c \in job'[v].todo \cup job'[v].failed
  <2>1. rule[c] \in Pending /\ of'[c] = of[c]
    BY <1>1, <1>3 DEF RulesAge, Sweeps, Pending
  <2>2. c \in job[v].todo \cup job[v].failed
    BY <1>1, <1>3, <2>1 DEF Sweeps
  <2> QED
    BY <1>3, <2>2 DEF GoesOn, Pending
<1> QED
  BY <1>2, <1>3

\* A worker that rests goes on, and creates only what it created before.
LEMMA RestsGoesOn ==
  ASSUME NEW v \in Workers, Rests(v)
  PROVE  GoesOn(v) /\ (pc'[v] = "create" => pc[v] = "create" /\ job'[v].alert = job[v].alert)
BY DEF Rests, GoesOn

\* The steps of a task.  All but List go on with a deletion that was alone.
LEMMA TaskShared ==
  ASSUME TypeOK, Inv, RulesAge, NEW w \in Workers, Task(w), \A v \in Workers \ {w} : Rests(v)
  PROVE  (\A v \in Workers : Sweeps(v)') /\ UnmuteIsFinal' /\ Quiet'
<1>0. job[w] \in Job /\ pc[w] # "idle"
  BY DEF TypeOK, Task, CreateConfirmed, CreateRefused, CreateUnsure, CreateGivenUp, ListNothing, List,
         DeleteConfirmed, DeleteFailed, DeleteUnsure, DeleteDone, Notify
<1>1. ASSUME GoesOn(w), UNCHANGED cleared,
             pc'[w] = "create" => pc[w] = "create" /\ job'[w].alert = job[w].alert
      PROVE  (\A v \in Workers : Sweeps(v)') /\ UnmuteIsFinal' /\ Quiet'
  <2>1. Calm /\ \A v \in Workers : GoesOn(v)
    BY <1>1, RestsGoesOn DEF Calm
  <2> QED
    BY <1>1, <2>1, SweepsKept, FinalKept DEF Inv
<1>2. CASE CreateConfirmed(w) \/ CreateRefused(w) \/ CreateGivenUp(w) \/ ListNothing(w) \/ Notify(w)
  <2>1. pc'[w] \in {"notify", "idle"} /\ UNCHANGED cleared
    BY <1>2
    DEF CreateConfirmed, CreateRefused, CreateGivenUp, ListNothing, Notify, Finish, Goto, TypeOK
  <2> QED
    BY <1>1, <2>1 DEF GoesOn
<1>3. CASE CreateUnsure(w)
  <2>1. job'[w].alert = job[w].alert /\ pc'[w] = "create" /\ pc[w] = "create" /\ UNCHANGED cleared
    BY <1>0, <1>3 DEF CreateUnsure, TypeOK, Job
  <2> QED
    BY <1>1, <2>1 DEF GoesOn
<1>4. CASE List(w)
  <2>1. /\ job'[w].alert = job[w].alert /\ job'[w].todo = Matching(job[w].alert)
        /\ job'[w].alone = MutedNowhere(job[w].alert) /\ pc'[w] = "delete"
        /\ UNCHANGED <<rule, of, cleared>>
    BY <1>0, <1>4 DEF List, Goto, TypeOK, Job
  <2>2. Calm
    BY <2>1, RestsGoesOn DEF Calm
  <2>3. UnmuteIsFinal' /\ Quiet'
    BY <2>1, <2>2, FinalKept DEF Inv
  <2>4. \A v \in Workers \ {w} : Sweeps(v)'
    BY <2>2, RestsGoesOn, SweepsKept DEF Inv
  <2>5. ASSUME job'[w].alone
        PROVE  /\ \A u \in Workers : pc'[u] = "create" => job'[u].alert \notin Covered(job'[w].alert)
               /\ \A c \in RuleIds :
                    of'[c] \in Covered(job'[w].alert) /\ rule'[c] \in Pending =>
                      c \in job'[w].todo \cup job'[w].failed
    BY <2>1, <2>2, <2>5 DEF MutedNowhere, Matching, Calm, Pending, Listed
  <2>6. Sweeps(w)'
    BY <2>5 DEF Sweeps, Covered, Targets
  <2> QED
    BY <2>3, <2>4, <2>6
<1>5. CASE DeleteConfirmed(w)
  <2>1. /\ job'[w].alert = job[w].alert /\ job'[w].todo = job[w].todo \ {Current(w)}
        /\ job'[w].failed = job[w].failed /\ job'[w].alone = job[w].alone
        /\ pc[w] = "delete" /\ UNCHANGED <<pc, cleared>>
    BY <1>0, <1>5 DEF DeleteConfirmed, TypeOK, Job
  <2>2. Current(w) \in RuleIds
    BY <1>0, <1>5, CurrentToDo DEF DeleteConfirmed, Job
  <2>3. rule'[Current(w)] = "removed"
    BY <1>5, <2>2 DEF DeleteConfirmed, TypeOK
  <2> QED
    BY <1>1, <2>1, <2>3 DEF GoesOn
<1>6. CASE DeleteFailed(w)
  <2>1. /\ job'[w].alert = job[w].alert /\ job'[w].todo = job[w].todo \ {Current(w)}
        /\ job'[w].failed = job[w].failed \cup {Current(w)} /\ job'[w].alone = job[w].alone
        /\ pc[w] = "delete" /\ UNCHANGED <<pc, cleared>>
    BY <1>0, <1>6 DEF DeleteFailed, TypeOK, Job
  <2> QED
    BY <1>1, <2>1 DEF GoesOn
<1>7. CASE DeleteUnsure(w)
  <2>1. /\ job'[w].alert = job[w].alert /\ job'[w].todo = job[w].todo
        /\ job'[w].failed = job[w].failed /\ job'[w].alone = job[w].alone
        /\ pc[w] = "delete" /\ UNCHANGED <<pc, cleared>>
    BY <1>0, <1>7 DEF DeleteUnsure, TypeOK, Job
  <2> QED
    BY <1>1, <2>1 DEF GoesOn
<1>8. CASE DeleteDone(w)
  <2>1. pc'[w] = "notify" /\ pc[w] = "delete" /\ job[w].todo = {} /\ UNCHANGED <<rule, of>>
    BY <1>8 DEF DeleteDone, Finish, Goto, TypeOK
  <2>2. Calm /\ \A v \in Workers : GoesOn(v)
    BY <2>1, RestsGoesOn DEF Calm, GoesOn
  <2>3. \A v \in Workers : Sweeps(v)'
    BY <2>2, SweepsKept DEF Inv
  <2>4. CASE UNCHANGED cleared
    BY <2>2, <2>3, <2>4, FinalKept DEF Inv
  <2>5. CASE /\ job[w].failed = {} /\ job[w].alone
             /\ cleared' = cleared \cup {job[w].alert}
    <3>1. \A v \in Workers : pc[v] = "create" => job[v].alert \notin Covered(job[w].alert)
      BY <2>1, <2>5 DEF Inv, Sweeps
    <3>2. \A c \in RuleIds : of[c] \in Covered(job[w].alert) => rule[c] \notin Pending
      BY <2>1, <2>5 DEF Inv, Sweeps
    <3>3. UnmuteIsFinal'
      BY <2>1, <2>5, <3>2 DEF Inv, UnmuteIsFinal, Covered, Targets
    <3>4. Quiet'
      BY <2>2, <2>5, <3>1 DEF Inv, Quiet, Calm, Covered, Targets
    <3> QED
      BY <2>3, <3>3, <3>4
  <2> QED
    BY <1>8, <2>4, <2>5 DEF DeleteDone
<1> QED
  BY <1>2, <1>3, <1>4, <1>5, <1>6, <1>7, <1>8 DEF Task

\* Every step keeps the invariant.
LEMMA InvStep ==
  ASSUME IInv, [Next]_vars
  PROVE  IInv'
<1>0. TypeOK /\ Inv /\ TypeOK' /\ RulesAge /\ \A v \in Workers : Local(v)
  BY TypeStep, RulesStep DEF IInv, Inv, Local, MutedMeansRuleMade, DeletedMeansGone
<1>1. ASSUME \A v \in Workers : Local(v)' /\ Sweeps(v)', UnmuteIsFinal', Quiet'
      PROVE  IInv'
  BY <1>0, <1>1 DEF IInv, Inv, Local, MutedMeansRuleMade, DeletedMeansGone
<1>2. ASSUME \A v \in Workers : Rests(v), UNCHANGED cleared
      PROVE  IInv'
  <2>1. Calm /\ \A v \in Workers : GoesOn(v)
    BY <1>2, RestsGoesOn DEF Calm
  <2> QED
    BY <1>0, <1>1, <1>2, <2>1, RestsLocal, SweepsKept, FinalKept DEF Inv
<1>3. ASSUME NEW w \in Workers, NEW a \in Alerts, ClickMute(w, a)
      PROVE  IInv'
  <2>1. /\ pc[w] = "idle" /\ pc'[w] = "create" /\ job'[w] = NewJob("mute", a)
        /\ UNCHANGED <<rule, of>>
        /\ cleared' = {b \in cleared : a \notin Covered(b)}
    BY <1>0, <1>3 DEF ClickMute, Goto, TypeOK
  <2>new. job'[w].op = "mute" /\ job'[w].alert = a /\ job'[w].deleted = {}
    BY <2>1, NewJobFields
  <2>2. \A v \in Workers \ {w} :
          Rests(v) /\ (pc'[v] # "idle" /\ job'[v].alone => a \notin Covered(job'[v].alert))
    <3> SUFFICES ASSUME NEW v \in Workers \ {w}
                 PROVE  Rests(v) /\ (pc'[v] # "idle" /\ job'[v].alone => a \notin Covered(job'[v].alert))
      OBVIOUS
    <3>1. pc'[v] = pc[v] /\ (pc[v] # "idle" => job[v] \in Job)
      BY <1>0, <1>3 DEF ClickMute, Goto, TypeOK
    <3>2. CASE pc[v] # "idle" /\ a \in Covered(job[v].alert)
      <4>1. job'[v] = [job[v] EXCEPT !.alone = FALSE]
        BY <1>3, <3>2 DEF ClickMute
      <4> QED
        BY <3>1, <3>2, <4>1 DEF Rests, Job
    <3>3. CASE ~(pc[v] # "idle" /\ a \in Covered(job[v].alert))
      <4>1. job'[v] = job[v]
        BY <1>3, <3>3 DEF ClickMute
      <4> QED
        BY <3>1, <3>3, <4>1 DEF Rests
    <3> QED
      BY <3>2, <3>3
  <2>3. \A v \in Workers : Local(v)'
    <3>1. Local(w)'
      BY <2>1, <2>new DEF Local, Placed
    <3> QED
      BY <1>0, <2>2, <3>1, RestsLocal
  <2>4. \A v \in Workers : Sweeps(v)'
    <3> SUFFICES ASSUME NEW v \in Workers, pc'[v] = "delete", job'[v].alone
                 PROVE  /\ \A u \in Workers : pc'[u] = "create" => job'[u].alert \notin Covered(job'[v].alert)
                        /\ \A c \in RuleIds :
                             of'[c] \in Covered(job'[v].alert) /\ rule'[c] \in Pending =>
                               c \in job'[v].todo \cup job'[v].failed
      BY DEF Sweeps, Covered, Targets
    <3>1. v # w /\ pc[v] = "delete" /\ job[v].alone /\ job'[v].alert = job[v].alert
          /\ job'[v].todo = job[v].todo /\ job'[v].failed = job[v].failed
          /\ a \notin Covered(job'[v].alert)
      BY <2>1, <2>2 DEF Rests
    <3>2. \A u \in Workers : pc'[u] = "create" => job'[u].alert \notin Covered(job'[v].alert)
      BY <1>0, <2>1, <2>new, <2>2, <3>1 DEF Inv, Sweeps, Rests
    <3> QED
      BY <1>0, <2>1, <3>1, <3>2 DEF Inv, Sweeps
  <2>5. UnmuteIsFinal'
    BY <1>0, <2>1 DEF Inv, UnmuteIsFinal, Covered, Targets
  <2>6. Quiet'
    <3>1. ASSUME NEW b \in cleared', NEW v \in Workers, pc'[v] = "create"
          PROVE  job'[v].alert \notin Covered(b)
      BY <1>0, <2>1, <2>new, <2>2, <3>1 DEF Inv, Quiet, Rests
    <3> QED
      BY <3>1 DEF Quiet, Covered, Targets
  <2> QED
    BY <1>1, <2>3, <2>4, <2>5, <2>6
<1>4. ASSUME NEW w \in Workers, NEW a \in Alerts, ClickUnmute(w, a)
      PROVE  IInv'
  <2>1. /\ pc'[w] = "list" /\ job'[w] = NewJob("unmute", a)
        /\ UNCHANGED <<rule, of, cleared>>
    BY <1>0, <1>4 DEF ClickUnmute, Goto, TypeOK
  <2>new. job'[w].op = "unmute" /\ job'[w].deleted = {}
    BY <2>1, NewJobFields
  <2>2. \A v \in Workers \ {w} : Rests(v)
    BY <1>0, <1>4, OthersRest DEF ClickUnmute, Goto
  <2>3. Local(w)' /\ GoesOn(w)
    BY <2>1, <2>new DEF Local, Placed, GoesOn
  <2>4. Calm /\ \A v \in Workers : GoesOn(v)
    BY <2>1, <2>2, <2>3, RestsGoesOn DEF Calm
  <2> QED
    BY <1>0, <1>1, <2>1, <2>2, <2>3, <2>4, RestsLocal, SweepsKept, FinalKept DEF Inv
<1>5. ASSUME NEW w \in Workers, Task(w)
      PROVE  IInv'
  <2>1. \A v \in Workers \ {w} : Rests(v)
    BY <1>0, <1>5
    DEF TypeOK, Rests, Task, CreateConfirmed, CreateRefused, CreateUnsure, CreateGivenUp, ListNothing,
        List, DeleteConfirmed, DeleteFailed, DeleteUnsure, DeleteDone, Notify, Finish, Goto
  <2> QED
    BY <1>0, <1>1, <1>5, <2>1, TaskShared, StepLocal, RestsLocal
<1>6. ASSUME NEW w \in Workers, Die(w)
      PROVE  IInv'
  <2>1. \A v \in Workers : Rests(v)
    BY <1>0, <1>6 DEF Die, Goto, TypeOK, Rests
  <2> QED
    BY <1>2, <1>6, <2>1 DEF Die
<1>7. ASSUME NEW c \in RuleIds, TakesEffect(c) \/ RemovedByHand(c)
      PROVE  IInv'
  <2>1. \A v \in Workers : Rests(v)
    BY <1>0, <1>7 DEF TakesEffect, RemovedByHand, Rests
  <2> QED
    BY <1>2, <1>7, <2>1 DEF TakesEffect, RemovedByHand
<1>8. CASE UNCHANGED vars
  BY <1>0, <1>2, <1>8 DEF vars, Rests
<1> QED
  BY <1>3, <1>4, <1>5, <1>6, <1>7, <1>8 DEF Next, ClickRefused

\* The invariant holds in every reachable state.
LEMMA Invariant == Spec => []IInv
<1>1. Init => IInv
  BY NoJobType
  DEF Init, IInv, Inv, TypeOK, States, Placed, Sweeps, MutedMeansRuleMade, DeletedMeansGone,
      UnmuteIsFinal, Quiet
<1> QED
  BY <1>1, InvStep, PTL DEF Spec

\* The variables of the mute flow are always well typed, and no request is sent
\* more often than RETRY_MAX_ATTEMPTS says.
THEOREM TypeCorrect == Spec => []TypeOK
<1>1. IInv => TypeOK
  BY DEF IInv
<1> QED
  BY <1>1, Invariant, PTL

\* Whatever is lost or late, a card says that an alert is muted only after its own
\* click has made a rule.
THEOREM MutesAreReal == Spec => []MutedMeansRuleMade
<1>1. IInv => MutedMeansRuleMade
  BY DEF IInv, Inv
<1> QED
  BY <1>1, Invariant, PTL

\* Whatever is lost or late, a card counts as deleted only rules that are gone.
THEOREM DeletionsAreReal == Spec => []DeletedMeansGone
<1>1. IInv => DeletedMeansGone
  BY DEF IInv, Inv
<1> QED
  BY <1>1, Invariant, PTL

\* However many duplicates retries have made and whoever else clicks, an unmute
\* that reports success and met no mute under way leaves none behind, and none
\* comes back.
THEOREM UnmutesAreFinal == Spec => []UnmuteIsFinal
<1>1. IInv => UnmuteIsFinal
  BY DEF IInv, Inv
<1> QED
  BY <1>1, Invariant, PTL
===============================================================================
