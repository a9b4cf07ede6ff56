# A TLA+ model of the flymon gateway

flymon puts a service called *gateway* beside a Nightingale (N9E) monitoring
server. An alert that N9E sends to Feishu is a card with buttons; the gateway
keeps what the buttons need (behind short *tokens*), receives the callbacks of
the clicks, and carries them out: it mutes the alert in N9E, has it analysed by
an AI service, creates a group chat for it or dismisses that chat. The modules
here model the gateway (`src/internal/gateway`), check it with TLC, and prove its
main invariants with TLAPS. Everything else of the repository is wiring
(`src/internal/bootstrap`, `cli`, `edge`, `src/cmd`), deployment data, or lives in the
git submodule `upstream/`, whose contents are not part of this repository.

## 1. Inventory

| component | code | state | operations |
|---|---|---|---|
| token store, file | `token_store.go` 32-184 | a JSON file per token, RWMutex | GenToken, Load, Update, GC |
| token store, Redis | `token_store.go` 186-286 | a key per token | GenToken, Load, Update (GC is empty) |
| dedup caches | `handlers.go` 21-49 | a map per cache and process: `dedup` 300 s, `aiDedup` and `gcDedup` 60 s | isDuplicate |
| group chat flow | `handlers.go` 209-230, 386-559, `feishu_client.go` | the token's `chat_id`, `gcDedup`, the chats of Feishu | register, create, dismiss |
| mute flow | `handlers.go` 155-176, 561-765, `n9e_client.go` | mute rules in N9E | register, mute, unmute, retries |
| AI analysis | `handlers.go` 182-267, 333-384, `ai_engine.go` | `aiDedup` | register, trigger, callback, Analyze |
| callback routing, credentials | `handlers.go` 51-84, 273-331 | `dedup`, the credentials seen last | handleFeishuCallback, remember/resolveFeishuCreds |
| startup and lifecycle | `gateway.go`, `config.go`, `bootstrap.go`, `token_store.go` 298-385 | the service's cleanup function, the HTTP server | LoadConfig, Validate, InitTokenStores, Initialize, Start, Stop |
| cards | `cards.go` | none | formatting |

How they interact: every HTTP request runs in a goroutine of its own; a callback
handler loads the token, asks a dedup cache, and starts a second goroutine (`go
s.async...`) that makes a series of HTTP requests, each of which may fail or take up to its timeout
(15 s to Feishu, 10 s to N9E, 300 s to an AI service), and then updates the token. The
goroutines share the token stores, the caches and the credentials; the
replicas of the gateway (two in the Helm chart) share nothing but the token
directory or Redis, and Feishu and N9E themselves. Nothing waits for the
goroutines when the process stops.

What is hard, and what makes each component correct:

* **Token stores.** File operations of several replicas, a collector and crashes
  interleave; a token must be served exactly while it lives, with all
  patches, and be gone afterwards. Redis has no lock at all, and its client repeats
  writes whose answer is lost.
* **Dedup caches.** The window must be exact in spite of the lazy sweep; the
  caches die with the process and are not shared.
* **Group chat.** Decisions are made on a snapshot taken before earlier tasks have
  finished. One alert must not get two chats; a chat that exists must be
  recorded, or nobody can dismiss it; a slow task must not undo a later one; the
  card must list as members those who are in the chat.
* **Mute flow.** Requests that are not idempotent are retried.
* **AI analysis.** The window of the cache is shorter than the work; a provider that
  fails is replaced by the next, and the card has to say what happened.
* **Callback routing, credentials.** Feishu delivers a click more than once, to any replica; an event is marked
  before it is handled; credentials fall back on those seen last.
* **Lifecycle.** Start and Stop from two goroutines; misconfiguration that is
  noticed late or never.

`PROJECT.json` lists the hazards line by line with the properties that cover them.

## 2. Modules

| module | what it is |
|---|---|
| `TokenCalls` | the interface of a token store as data: requests, results, patches |
| `TokenStore` | abstract specification of a store of one process: atomic calls |
| `FileTokenStore` | the file store, file operation by file operation; instantiates `TokenStore` through a refinement mapping |
| `FileTokenStoreProofs` | its theorems |
| `RetriedTokenStore` | abstract specification of a store behind a client that retries: writes may stray |
| `RedisTokenStore`, `RedisTokenStoreProofs` | the Redis store, command by command; mapped to `RetriedTokenStore`; its theorems |
| `Dedup` | `isDuplicate` as functions of its map |
| `DedupCache`, `DedupCacheProofs` | a cache per replica with redeliveries and restarts; its theorem |
| `FeishuCallback`, `FeishuCallbackProofs` | `DedupCache` under handleFeishuCallback and the lifecycle of each replica, with the credentials; its theorems |
| `GroupChat`, `GroupChatProofs` | the group chat buttons, over `Dedup`; its theorems |
| `GroupMembers`, `GroupMembersProofs` | one step of `GroupChat`, the filling of a chat, request by request; that it implements `GroupChat`, and its own theorems |
| `MuteFlow`, `MuteFlowProofs` | the mute and unmute buttons and the retrying client of N9E; its theorems |
| `Config` | Validate, the choice of a store and the chain of AI providers as operators on configurations |
| `AIAnalysis`, `AIAnalysisProofs` | the analysis of an alert, over `Dedup` and `Config`; its theorems |
| `MCFileTokenStore`, `MCRedisTokenStore`, `MCFeishuCallback`, `MCGroupChat`, `MCGroupMembers`, `MCMuteFlow`, `MCAIAnalysis` | instances for TLC |

An operator whose comment begins with *Fault* is not part of the model: it is a
mistake the code could contain, defined next to the definition that it
would replace, and a property is worth something only if such a mistake breaks it.

**File store.** `files[t]` is what the directory holds under the token's name: nothing, an
entry, an empty file (created, not yet written) or one that does not
parse. A call is split where a replica or a crash can come between two file operations: `GenCreate`, `Write`;
`LoadRead`, `LoadCheck`; `UpdateRead`, `UpdateCreate`, `Write`; `GCStart`, `GCFile`, `GCEnd`.
`AnnounceLock` and the guards `CanLock`, `CanRLock` are Go's RWMutex: a waiting
writer keeps new readers out. `attached` tells whether an open handle still names
the file in the directory, for another replica may have removed it. Two
writes to one file leave garbage when the shorter one came last, so `Written` allows that.

**Redis store.** One action per command. The clock has `Unit` ticks to the second because
the reply of TTL is rounded to the nearest second; a reply that is not positive
makes the code take the TTL of a new token (`Lifetimes`). With `IOErrors` a
command may fail or its answer be lost. The options of the client (`token_store.go` 310-315) do not set `MaxRetries`, so go-redis sends
a command up to four times. For GET and TTL that changes nothing. A SET without an answer is put into `strays`: `Stray` carries it out
at any later moment, once or more often or never, and the call meanwhile sends it again or gives up (`Unanswered`, `SendAgain`). A death of a replica is `Die`.

`RetriedTokenStore` is what can be promised of that: less than `TokenStore`, because a stray may bring back an older entry, and
an entry that expires between the GET and the SET of an Update is written anew. What remains is that a call which was answered has taken
effect, that an Update changes no more than its patch, that no value turns up which nobody wrote, and that only time deletes an entry, not before half of the TTL.
The mapping shows the fields of an entry that every patch sets or none (`Shared`): for the gateway, the data of the alert and
`chat_id`. Of the fields that only one of `asyncCreateChat` and `asyncDismissChat` sets (who created or dismissed the chat, and when) an
Update may undo what another has set meanwhile, because it writes back the whole map. Nothing reads them. In the run `creator` is such a field.

**Callbacks.** `FeishuCallback` extends `DedupCache`, whose actions `Accept`, `Refuse`, `Restart` and
`Tick` it uses as conjuncts; `DedupKey` is the key of `handleFeishuCallback`. Each replica goes through the `Stages` of its
process: `Start` panics if `Initialize` fails (`StartFails`), a failure to listen is only
logged (`deaf`), a `Stop` that comes before `Start` has stored the cleanup function is lost
(`StopEarly`), an ordinary one refuses new requests and waits `Grace` seconds at most for the handlers, and not at all for the
tasks that they have started (`Exit`), and a process may be killed at any time (`Kill`). `Begin` marks the event and `End` is the toast of the
handler; the tasks that handlers start are in the modules of the three buttons. That go-zero calls Stop once, and possibly
before the end of Start, is what the comments in `bootstrap.go` say of it. `Remember` and
`ResolveFeishuCreds` are the two functions of these names; a secret is named by the application it belongs to, so that a
pair that fits is one of equal names.

**Group chat.** A worker is the goroutine of one callback and then of the task it starts.
`Click` is the handler up to Load, `Decide` the dedup and the checks of
chat_id and credentials, and the tasks are the series of requests to Feishu. `job[w].snap` is the chat_id that was
loaded at the start. The requests that only add members or send cards (`Populate`, `Notify`) cannot change what the
properties of this module speak of, so they are single steps that take time. The store is abstract here: Load and Update
are single steps, and both may fail with the entry still there, on an error of the disk or of Redis; no caller looks at the
result of Update. What is left out is a SET that Redis carries out late (section 5). `HandlerTime` and
`TaskTime` bound how long a handler and, counted from the check of `gcDedup`, a task last; the clock does not pass the deadline.

Two history variables say what the properties leave out, and why. `released` holds the
chats that a dismissal has taken off their token, which it does even when Feishu has refused to dissolve them, and those that have
never got there: the reply to their creation was lost, the write-back failed, or a crash came before it (`Unrecorded`). Nothing in
the code knows of these chats any more. `raced` holds the tokens for which a task was started on an *overtaken*
click: the chat_id that its handler had loaded was no longer that of the entry, or another task of the same button was about to change it
(`Overtaken`). The code's defences against such starts are the dedup window and the check of chat_id, and both have gaps.

**Members.** `GroupMembers` opens the step `Populate`: `Lookup` and `AddMembers` are `AddMembersByEmail`,
`AdminLookup` and `AdminJoin` are `AddChatManagers`, and `CardToChat` is the end of the step. `joined[c]` is who a request of the
gateway has put into the chat, `roll[w]` what the task believes: `invalid` is the list that `AddMembersByEmail`
returns and `Listed` what the card makes of it. `Elsewhere` is any other step of `GroupChat`.

**Mute flow.** A worker is the goroutine of one click and its task. `rule[c]` is what
N9E holds under the id `c`, with two states for what the gateway cannot see: a creation or a
removal that N9E carries out only after the client has given up waiting. `CreateConfirmed`, `CreateRefused`,
`CreateUnsure`, `CreateGivenUp` and their `Delete` counterparts are the outcomes of one attempt in `doWithRetry`.
`Covered` is the matching of `findAndDeleteMuteRules`; `Named`, `Tagged`, `Instance` and `Members` are what it
looks at, and may make alerts overlap in any way. A reply of status 200 without `err` is taken to
mean that N9E has done what it was asked, and a refusal that it has not; deleting what is gone is confirmed.
`cleared` and `job[w].alone` are history: when an unmute may claim to be final. The clicks are not filtered by `dedup`
here: Feishu gives every click an `event_id` of its own.

**AI analysis.** A worker is the goroutine that the trigger or the callback starts. The handler before it is one step,
because the data of the token never change: `AskExpired`, `AskAgain`, `AskWithoutCredentials` (the callback
looks for credentials only after the cache has noted the click) and `Ask`. `Answered`, `Failed` and `AllFailed` are the rounds of the loop in
`Analyze` over `Chain`, the `ProviderChain` of the configuration; `Auth` and `Send` deliver the cards, to the operator or to each webhook.
Only requests take time, each at most its timeout (`Limit`). `config` is any configuration of `Deployment` that `Validate` lets through.
`ParseSections` works on an answer cut into `Piece`s by its headings, and yields which piece each section shows.

## 3. What the runs check

| run | instance | shows |
|---|---|---|
| `file_one` | 1 replica, 2 request goroutines, collector, 1 token, TTL 1, clock to 2, 1 crash | `Linearizable`: `FileTokenStore` implements `TokenStore`; a crash loses only entries being updated; `CallReturns`, `ExpiredCollected` |
| `file_shared` | 2 replicas, collector in one, 1 crash, failing file operations | `TimestampFixed`, `ExpiredNeverServed`, `LiveNeverRemoved` |
| `file_crash_loses` | a crash | `LiveTokenKept` **fails** |
| `file_torn_served` | 2 replicas, no crash | `MissMeansExpired` **fails** |
| `redis` | 2 goroutines, 2 patches of which one sets a field more, failing commands, strays, TTL 1 s of 2 ticks, clock to 3 | `Promised`: `RedisTokenStore` implements `RetriedTokenStore`; `EveryKeyExpires` |
| `redis_revived` | 1 goroutine, clock beyond expiry | `ExpiredStaysGone` **fails** |
| `callback` | 2 replicas, 2 workers, 2 clicks on one button, one of them without `event_id`, tokens of 2 applications, window 1, clock to 2, handlers slower than the grace, 1 end of a process | `RefusesExactlyWindow`, `AnsweredWasHandled`, `HandlingsBounded`, `CredentialsFit` |
| `group` | 2 workers, 2 operators, 1 replica, 2 chats, window 1, tasks up to 2, clock to 2, 1 restart | `TasksSpaced`, `SecondChatHasCause`, `UnrecordedHasCause`, `ErasesOwnChat` |
| `members` | 2 workers, 2 operators, 2 chats, no time, 1 crash, 2 invited, one of them the administrator | `ReleasedNotRecorded`, `CardMatchesMembers` |
| `group_two_operators` | 2 operators | `OneLiveChat` **fails** |
| `mute` | 2 workers, 2 overlapping alerts, 2 rules, 2 attempts | `MutedMeansRuleMade`, `DeletedMeansGone`, `UnmuteIsFinal`, `ClickEnds` |
| `analysis` | 2 workers, 1 operator and the webhook, window 3, timeouts 1, clock to 5, 1 crash, 4 configurations | `RunningSpaced`, `OverlapBounded`, `CardTruthful`, `ConfigSound`, `AnswerShown`, `AnalysisEnds` |

Bounds. One token is enough for the stores, because no operation touches two
tokens except a pass of the collector, which treats each file by itself. Two
request goroutines and the collector show every pair of conflicting
calls. The clock runs past the expiry of a token generated late, in `redis` too, so that keys expire
between the commands of an Update. In `group` a task may last longer than the window, as a creation of eight requests of 15 s may
last longer than 60 s, so that the same operator can start a second one beside it; two operators need not even wait. Two workers show every pair of overlapping
tasks, and the crash lets both start again with an empty cache. Two chats are enough to have two of them live. In `members` the clock stands still at 0. The window is 0
too, but as 0 - 0 > 0 is false a key that `gcDedup` has let through is refused from then on, until a crash empties the cache: each of the two operators gets one creation
and one dismissal per life of the process. That is enough for one chat to be filled while
another is made, recorded or dismissed, and the theorems need no bound at all. In `callback` the window and the clock show a click before, at and after
the end of a window, and one end of a process lets a replica forget while the other remembers; a handler may be
slower than the grace, so that an orderly stop cuts it off, too. In `analysis` two requests, to a provider and to Feishu, may span
the window; of the four configurations one is refused, and the others have both providers, one, and none that is permitted.
`ConfigSound` is about *all* configurations and `AnswerShown` about all answers of up to four pieces, enough for
each of the three headings, a foreign one and a repeated one.

`callback` does not check for deadlock: a replica that could not listen sits idle for ever, and the bounds on the clock and on
the ends of processes stop the rest. Nor do the two runs of Redis: when all tokens are drawn and the process has died in GenToken, nobody has a token to ask for.

The runs that fail are disagreements of the code with its own comments; the
findings in `PROJECT.json` quote both sides:

* `file_crash_loses`: Update truncates the only copy of an entry before it writes the
  new one. A temporary file and a rename would close this gap and that of `file_torn_served`.
* `file_torn_served`: locks do not reach across replicas, so a shared volume
  makes a live token look expired at times.
* `redis_revived`: the SET of an Update is unconditional.
* `group_two_operators`: the check for an existing chat is made on old data, and `gcDedup`, which
  has to make up for it, is keyed by operator and shorter than eight requests
  of 15 s. A creation slower than the window, or two replicas, each with its own `gcDedup`,
  are other ways to the same end.

What can be said of the group chats is therefore less than `OneLiveChat`: that *nothing but* an overtaken click leads to a second live chat
(`SecondChatHasCause`), to a live chat that is in no entry and in no task's hands (`UnrecordedHasCause`), or to a dismissal that erases
the record of another chat (`ErasesOwnChat`). A refused request, a lost reply, a write-back that fails or a crash orphans at most the chat that the task itself was creating or dismissing (these are in `released`); however
many of them there are and in whatever order, with entries that expire and tasks of any length, they do no harm to another chat. A team that closed the gap (a lock on the token, say, or a second look at chat_id in the task) would have
`OneLiveChat` whenever a chat is recorded at all. `TasksSpaced` is what `gcDedup` contributes: within one replica, tasks of one button and operator are a window
apart. It is no more than that, since a task may last longer than the window.

`CardMatchesMembers` says what the code can promise and no more: the administrator is listed though nobody has looked whether
he could be added, and after a lost reply everybody counts as absent. `OverlapBounded` is such a property too: several analyses
for one reader may run at once, because an analysis may last longer than the window, and the property says how many.

In `mute` two rules and two attempts let a retry duplicate a mute that N9E carries out
late while another worker deletes; the aggregated alert covers the other one, so
that a click on either disturbs an unmute of the aggregated one. Two rules suffice because the
properties speak of one rule at a time, or of a duplicate left behind.

Fairness, used by `file_one`, `mute` and `analysis`. In `mute` and `analysis` it is weak fairness of each task: a goroutine
is scheduled again, and the timeouts of the clients of N9E, Feishu and the AI services end every request. The rest is about `file_one`. A goroutine that can run is scheduled again
(weak fairness of the steps of a call). For the lock it is strong fairness, because
Go's RWMutex lets waiting readers in when a writer unlocks and hands
the mutex among writers over in turn, so nobody waits for ever though the lock is
taken again and again in between. The ticker started by `StartTokenGC` makes the collector
run again and again. Nothing obliges the handlers to make calls.

## 4. What is proved

| theorem | statement |
|---|---|
| `FileTokenStoreProofs!TypeCorrect` | `Spec => []TypeOK` |
| `FileTokenStoreProofs!TimestampsFixed` | `Spec => []TimestampFixed` |
| `FileTokenStoreProofs!NeverServesExpired` | `Spec => ExpiredNeverServed` |
| `FileTokenStoreProofs!NeverRemovesLive` | `Spec => LiveNeverRemoved` |
| `FileTokenStoreProofs!OneReplicaLinearizable` | `OneReplica`, `~IOErrors`: `Spec => Linearizable` |
| `RedisTokenStoreProofs!RedisTypeCorrect` | `Spec => []TypeOK` |
| `RedisTokenStoreProofs!KeysExpire` | `Spec => []EveryKeyExpires` |
| `RedisTokenStoreProofs!NeverDeletedEarly` | `Spec => NotBeforeHalf`, no key is deleted before half of the TTL |
| `RedisTokenStoreProofs!RedisKeepsPromise` | `Spec => Promised` |
| `DedupCacheProofs!RefusesExactly` | `Spec => []RefusesExactlyWindow` |
| `FeishuCallbackProofs!CallbackTypeCorrect` | `CallbackSpec => []CallbackTypeOK` |
| `FeishuCallbackProofs!CallbackUsesCache` | `CallbackSpec => Spec`, that of `DedupCache` |
| `FeishuCallbackProofs!CallbackRefusesExactly` | `CallbackSpec => []RefusesExactlyWindow` |
| `FeishuCallbackProofs!CredentialsAlwaysFit` | `CallbackSpec => []CredentialsFit` |
| `FeishuCallbackProofs!AnsweredAlwaysHandled` | `CallbackSpec => []AnsweredWasHandled` |
| `FeishuCallbackProofs!HandlingsAreBounded` | `CallbackSpec => []HandlingsBounded` |
| `GroupChatProofs!TypeCorrect` | `Spec => []TypeOK` |
| `GroupChatProofs!ReleasedStaysReleased` | `Spec => []ReleasedNotRecorded` |
| `GroupChatProofs!TasksAreSpaced` | `Spec => []TasksSpaced` |
| `GroupChatProofs!SecondChatsHaveCause` | `Spec => []SecondChatHasCause` |
| `GroupChatProofs!UnrecordedHaveCause` | `Spec => []UnrecordedHasCause` |
| `GroupChatProofs!ErasesOwn` | `Spec => ErasesOwnChat` |
| `GroupMembersProofs!MembersUseGroupChat` | `MembersSpec => Spec`, that of `GroupChat` |
| `GroupMembersProofs!MembersTypeCorrect` | `MembersSpec => []MembersTypeOK` |
| `GroupMembersProofs!CardsMatchMembers` | `MembersSpec => []CardMatchesMembers` |
| `GroupMembersProofs!MembersReleaseForGood` | `MembersSpec => []ReleasedNotRecorded` |
| `GroupMembersProofs!MembersSecondChatsHaveCause` | `MembersSpec => [](SecondChatHasCause /\ UnrecordedHasCause)` |
| `MuteFlowProofs!TypeCorrect` | `Spec => []TypeOK` |
| `MuteFlowProofs!MutesAreReal` | `Spec => []MutedMeansRuleMade` |
| `MuteFlowProofs!DeletionsAreReal` | `Spec => []DeletedMeansGone` |
| `MuteFlowProofs!UnmutesAreFinal` | `Spec => []UnmuteIsFinal` |
| `AIAnalysisProofs!AnalysisTypeCorrect` | `Spec => []AnalysisTypeOK` |
| `AIAnalysisProofs!AnalysesAreSpaced` | `Spec => []RunningSpaced` |
| `AIAnalysisProofs!RunsSoundly` | `Spec => []ConfigSound` |
| `AIAnalysisProofs!CardsAreTruthful` | `Spec => []CardTruthful` |
| `AIAnalysisProofs!AnswersShown` | `Spec => []AnswerShown` |
| `AIAnalysisProofs!OverlapsBounded` | `Spec => []OverlapBounded` |

They hold for any number of goroutines, replicas, tokens, operators, chats, alerts, rules, attempts, events and
crashes, any TTL, window and timeout, with and without I/O errors, unless the table names a hypothesis. The only other
assumptions are the named ones of the modules: the types of the constants, that the special contents of a file or a key
differ from each other and from entries, that no event id equals the name of a button, that the replicas are finitely many,
and that the credentials in the data of an alert, where both parts are given, are of one application.

The one theorem with hypotheses is `OneReplicaLinearizable`. `OneReplica` and `~IOErrors` mean that all goroutines are in one process and no file
operation fails, as in `file_one`. With two replicas `file_torn_served` refutes the property; a write that fails half way leaves what a
crash leaves, at a time when the abstract store has none.

*File store.* `TimestampFixed` is not inductive: a goroutine may hold, between reading
and writing, a payload that is going to be the file. The invariant `IInv` adds that
such a payload carries the timestamp too (`Stamped`), that a goroutine's
program counter, request and payload fit together (`Placed`), and that a token being
generated is known to nobody else (`Private`), so that `born` is set before
anybody can read the file. The two action properties follow: an entry is served or removed
only on the evidence of a timestamp, which `IInv` equates with `born`, compared to a
clock that is not ahead of `now`.

`OneReplicaLinearizable` goes step by step: each operation of `FileTokenStore` is a call of `TokenStore` or a stutter,
`Write`, `GCFile` and `LoadCheck` (or `LoadRead` and `UpdateRead`, if there is no file) being the moments at which they take effect. It needs to know that
nothing moves under a goroutine: `Locked` says that one writer at most has the lock, and no reader beside it, and `Held` that what a
goroutine has read, or is about to write over, is still what the directory holds. The refinement mapping lets an entry under
Update count as there until the crash that loses it.

*Redis store.* `KeysExpire` follows from what `Lifetimes` can yield. `NeverDeletedEarly` says how much of its life a token can lose:
an Update that comes more than half a second after the last SET may round the rest down by up to half a second, so that a token
that is updated again and again at that distance ages almost twice as fast, but none ages faster (`Timed`, over any
interleaving of Updates and any resolution of the clock, and also when a SET is carried out late). `RedisKeepsPromise` maps each command to a step of
`RetriedTokenStore` or a stutter, the GET of an Update being `Find` and its SET `Update`. It rests on an invariant about all that is in Redis, on its way there or read by an Update: in the shared fields
that no patch sets it is what the token was registered with (`LikeBase`). The other shared fields every Update sets anew.
So two Updates of the same token may read, read, set and set, with strays in between, and
still each changes no more than its patch, because each sets every shared field that another might have changed. This is why the missing lock does no harm here; it would as soon as a field
was read back that only some of the patches set.

*Dedup.* `Remembers` relates each entry of the map to the time of the last acceptance: if
the map has no entry, that time is out of the window, else it is the entry. The
sweep removes exactly what may be removed.

*Callbacks.* Every step of `FeishuCallback` is one of `DedupCache` or leaves the cache alone, so that `RefusesExactly` carries over.
For `AnsweredWasHandled` the invariant follows an event from the mark in the cache to its handler: a key in the cache of a replica
is that of an event which is being handled, or was, or died with a process. `HandlingsAreBounded` counts without induction over data: the
invariant says that there is a set of pairs, as large as the number of handlings, of the life of a process that took the click up and of
its *epoch*, the number of whole windows in the clock (`Booked`). A new handling adds a new pair, because `RefusesExactlyWindow`
keeps it more than a window from the last one in the same life, and a restart begins a life that has no pairs. The bound is then the
number of lives times that of epochs.

*Group chat.* A chat gets into an entry only by the creation that has made it, which
records it once, and is released only by a dismissal that has found it in the
entry, or by the end of the creation before it is written. The invariant says that a chat a creation is still going to record is in no entry,
no snapshot and no other job, so that it cannot have been released.

`TasksAreSpaced` needs `Spacing`: the cache of a replica still holds the time of each task's start, or a later one, or nothing because the window is over
(`Remembered`), so that a click let through comes more than a window after it.

For `SecondChatsHaveCause`, `UnrecordedHaveCause` and `ErasesOwn` the invariant `Sequential` holds of every token that is not in `raced`. Between the start of a task and the
write-back the entry holds what the task has in its snapshot: no chat for a creation, its chat for a dismissal, or nothing at all if it has expired (`Busy`). No two tasks
of one button are that far at once, nor, while there is an entry, are a creation and a dismissal, because the snapshots of the two differ. So a creation makes
its chat when no other live chat is in the entry or on the way there (`Coming`), and a live chat is in the entry, in the hands of the task that made it, or
released. A start on an overtaken click is the only step that breaks this, and it puts the token into `raced`.

*Members.* The refinement makes the theorems about `GroupChat` available. `CardMatchesMembers` is then a matter of each
task's own chat: the invariant says that no two tasks have made the same one (`Own`), that nobody is in a chat which does not
exist (`Empty`), and what a task may believe at each of its steps (`Knows`).

*Mute.* `UnmuteIsFinal` needs to know what a deletion under way is going to achieve: `Sweeps`
says that, while nobody mutes the alert, every mute of it that exists is still to be deleted
or has failed, so that none is left when both sets are empty. `Quiet` keeps creations away
from a cleared alert. `Rests` and `GoesOn` say what the step of one worker leaves alone in the others.

*AI analysis.* A task that is under way was noted in the cache when it began, and the cache still holds that time, a later
one, or nothing because the window is over; so the next task for the reader begins after the window. `ConfigSound` is a
case analysis over the strategies. `CardsAreTruthful` follows the loop of `Analyze`: `AskedUpTo` says how many of the providers of the
chain have been asked, `Truthful` what that means for the card. `OverlapsBounded` needs an account of time: `Spent` bounds how long an
analysis has lasted by the requests it has made, so that none lasts longer than `LongestTask`. Two that are under
way together began more than a window apart, so the quotients of their ages by the window differ, and there are no more
such quotients than the bound allows.

The invariants were checked by TLC, on the runs or on smaller instances, before they were proved. Every safety property of a run that passes
is proved. Only model-checked are

* the liveness properties `CallReturns`, `ExpiredCollected`, `ClickEnds` and `AnalysisEnds`: fairness and ENABLED are out of reach
  of the prover;
* the properties that fail, for which a counterexample is what there is to show.

`NotBeforeHalf` is stated in the proof module only; TLC has checked it too.

## 5. Not modelled

* The upstream services (N9E core, pushgw, edge, the aggregation engine): not in this repository.
* Cards, logging and HTTP parsing: no state. The command line: wiring. Prompts and the wording of answers.
* The window of a mute (`calculateMuteTime`, `handlers.go` 883-900) and the delays between the attempts of `doWithRetry`: `MuteFlow` has no
  clock. A mute counts from the trigger time of the alert, so that one clicked late may be over when it is made; the card does not tell, and
  no comment or test says what it should do.
* The parsing of environment variables: `Configs` holds what it can result in, as far as the decisions look at it.
* A SET of Redis that is carried out late, in the modules above the store: `GroupChat` has Updates that fail, but none that takes effect after the
  call has returned. Such a one could put a chat back into the entry that a dismissal has taken off. `RedisTokenStore` has it.
* The tasks that handlers have started, in the lifecycle of a process: `Exit` and `Kill` end them without further ado. What that leaves behind is the
  subject of the crashes in `GroupChat`, `GroupMembers` and `AIAnalysis`.
* Torn writes that parse: the encoder writes an entry with one call, shorter than a page.
* Time goes by in whole seconds, as `time.Now().Unix()` does; clocks of replicas agree.
* Feishu as a whole: only which chats exist and who is in them. Requests are refused, or their reply is lost; a reply of code 0 is taken
  to mean that everything asked was done. Who becomes an administrator or the owner of a chat is not followed.
* An AI_TIMEOUT that is not positive, with which `http.Client` waits without limit.
* What remains of the components is in section 6.

## 6. Plan

What is left, in this order:

1. A clock for `MuteFlow`: the window of a mute against the moment of the click, and the delays of the attempts against the life of a card.
2. The trigger of an analysis and the callbacks of the three buttons composed with `FeishuCallback`, in place of handlers that only end.
