------------------------- MODULE FileTokenStoreProofs -------------------------
(***************************************************************************)
(* For every number of goroutines, replicas, crashes and I/O errors: the   *)
(* file store is well typed, a file keeps the timestamp of its token, no   *)
(* expired token is served and no live entry is removed; and one replica   *)
(* whose file system works implements the abstract token store.            *)
(***************************************************************************)
EXTENDS FileTokenStore, TLAPS

(***************************************************************************)
(* The inductive invariant.                                                *)
(***************************************************************************)
Holding == {"load_check", "upd_create", "write"}  \* where mem[p] is in use

\* What a goroutine is about follows from where it stands.
Placed(p) ==
  /\ pc[p] \in {"idle", "gc"} => req[p] = Idle
  /\ pc[p] = "load_check" => req[p].op = "load"
  /\ pc[p] = "upd_create" => req[p].op = "update"
  /\ pc[p] = "write" => req[p].op \in {"gen", "update"}
  /\ pc[p] \in Holding => mem[p] \in Entry
  /\ p \in Collectors => req[p] = Idle
  /\ scan[p].at <= now

\* A token that is being generated is nobody else's business yet.
Private(p) ==
  /\ req[p].op = "gen" =>
       /\ req[p].tok \notin issued
       /\ ~Whole(req[p].tok)
       /\ \A q \in Procs : req[q].op = "gen" /\ req[q].tok = req[p].tok => q = p
  /\ req[p].op \in {"load", "update"} => req[p].tok \in issued

\* Every copy of an entry, in the directory and in memory, has the timestamp
\* that its token was generated with.
Stamped(p) == pc[p] \in Holding => mem[p].ts = born[req[p].tok]

IInv ==
  /\ TypeOK
  /\ TimestampFixed
  /\ \A p \in Procs : Placed(p) /\ Private(p) /\ Stamped(p)

(***************************************************************************)
(* Lemmas about the operators.                                             *)
(***************************************************************************)
\* The kind of a call determines the fields of its request.
LEMMA RequestFields ==
  ASSUME NEW rq \in Request
  PROVE  /\ rq.op \in {"idle", "gen", "load", "update"}
         /\ rq.op = "idle" => rq = Idle
         /\ rq.op # "idle" => rq.tok \in Tokens
         /\ rq.op = "gen" => rq.arg \in Registered
         /\ rq.op = "update" => rq.arg \in Patches
BY DEF Request, Idle

\* A patch keeps the timestamp and the type of an entry.
LEMMA MergeType ==
  ASSUME NEW e \in Entry, NEW patch \in Patches
  PROVE  /\ [e EXCEPT !.data = Merge(@, patch)] \in Entry
         /\ [e EXCEPT !.data = Merge(@, patch)].ts = e.ts
<1>1. Merge(e.data, patch) \in Data
  BY TokenCallsAssumption DEF TokenCallsAssumption, Merge, Entry, Data
<1> QED
  BY <1>1 DEF Entry

\* What goroutine p writes is an entry with the timestamp of its token.
LEMMA PayloadType ==
  ASSUME NEW p \in Procs, TypeOK, Placed(p), pc[p] = "write"
  PROVE  Payload(p) \in Entry /\ Payload(p).ts = mem[p].ts
<1>1. mem[p] \in Entry /\ req[p] \in Request /\ req[p].op \in {"gen", "update"}
  BY DEF TypeOK, Placed, Holding
<1>2. CASE req[p].op = "gen"
  BY <1>1, <1>2 DEF Payload
<1>3. CASE req[p].op = "update"
  BY <1>1, <1>3, RequestFields, MergeType DEF Payload
<1> QED
  BY <1>1, <1>2, <1>3

\* A write leaves an entry of the writer's, a file that does not parse, or what
\* was there.
LEMMA WrittenContent ==
  ASSUME NEW p \in Procs, NEW t \in Tokens, NEW c \in Written(p, t)
  PROVE  c \in {Payload(p), Garbage, files[t]}
BY DEF Written

\* The contents that a whole file is not.
LEMMA ContentDistinct ==
  /\ Absent \notin Entry /\ Empty \notin Entry /\ Garbage \notin Entry
  /\ Absent # Empty /\ Absent # Garbage
BY FileTokenStoreAssumption DEF FileTokenStoreAssumption

\* The steps of the store, by the operation they belong to.
LEMMA Steps ==
  ASSUME [Next]_vars
  PROVE  \/ \E p \in Procs :
              \/ AnnounceLock(p) \/ GCFile(p) \/ GCEnd(p)
              \/ p \in Servers /\ (Call(p) \/ GenCreate(p) \/ LoadRead(p) \/ LoadCheck(p))
              \/ p \in Servers /\ (UpdateRead(p) \/ UpdateCreate(p) \/ Write(p))
              \/ p \in Collectors /\ GCStart(p)
         \/ \E r \in Replicas : Crash(r)
         \/ Tick
         \/ UNCHANGED vars
BY FileTokenStoreAssumption DEF FileTokenStoreAssumption, Next, Serve, GC, Servers

(***************************************************************************)
(* Type correctness.                                                       *)
(***************************************************************************)
\* A call that returns leaves its goroutine well typed.
LEMMA ReturnType ==
  ASSUME NEW p \in Procs, NEW result \in Result, TypeOK, Return(p, result)
  PROVE  /\ req' \in [Procs -> Request]
         /\ res' \in [Procs -> Result]
         /\ pc' \in [Procs -> {"idle", "start", "load_check"} \cup Writing]
         /\ mem' \in [Procs -> Entry \cup {Absent}]
BY DEF TypeOK, Return, Request

\* os.Remove and os.Create leave the directory well typed.
LEMMA DirectoryType ==
  ASSUME NEW p \in Procs, NEW t \in Tokens, TypeOK,
         Create(p, t) \/ RemoveMayFail(t) \/ UNCHANGED <<files, attached>>
  PROVE  files' \in [Tokens -> Content] /\ attached' \subseteq Procs
BY DEF TypeOK, Create, RemoveMayFail, Remove, Content

\* The results that calls return.
LEMMA ResultType ==
  /\ Done \in Result /\ Failed \in Result
  /\ \A e \in Entry : Found(e.data) \in Result
BY DEF Result, Done, Failed, Found, Entry

\* Every step of the store keeps its variables well typed.
LEMMA TypeStep ==
  ASSUME TypeOK, \A p \in Procs : Placed(p), [Next]_vars
  PROVE  TypeOK'
<1>1. ASSUME NEW p \in Procs, AnnounceLock(p)
      PROVE  TypeOK'
  BY <1>1 DEF AnnounceLock, TypeOK, Writing
<1>2. ASSUME NEW p \in Procs, Call(p)
      PROVE  TypeOK'
  <2>1. req' \in [Procs -> Request]
    BY <1>2 DEF Call, TypeOK, Request
  <2> QED
    BY <1>2, <2>1 DEF Call, TypeOK
<1>3. ASSUME NEW p \in Procs, GenCreate(p)
      PROVE  TypeOK'
  <2> DEFINE t == req[p].tok
  <2>1. req[p] \in Request /\ t \in Tokens /\ req[p].arg \in Data
    BY <1>3, RequestFields, TokenCallsAssumption
    DEF GenCreate, TypeOK, TokenCallsAssumption
  <2>2. born' \in [Tokens -> Nat \cup {NotBorn}]
    BY <1>3 DEF GenCreate, TypeOK
  <2>3. files' \in [Tokens -> Content] /\ attached' \subseteq Procs
    BY <1>3, <2>1, DirectoryType DEF GenCreate
  <2>4. CASE Return(p, Done) /\ issued' = issued \cup {t}
    BY <1>3, <2>1, <2>2, <2>3, <2>4, ReturnType, ResultType DEF GenCreate, TypeOK
  <2>5. CASE /\ mem' = [mem EXCEPT ![p] = [ts |-> now, data |-> req[p].arg]]
             /\ pc' = [pc EXCEPT ![p] = "write"]
             /\ UNCHANGED <<issued, req, res>>
    <3>1. mem' \in [Procs -> Entry \cup {Absent}]
      BY <2>1, <2>5 DEF TypeOK, Entry
    <3> QED
      BY <1>3, <2>2, <2>3, <2>5, <3>1 DEF GenCreate, TypeOK, Writing
  <2> QED
    BY <1>3, <2>4, <2>5 DEF GenCreate
<1>4. ASSUME NEW p \in Procs, LoadRead(p) \/ UpdateRead(p)
      PROVE  TypeOK'
  <2> DEFINE t == req[p].tok
  <2>1. CASE Return(p, Failed)
    BY <1>4, <2>1, ReturnType, ResultType DEF LoadRead, UpdateRead, TypeOK
  <2>2. CASE /\ Whole(t)
             /\ mem' = [mem EXCEPT ![p] = files[t]]
             /\ pc' = [pc EXCEPT ![p] = "load_check"] \/ pc' = [pc EXCEPT ![p] = "upd_create"]
             /\ UNCHANGED <<req, res>>
    BY <1>4, <2>2 DEF LoadRead, UpdateRead, TypeOK, Whole, Writing
  <2> QED
    BY <1>4, <2>1, <2>2 DEF LoadRead, UpdateRead
<1>5. ASSUME NEW p \in Procs, LoadCheck(p)
      PROVE  TypeOK'
  <2>1. mem[p] \in Entry /\ req[p].tok \in Tokens
    BY <1>5, RequestFields DEF LoadCheck, Placed, Holding, TypeOK
  <2>2. files' \in [Tokens -> Content] /\ attached' \subseteq Procs
    BY <1>5, <2>1, DirectoryType DEF LoadCheck
  <2>3. \E result \in Result : Return(p, result)
    BY <1>5, <2>1, ResultType DEF LoadCheck
  <2> QED
    BY <1>5, <2>2, <2>3, ReturnType DEF LoadCheck, TypeOK
<1>6. ASSUME NEW p \in Procs, UpdateCreate(p)
      PROVE  TypeOK'
  <2>1. req[p].tok \in Tokens
    BY <1>6, RequestFields DEF UpdateCreate, Placed, TypeOK
  <2>2. files' \in [Tokens -> Content] /\ attached' \subseteq Procs
    BY <1>6, <2>1, DirectoryType DEF UpdateCreate
  <2>3. CASE Return(p, Failed)
    BY <1>6, <2>2, <2>3, ReturnType, ResultType DEF UpdateCreate, TypeOK
  <2>4. CASE pc' = [pc EXCEPT ![p] = "write"] /\ UNCHANGED <<req, res, mem>>
    BY <1>6, <2>2, <2>4 DEF UpdateCreate, TypeOK, Writing
  <2> QED
    BY <1>6, <2>3, <2>4 DEF UpdateCreate
<1>7. ASSUME NEW p \in Procs, Write(p)
      PROVE  TypeOK'
  <2>1. req[p].tok \in Tokens
    BY <1>7, RequestFields DEF Write, Placed, TypeOK
  <2>2. files' \in [Tokens -> Content]
    BY <1>7, <2>1, PayloadType, WrittenContent DEF Write, TypeOK, Content
  <2>3. Done \in Result
    BY ResultType
  <2> QED
    BY <1>7, <2>1, <2>2, <2>3, ReturnType DEF Write, TypeOK
<1>8. ASSUME NEW p \in Procs, GCStart(p)
      PROVE  TypeOK'
  BY <1>8 DEF GCStart, TypeOK, Writing
<1>9. ASSUME NEW p \in Procs, GCFile(p)
      PROVE  TypeOK'
  <2>1. files' \in [Tokens -> Content] /\ attached' \subseteq Procs
    BY <1>9, DirectoryType DEF GCFile, TypeOK
  <2>2. scan' \in [Procs -> [at: Nat, todo: SUBSET Tokens]]
    BY <1>9 DEF GCFile, TypeOK
  <2> QED
    BY <1>9, <2>1, <2>2 DEF GCFile, TypeOK
<1>10. ASSUME NEW p \in Procs, GCEnd(p)
       PROVE  TypeOK'
  BY <1>10 DEF GCEnd, TypeOK, NoScan
<1>11. ASSUME NEW r \in Replicas, Crash(r)
       PROVE  TypeOK'
  BY <1>11, ResultType DEF Crash, TypeOK, NoScan, Request
<1>12. ASSUME Tick
       PROVE  TypeOK'
  BY <1>12 DEF Tick, TypeOK
<1>13. CASE UNCHANGED vars
  BY <1>13 DEF vars, TypeOK
<1> QED
  BY Steps, <1>1, <1>2, <1>3, <1>4, <1>5, <1>6, <1>7, <1>8, <1>9, <1>10, <1>11, <1>12, <1>13

(***************************************************************************)
(* The inductive invariant holds at every step.                            *)
(***************************************************************************)
\* Every step leaves every goroutine with the request and the payload that its
\* place calls for.
LEMMA PlacedStep ==
  ASSUME TypeOK, \A p \in Procs : Placed(p), [Next]_vars, NEW q \in Procs
  PROVE  Placed(q)'
<1> USE DEF Placed, Holding
<1>0. Placed(q) /\ TypeOK /\ Idle.op = "idle"
  BY DEF Idle
<1>1. ASSUME NEW p \in Procs, AnnounceLock(p)
      PROVE  Placed(q)'
  BY <1>0, <1>1 DEF AnnounceLock, TypeOK
<1>2. ASSUME NEW p \in Procs, p \in Servers, Call(p)
      PROVE  Placed(q)'
  BY <1>0, <1>2 DEF Call, TypeOK, Servers
<1>3. ASSUME NEW p \in Procs, p \in Servers, GenCreate(p)
      PROVE  Placed(q)'
  <2>1. req[p] \in Request /\ req[p].arg \in Data
    BY <1>3, RequestFields, TokenCallsAssumption
    DEF GenCreate, TypeOK, TokenCallsAssumption
  <2>2. CASE Return(p, Done)
    BY <1>0, <1>3, <2>2 DEF GenCreate, Return, TypeOK
  <2>3. CASE /\ mem' = [mem EXCEPT ![p] = [ts |-> now, data |-> req[p].arg]]
             /\ pc' = [pc EXCEPT ![p] = "write"]
             /\ UNCHANGED <<issued, req, res>>
    BY <1>0, <1>3, <2>1, <2>3 DEF GenCreate, TypeOK, Entry
  <2> QED
    BY <1>3, <2>2, <2>3 DEF GenCreate
<1>4. ASSUME NEW p \in Procs, LoadRead(p)
      PROVE  Placed(q)'
  BY <1>0, <1>4 DEF LoadRead, Return, TypeOK, Whole
<1>5. ASSUME NEW p \in Procs, UpdateRead(p)
      PROVE  Placed(q)'
  BY <1>0, <1>5 DEF UpdateRead, Return, TypeOK, Whole
<1>6. ASSUME NEW p \in Procs, LoadCheck(p) \/ Write(p)
      PROVE  Placed(q)'
  BY <1>0, <1>6 DEF LoadCheck, Write, Return, TypeOK
<1>7. ASSUME NEW p \in Procs, UpdateCreate(p)
      PROVE  Placed(q)'
  BY <1>0, <1>7 DEF UpdateCreate, Return, TypeOK
<1>8. ASSUME NEW p \in Procs, p \in Collectors, GCStart(p)
      PROVE  Placed(q)'
  BY <1>0, <1>8 DEF GCStart, TypeOK
<1>9. ASSUME NEW p \in Procs, GCFile(p)
      PROVE  Placed(q)'
  BY <1>0, <1>9 DEF GCFile, TypeOK
<1>10. ASSUME NEW p \in Procs, GCEnd(p)
       PROVE  Placed(q)'
  BY <1>0, <1>10 DEF GCEnd, TypeOK, NoScan
<1>11. ASSUME NEW r \in Replicas, Crash(r)
       PROVE  Placed(q)'
  BY <1>0, <1>11 DEF Crash, TypeOK, NoScan
<1>12. ASSUME Tick
       PROVE  Placed(q)'
  BY <1>0, <1>12 DEF Tick, TypeOK
<1>13. CASE UNCHANGED vars
  BY <1>0, <1>13 DEF vars
<1> QED
  BY Steps, <1>1, <1>2, <1>3, <1>4, <1>5, <1>6, <1>7, <1>8, <1>9, <1>10, <1>11, <1>12, <1>13

\* A step that makes, writes and completes no call of GenToken leaves the tokens
\* being generated private.
LEMMA PrivateKept ==
  ASSUME IInv, NEW q \in Procs,
         \A p \in Procs : req'[p] \in {req[p], Idle},
         issued' = issued,
         \A t \in Tokens : Whole(t)' => Whole(t)
  PROVE  Private(q)'
<1>1. Idle.op = "idle" /\ Private(q) /\ req[q] \in Request
  BY DEF Idle, IInv, TypeOK
<1> QED
  BY <1>1, RequestFields DEF Private

\* Every step keeps the tokens being generated private.
LEMMA PrivateStep ==
  ASSUME IInv, [Next]_vars, NEW q \in Procs
  PROVE  Private(q)'
<1>0. /\ Idle.op = "idle"
      /\ TypeOK
      /\ \A p \in Procs : Private(p) /\ Placed(p) /\ req[p] \in Request
  BY DEF Idle, IInv, TypeOK
<1>1. ASSUME NEW p \in Procs, AnnounceLock(p)
      PROVE  Private(q)'
  BY <1>1, PrivateKept DEF AnnounceLock, Whole
<1>2. ASSUME NEW p \in Procs, Call(p)
      PROVE  Private(q)'
  <2>1. CASE \E t \in Tokens, d \in Registered :
               /\ Fresh(t)
               /\ req' = [req EXCEPT ![p] = [op |-> "gen", tok |-> t, arg |-> d, at |-> now]]
    BY <1>0, <1>2, <2>1, ContentDistinct DEF Call, Fresh, Private, Whole, TypeOK
  <2>2. CASE \E t \in issued :
               \/ req' = [req EXCEPT ![p] = [op |-> "load", tok |-> t]]
               \/ \E patch \in Patches :
                    req' = [req EXCEPT ![p] = [op |-> "update", tok |-> t, arg |-> patch]]
    <3>1. PICK t \in issued : /\ req'[p].op \in {"load", "update"} /\ req'[p].tok = t
                              /\ \A r \in Procs \ {p} : req'[r] = req[r]
      BY <2>2, <1>0 DEF TypeOK
    <3> QED
      BY <1>0, <1>2, <3>1 DEF Call, Private, Whole
  <2> QED
    BY <1>2, <2>1, <2>2 DEF Call
<1>3. ASSUME NEW p \in Procs, GenCreate(p)
      PROVE  Private(q)'
  <2> DEFINE t == req[p].tok
  <2>1. req[p].op = "gen" /\ t \in Tokens
    BY <1>0, <1>3, RequestFields DEF GenCreate
  <2>2. CASE Create(p, t) /\ UNCHANGED <<issued, req, res>>
    BY <1>3, <2>1, <2>2, PrivateKept, ContentDistinct, <1>0 DEF Create, Whole, TypeOK
  <2>3. CASE issued' = issued \cup {t} /\ Return(p, Done) /\ UNCHANGED files
    BY <1>0, <2>1, <2>3 DEF Return, Private, Whole, TypeOK
  <2> QED
    BY <1>3, <2>2, <2>3 DEF GenCreate
<1>4. ASSUME NEW p \in Procs, LoadRead(p) \/ UpdateRead(p)
      PROVE  Private(q)'
  BY <1>0, <1>4, PrivateKept DEF LoadRead, UpdateRead, Return, Whole, TypeOK
<1>5. ASSUME NEW p \in Procs, LoadCheck(p) \/ UpdateCreate(p) \/ GCFile(p)
      PROVE  Private(q)'
  <2>1. \A t \in Tokens : Whole(t)' => Whole(t)
    BY <1>0, <1>5, ContentDistinct
    DEF LoadCheck, UpdateCreate, GCFile, RemoveMayFail, Remove, Create, Whole, TypeOK
  <2> QED
    BY <1>0, <1>5, <2>1, PrivateKept DEF LoadCheck, UpdateCreate, GCFile, Return, TypeOK
<1>6. ASSUME NEW p \in Procs, Write(p)
      PROVE  Private(q)'
  <2> DEFINE t == req[p].tok
  <2>1. /\ req[p].op \in {"gen", "update"} /\ t \in Tokens
        /\ req' = [req EXCEPT ![p] = Idle]
        /\ issued' = IF req[p].op = "gen" THEN issued \cup {t} ELSE issued
        /\ \A u \in Tokens \ {t} : files'[u] = files[u]
    BY <1>0, <1>6, RequestFields DEF Write, Placed, Return, TypeOK
  <2>2. q # p /\ req[q].op = "gen" => req[q].tok # t
    BY <1>0, <2>1 DEF Private
  <2> QED
    BY <1>0, <2>1, <2>2, RequestFields DEF Private, Whole, TypeOK
<1>7. ASSUME NEW p \in Procs, GCStart(p) \/ GCEnd(p)
      PROVE  Private(q)'
  BY <1>7, PrivateKept DEF GCStart, GCEnd, Whole
<1>8. ASSUME NEW r \in Replicas, Crash(r)
      PROVE  Private(q)'
  BY <1>8, PrivateKept DEF Crash, Whole
<1>9. CASE Tick \/ UNCHANGED vars
  BY <1>9, PrivateKept DEF Tick, vars, Whole
<1> QED
  BY Steps, <1>1, <1>2, <1>3, <1>4, <1>5, <1>6, <1>7, <1>8, <1>9

\* A step that generates nothing and writes nothing leaves every copy stamped.
LEMMA StampKept ==
  ASSUME IInv, born' = born,
         \A p \in Procs : \/ pc'[p] \notin Holding
                          \/ pc'[p] = pc[p] /\ mem'[p] = mem[p] /\ req'[p] = req[p]
                          \/ pc[p] \in Holding /\ mem'[p] = mem[p] /\ req'[p] = req[p],
         \A t \in Tokens : Whole(t)' => files'[t] = files[t]
  PROVE  TimestampFixed' /\ \A p \in Procs : Stamped(p)'
BY DEF IInv, TimestampFixed, Stamped, Whole

\* Every step leaves every copy of an entry with the timestamp of its token.
LEMMA StampStep ==
  ASSUME IInv, [Next]_vars
  PROVE  TimestampFixed' /\ \A p \in Procs : Stamped(p)'
<1> DEFINE Goal == TimestampFixed' /\ \A p \in Procs : Stamped(p)'
<1>0. /\ TypeOK
      /\ TimestampFixed
      /\ \A p \in Procs : Private(p) /\ Placed(p) /\ Stamped(p) /\ req[p] \in Request
  BY DEF IInv, TypeOK
<1>1. ASSUME NEW p \in Procs, AnnounceLock(p) \/ Call(p)
      PROVE  Goal
  BY <1>0, <1>1, StampKept DEF AnnounceLock, Call, Whole, TypeOK, Holding
<1>2. ASSUME NEW p \in Procs, GenCreate(p)
      PROVE  Goal
  <2> DEFINE t == req[p].tok
  <2>1. /\ req[p].op = "gen" /\ t \in Tokens /\ pc[p] = "lock"
        /\ born' = [born EXCEPT ![t] = now]
        /\ ~Whole(t)
        /\ \A u \in Tokens : Whole(u)' => files'[u] = files[u]
    BY <1>0, <1>2, RequestFields, ContentDistinct
    DEF GenCreate, CanLock, Create, Private, Whole, TypeOK
  <2>2. \A q \in Procs : pc[q] \in Holding => req[q].tok # t
    BY <1>0, <2>1 DEF Private, Placed, Holding
  <2>3. \A q \in Procs : pc[q] \in Holding => req[q].tok \in Tokens
    BY <1>0, RequestFields DEF Placed, Holding
  <2>4. TimestampFixed'
    BY <1>0, <2>1 DEF TimestampFixed, Whole, TypeOK
  <2>5. \A q \in Procs \ {p} : Stamped(q)'
    <3>1. \A q \in Procs \ {p} : pc'[q] = pc[q] /\ mem'[q] = mem[q] /\ req'[q] = req[q]
      BY <1>0, <1>2 DEF GenCreate, Return, TypeOK
    <3> QED
      BY <1>0, <2>1, <2>2, <2>3, <3>1 DEF Stamped, TypeOK
  <2>6. Stamped(p)'
    <3>1. CASE Return(p, Done)
      BY <1>0, <3>1 DEF Return, Stamped, Holding, TypeOK
    <3>2. CASE mem' = [mem EXCEPT ![p] = [ts |-> now, data |-> req[p].arg]] /\ req' = req
      BY <1>0, <2>1, <3>2 DEF Stamped, TypeOK
    <3> QED
      BY <1>2, <3>1, <3>2 DEF GenCreate
  <2> QED
    BY <2>4, <2>5, <2>6
<1>3. ASSUME NEW p \in Procs, LoadRead(p) \/ UpdateRead(p)
      PROVE  Goal
  <2> DEFINE t == req[p].tok
  <2>1. t \in Tokens /\ born' = born /\ files' = files
    BY <1>0, <1>3, RequestFields DEF LoadRead, UpdateRead
  <2>2. CASE Return(p, Failed)
    BY <1>0, <1>3, <2>1, <2>2, StampKept DEF Return, Whole, TypeOK, Holding
  <2>3. CASE /\ Whole(t) /\ req' = req
             /\ mem' = [mem EXCEPT ![p] = files[t]]
             /\ pc' = [pc EXCEPT ![p] = "load_check"] \/ pc' = [pc EXCEPT ![p] = "upd_create"]
    BY <1>0, <2>1, <2>3 DEF TimestampFixed, Stamped, Whole, TypeOK, Holding
  <2> QED
    BY <1>3, <2>2, <2>3 DEF LoadRead, UpdateRead
<1>4. ASSUME NEW p \in Procs, LoadCheck(p) \/ UpdateCreate(p) \/ GCFile(p)
      PROVE  Goal
  <2>1. \A t \in Tokens : Whole(t)' => files'[t] = files[t]
    BY <1>0, <1>4, ContentDistinct
    DEF LoadCheck, UpdateCreate, GCFile, RemoveMayFail, Remove, Create, Whole, TypeOK
  <2> QED
    BY <1>0, <1>4, <2>1, StampKept DEF LoadCheck, UpdateCreate, GCFile, Return, TypeOK, Holding
<1>5. ASSUME NEW p \in Procs, Write(p)
      PROVE  Goal
  <2> DEFINE t == req[p].tok
  <2>1. t \in Tokens /\ born' = born /\ pc[p] = "write"
    BY <1>0, <1>5, RequestFields DEF Write, Placed
  <2>2. Payload(p).ts = born[t]
    BY <1>0, <2>1, PayloadType DEF Stamped, Holding
  <2>3. PICK c \in Written(p, t) : files' = [files EXCEPT ![t] = c]
    BY <1>5 DEF Write
  <2>4. c = Payload(p) \/ c = Garbage \/ c = files[t]
    BY <2>1, <2>3, WrittenContent
  <2>5. TimestampFixed'
    BY <1>0, <2>1, <2>2, <2>3, <2>4, ContentDistinct DEF TimestampFixed, Whole, TypeOK
  <2>6. \A q \in Procs : Stamped(q)'
    BY <1>0, <1>5, <2>1 DEF Write, Return, Stamped, TypeOK, Holding
  <2> QED
    BY <2>5, <2>6
<1>6. ASSUME NEW p \in Procs, GCStart(p) \/ GCEnd(p)
      PROVE  Goal
  BY <1>0, <1>6, StampKept DEF GCStart, GCEnd, Whole, TypeOK, Holding
<1>7. ASSUME NEW r \in Replicas, Crash(r)
      PROVE  Goal
  BY <1>0, <1>7, StampKept DEF Crash, Whole, TypeOK, Holding
<1>8. CASE Tick \/ UNCHANGED vars
  BY <1>0, <1>8, StampKept DEF Tick, vars, Whole
<1> QED
  BY Steps, <1>1, <1>2, <1>3, <1>4, <1>5, <1>6, <1>7, <1>8

\* The invariant holds initially.
LEMMA InitInvariant == Init => IInv
<1>1. Idle \in Request /\ Idle.op = "idle"
  BY DEF Idle, Request
<1> QED
  BY <1>1, ContentDistinct, ResultType
  DEF Init, IInv, TypeOK, TimestampFixed, Placed, Private, Stamped, Holding, Whole, Content,
      NoScan, NotBorn

\* The invariant holds in every reachable state.
LEMMA Invariant == Spec => []IInv
<1>1. IInv /\ [Next]_vars => IInv'
  BY TypeStep, PlacedStep, PrivateStep, StampStep DEF IInv
<1> QED
  BY <1>1, InitInvariant, PTL DEF Spec

\* The variables of the file store are always well typed.
THEOREM TypeCorrect == Spec => []TypeOK
<1>1. IInv => TypeOK
  BY DEF IInv
<1> QED
  BY <1>1, Invariant, PTL

\* Whatever the replicas do to it, a file that parses has the timestamp its token
\* was generated with.
THEOREM TimestampsFixed == Spec => []TimestampFixed
<1>1. IInv => TimestampFixed
  BY DEF IInv
<1> QED
  BY <1>1, Invariant, PTL

(***************************************************************************)
(* What a step may never do.                                               *)
(***************************************************************************)
\* A Load that returns data returns it within TTL seconds of the generation.
LEMMA ServedInTime ==
  ASSUME IInv, [Next]_vars, NEW p \in Procs,
         req[p].op = "load", req'[p] = Idle, res'[p].ok
  PROVE  now - born[req[p].tok] <= TTL
<1>0. /\ TypeOK
      /\ Placed(p) /\ Stamped(p)
      /\ Idle.op = "idle" /\ ~Failed.ok
  BY DEF IInv, Idle, Failed
<1>1. req[p].tok \in Tokens /\ req' # req
  BY <1>0, RequestFields DEF TypeOK
<1>2. ASSUME NEW q \in Procs, LoadCheck(q)
      PROVE  now - born[req[p].tok] <= TTL
  <2>1. q = p
    BY <1>0, <1>2 DEF LoadCheck, Return, TypeOK
  <2>2. ~Expired(mem[p].ts)
    BY <1>0, <1>2, <2>1 DEF LoadCheck, Return, TypeOK
  <2>3. mem[p].ts = born[req[p].tok] /\ mem[p].ts \in Nat
    BY <1>0, <1>2, <2>1 DEF LoadCheck, Placed, Stamped, Holding, Entry
  <2> QED
    BY <1>0, <1>1, <2>2, <2>3, TokenCallsAssumption
    DEF Expired, TypeOK, TokenCallsAssumption
<1>3. ASSUME NEW q \in Procs, LoadRead(q)
      PROVE  FALSE
  BY <1>0, <1>3 DEF LoadRead, Return, TypeOK
<1>4. ASSUME NEW q \in Procs, GenCreate(q) \/ UpdateRead(q) \/ UpdateCreate(q) \/ Write(q)
      PROVE  FALSE
  <2>1. req[q].op # "load"
    BY <1>4, <1>0 DEF GenCreate, UpdateRead, UpdateCreate, Write, IInv, Placed
  <2> QED
    BY <1>0, <1>4, <2>1 DEF GenCreate, UpdateRead, UpdateCreate, Write, Return, TypeOK
<1>5. ASSUME NEW q \in Procs, Call(q)
      PROVE  FALSE
  <2>1. req[q] = Idle
    BY <1>5 DEF Call, IInv, Placed
  <2>2. \A r \in Procs \ {q} : req'[r] = req[r]
    BY <1>0, <1>5 DEF Call, TypeOK
  <2> QED
    BY <1>0, <2>1, <2>2
<1>6. ASSUME NEW r \in Replicas, Crash(r)
      PROVE  FALSE
  BY <1>0, <1>6 DEF Crash
<1>7. ASSUME NEW q \in Procs, AnnounceLock(q) \/ GCStart(q) \/ GCFile(q) \/ GCEnd(q)
      PROVE  FALSE
  BY <1>1, <1>7 DEF AnnounceLock, GCStart, GCFile, GCEnd
<1>8. CASE Tick \/ UNCHANGED vars
  BY <1>1, <1>8 DEF Tick, vars
<1> QED
  BY Steps, <1>2, <1>3, <1>4, <1>5, <1>6, <1>7, <1>8

\* No Load, of any replica, returns the data of a token past its TTL.
THEOREM NeverServesExpired == Spec => ExpiredNeverServed
<1>1. IInv /\ [Next]_vars =>
        [\A p \in Procs :
           LET t == req[p].tok IN
           (req[p].op = "load" /\ req'[p] = Idle /\ res'[p].ok) => now - born[t] <= TTL]_vars
  BY ServedInTime
<1> QED
  BY <1>1, Invariant, PTL DEF Spec, ExpiredNeverServed

\* A file that leaves the directory was generated more than TTL seconds before.
LEMMA RemovedLate ==
  ASSUME IInv, [Next]_vars, NEW t \in Tokens, files[t] # Absent, files'[t] = Absent
  PROVE  now - born[t] > TTL
<1>0. /\ TypeOK
      /\ TimestampFixed
      /\ \A p \in Procs : Placed(p) /\ Stamped(p) /\ req[p] \in Request
      /\ now \in Nat /\ TTL \in Nat /\ born[t] \in Nat \cup {NotBorn}
      /\ files' # files
  BY TokenCallsAssumption DEF IInv, TypeOK, TokenCallsAssumption
<1>1. ASSUME NEW p \in Procs, LoadCheck(p)
      PROVE  now - born[t] > TTL
  <2>1. Expired(mem[p].ts) /\ t = req[p].tok
    BY <1>0, <1>1, RequestFields DEF LoadCheck, RemoveMayFail, Remove, TypeOK, Placed
  <2>2. mem[p].ts = born[t]
    BY <1>0, <1>1, <2>1 DEF LoadCheck, Stamped, Holding
  <2> QED
    BY <2>1, <2>2 DEF Expired
<1>2. ASSUME NEW p \in Procs, GCFile(p)
      PROVE  now - born[t] > TTL
  <2>1. Whole(t) /\ scan[p].at - files[t].ts > TTL
    BY <1>0, <1>2 DEF GCFile, RemoveMayFail, Remove, TypeOK
  <2>2. files[t].ts = born[t] /\ files[t].ts \in Nat
    BY <1>0, <2>1 DEF TimestampFixed, Whole, Entry
  <2>3. scan[p].at <= now /\ scan[p].at \in Nat
    BY <1>0 DEF Placed, TypeOK
  <2> QED
    BY <1>0, <2>1, <2>2, <2>3
<1>3. ASSUME NEW p \in Procs, Write(p)
      PROVE  FALSE
  <2>1. Payload(p) \in Entry /\ req[p].tok \in Tokens
    BY <1>0, <1>3, PayloadType, RequestFields DEF Write, Placed
  <2> QED
    BY <1>0, <1>3, <2>1, WrittenContent, ContentDistinct DEF Write, TypeOK
<1>4. ASSUME NEW p \in Procs, GenCreate(p) \/ UpdateCreate(p)
      PROVE  FALSE
  BY <1>0, <1>4, ContentDistinct DEF GenCreate, UpdateCreate, Create, TypeOK
<1>5. ASSUME NEW p \in Procs,
             AnnounceLock(p) \/ Call(p) \/ LoadRead(p) \/ UpdateRead(p) \/ GCStart(p) \/ GCEnd(p)
      PROVE  FALSE
  BY <1>0, <1>5 DEF AnnounceLock, Call, LoadRead, UpdateRead, GCStart, GCEnd
<1>6. ASSUME NEW r \in Replicas, Crash(r)
      PROVE  FALSE
  BY <1>0, <1>6 DEF Crash
<1>7. CASE Tick \/ UNCHANGED vars
  BY <1>0, <1>7 DEF Tick, vars
<1> QED
  BY Steps, <1>1, <1>2, <1>3, <1>4, <1>5, <1>6, <1>7

\* Neither GC nor an expiry seen by Load removes an entry before its time.
THEOREM NeverRemovesLive == Spec => LiveNeverRemoved
<1>1. IInv /\ [Next]_vars =>
        [\A t \in Tokens :
           files[t] # Absent /\ files'[t] = Absent => now - born[t] > TTL]_vars
  BY RemovedLate
<1> QED
  BY <1>1, Invariant, PTL DEF Spec, LiveNeverRemoved

(***************************************************************************)
(* The refinement: one replica, whose file system works, implements the    *)
(* abstract store, whatever its goroutines do and however often it dies.   *)
(***************************************************************************)
\* All goroutines run in one process.
OneReplica == \A p, q \in Procs : Home[p] = Home[q]

\* The RWMutex: one writer waits or holds it, and then no reader does.
Locked ==
  \A p, q \in Procs :
    p # q /\ pc[p] \in Writing =>
      pc[q] \notin Writing /\ (pc[p] # "lock" => pc[q] # "load_check")

\* What a goroutine has read is in the directory as long as it holds the lock, unless
\* another reader has removed it, expired; what it writes goes to an empty file.
Held(p) ==
  LET t == req[p].tok IN
  /\ pc[p] = "load_check" => files[t] = mem[p] \/ (files[t] = Absent /\ Expired(mem[p].ts))
  /\ pc[p] = "upd_create" => files[t] = mem[p]
  /\ pc[p] = "write" => p \in attached /\ files[t] = Empty
  /\ req[p].op = "gen" => req[p].at \in Nat /\ req[p].at <= now
  /\ pc[p] = "write" /\ req[p].op = "gen" =>
       mem[p].data = req[p].arg /\ req[p].at <= mem[p].ts /\ mem[p].ts <= now

\* While a goroutine works on a file no other one does, but for readers.
LEMMA Undisturbed ==
  ASSUME OneReplica, Locked, NEW p \in Procs, NEW q \in Procs, p # q, pc[q] \in Holding
  PROVE  /\ ~CanLock(p) /\ pc[p] \notin {"upd_create", "write", "gc"}
         /\ pc[p] = "load_check" => pc[q] = "load_check"
BY DEF Locked, CanLock, Holding, Writing, OneReplica

\* A goroutine that does not take the lock leaves it as it is.
LEMMA LockKept ==
  ASSUME Locked, NEW p \in Procs,
         \A q \in Procs \ {p} : pc'[q] = pc[q],
         \/ pc'[p] \notin Writing \cup {"load_check"}
         \/ pc'[p] = pc[p]
         \/ pc'[p] \in Writing /\ pc[p] \in Writing /\ pc[p] # "lock"
  PROVE  Locked'
BY DEF Locked, Writing

\* A goroutine goes on or returns, and the others stay where they are.
LEMMA OthersStay ==
  ASSUME TypeOK, NEW p \in Procs,
         \/ \E l \in {"idle", "start", "load_check"} \cup Writing : pc' = [pc EXCEPT ![p] = l]
         \/ \E result : Return(p, result)
         \/ pc' = pc
  PROVE  \A q \in Procs \ {p} : pc'[q] = pc[q]
BY DEF TypeOK, Return

\* Every step keeps the mutex exclusive.
LEMMA LockedStep ==
  ASSUME OneReplica, TypeOK, Locked, [Next]_vars
  PROVE  Locked'
<1>1. ASSUME NEW p \in Procs, AnnounceLock(p)
      PROVE  Locked'
  <2>1. \A q \in Procs : pc[q] \notin Writing
    BY <1>1 DEF AnnounceLock, NoWriter, OneReplica
  <2>2. pc'[p] = "lock" /\ \A q \in Procs \ {p} : pc'[q] = pc[q]
    BY <1>1 DEF AnnounceLock, TypeOK
  <2> QED
    BY <2>1, <2>2 DEF Locked
<1>2. ASSUME NEW p \in Procs, GenCreate(p) \/ UpdateRead(p) \/ GCStart(p)
      PROVE  Locked'
  <2>1. /\ pc[p] = "lock" /\ \A q \in Procs : pc[q] # "load_check"
        /\ \A q \in Procs \ {p} : pc[q] \notin Writing
    BY <1>2 DEF GenCreate, UpdateRead, GCStart, CanLock, OneReplica, Locked, Writing
  <2>2. \A q \in Procs \ {p} : pc'[q] = pc[q]
    BY <1>2 DEF GenCreate, UpdateRead, GCStart, Return, TypeOK
  <2> QED
    BY <2>1, <2>2 DEF Locked
<1>3. ASSUME NEW p \in Procs, LoadRead(p)
      PROVE  Locked'
  <2>1. \A q \in Procs : pc[q] \notin Writing
    BY <1>3 DEF LoadRead, CanRLock, NoWriter, OneReplica
  <2>2. pc'[p] \notin Writing /\ \A q \in Procs \ {p} : pc'[q] = pc[q]
    BY <1>3 DEF LoadRead, Return, TypeOK, Writing
  <2> QED
    BY <2>1, <2>2 DEF Locked
<1>4. ASSUME NEW p \in Procs, Call(p) \/ LoadCheck(p) \/ Write(p) \/ GCEnd(p)
      PROVE  Locked'
  <2>1. pc'[p] \notin Writing \cup {"load_check"} /\ \A q \in Procs \ {p} : pc'[q] = pc[q]
    BY <1>4 DEF Call, LoadCheck, Write, GCEnd, Return, TypeOK, Writing
  <2> QED
    BY <2>1, LockKept
<1>5. ASSUME NEW p \in Procs, UpdateCreate(p) \/ GCFile(p)
      PROVE  Locked'
  <2>1. /\ \/ pc'[p] \notin Writing \cup {"load_check"}
           \/ pc'[p] \in Writing /\ pc[p] \in Writing /\ pc[p] # "lock"
        /\ \A q \in Procs \ {p} : pc'[q] = pc[q]
    BY <1>5 DEF UpdateCreate, GCFile, Return, TypeOK, Writing
  <2> QED
    BY <2>1, LockKept
<1>6. ASSUME NEW r \in Replicas, Crash(r)
      PROVE  Locked'
  <2>1. \A p \in Procs : pc'[p] \in {"idle", pc[p]}
    BY <1>6 DEF Crash
  <2> QED
    BY <2>1 DEF Locked, Writing
<1>7. CASE Tick \/ UNCHANGED vars
  BY <1>7 DEF Tick, vars, Locked
<1> QED
  BY Steps, <1>1, <1>2, <1>3, <1>4, <1>5, <1>6, <1>7

\* What a goroutine has in hand stays, unless a step concerns it or its file.
LEMMA HeldKept ==
  ASSUME NEW q \in Procs, Held(q), now' = now,
         \/ req'[q] = Idle /\ pc'[q] \notin Holding
         \/ /\ req'[q] = req[q]
            /\ \/ pc'[q] \notin Holding
               \/ /\ pc'[q] = pc[q] /\ mem'[q] = mem[q]
                  /\ files'[req[q].tok] = files[req[q].tok] /\ (q \in attached => q \in attached')
  PROVE  Held(q)'
<1>1. Idle.op # "gen"
  BY DEF Idle
<1> QED
  BY <1>1 DEF Held, Holding, Expired

\* Every step keeps what the goroutines have in hand.
LEMMA HeldStep ==
  ASSUME OneReplica, IInv, Locked, \A p \in Procs : Held(p), [Next]_vars
  PROVE  \A q \in Procs : Held(q)'
<1> SUFFICES ASSUME NEW q \in Procs
             PROVE  Held(q)'
  OBVIOUS
<1>0. /\ TypeOK /\ Held(q) /\ now \in Nat
      /\ \A p \in Procs : Placed(p) /\ Private(p) /\ Stamped(p) /\ req[p] \in Request
  BY DEF IInv, TypeOK
<1>1. ASSUME UNCHANGED <<now, files, attached>>, NEW p \in Procs,
             \A r \in Procs \ {p} : pc'[r] = pc[r] /\ req'[r] = req[r] /\ mem'[r] = mem[r],
             p = q => pc'[q] \notin Holding /\ (req'[q] = Idle \/ req'[q] = req[q])
      PROVE  Held(q)'
  BY <1>0, <1>1, HeldKept
<1>2. ASSUME NEW p \in Procs, AnnounceLock(p)
      PROVE  Held(q)'
  BY <1>0, <1>1, <1>2 DEF AnnounceLock, TypeOK, Holding
<1>3. ASSUME NEW p \in Procs, Call(p)
      PROVE  Held(q)'
  <2>1. CASE q # p
    BY <1>0, <1>1, <1>3, <2>1 DEF Call, TypeOK
  <2>2. CASE q = p
    <3>1. pc'[q] = "start" /\ now' = now /\ (req'[q].op = "gen" => req'[q].at = now)
      BY <1>0, <1>3, <2>2 DEF Call, TypeOK
    <3> QED
      BY <1>0, <3>1 DEF Held
  <2> QED
    BY <2>1, <2>2
<1>4. ASSUME NEW p \in Procs, GenCreate(p)
      PROVE  Held(q)'
  <2> DEFINE t == req[p].tok
  <2>1. /\ CanLock(p) /\ req[p].op = "gen" /\ t \in Tokens /\ now' = now /\ Held(p)
        /\ \A r \in Procs \ {p} : pc'[r] = pc[r] /\ req'[r] = req[r] /\ mem'[r] = mem[r]
    BY <1>0, <1>4, RequestFields DEF GenCreate, Return, TypeOK
  <2>2. CASE q # p
    <3>1. pc[q] \notin Holding
      BY <2>1, <2>2, Undisturbed
    <3> QED
      BY <1>0, <2>1, <2>2, <3>1, HeldKept
  <2>3. CASE q = p /\ Return(p, Done)
    BY <1>0, <2>1, <2>3, HeldKept DEF Return, TypeOK, Holding
  <2>4. CASE /\ q = p /\ Create(p, t) /\ req' = req
             /\ mem' = [mem EXCEPT ![p] = [ts |-> now, data |-> req[p].arg]]
             /\ pc' = [pc EXCEPT ![p] = "write"]
    <3>1. /\ pc'[q] = "write" /\ req'[q] = req[q] /\ files'[t] = Empty /\ q \in attached'
          /\ mem'[q].ts = now /\ mem'[q].data = req[q].arg
      BY <1>0, <2>1, <2>4 DEF Create, TypeOK
    <3> QED
      BY <1>0, <2>1, <2>4, <3>1 DEF Held
  <2> QED
    BY <1>4, <2>2, <2>3, <2>4 DEF GenCreate
<1>5. ASSUME NEW p \in Procs, LoadRead(p) \/ UpdateRead(p)
      PROVE  Held(q)'
  <2>1. /\ UNCHANGED <<now, files, attached>>
        /\ \A r \in Procs \ {p} : pc'[r] = pc[r] /\ req'[r] = req[r] /\ mem'[r] = mem[r]
        /\ req[p].op \in {"load", "update"}
    BY <1>0, <1>5 DEF LoadRead, UpdateRead, Return, TypeOK
  <2>2. CASE Return(p, Failed)
    BY <1>0, <1>1, <2>1, <2>2 DEF Return, TypeOK, Holding
  <2>3. CASE /\ mem' = [mem EXCEPT ![p] = files[req[p].tok]] /\ req' = req
             /\ pc' = [pc EXCEPT ![p] = "load_check"] \/ pc' = [pc EXCEPT ![p] = "upd_create"]
    <3>1. CASE q # p
      BY <1>1, <2>1, <3>1
    <3>2. CASE q = p
      BY <1>0, <2>1, <2>3, <3>2 DEF Held, TypeOK
    <3> QED
      BY <3>1, <3>2
  <2> QED
    BY <1>5, <2>2, <2>3 DEF LoadRead, UpdateRead
<1>6. ASSUME NEW p \in Procs, LoadCheck(p)
      PROVE  Held(q)'
  <2> DEFINE t == req[p].tok
  <2>1. /\ pc[p] = "load_check" /\ now' = now /\ t \in Tokens
        /\ pc'[p] = "idle" /\ req'[p] = Idle
        /\ \A r \in Procs \ {p} : pc'[r] = pc[r] /\ req'[r] = req[r] /\ mem'[r] = mem[r]
    BY <1>0, <1>6, RequestFields DEF LoadCheck, Return, TypeOK, Placed
  <2>2. CASE q = p
    BY <1>0, <2>1, <2>2, HeldKept DEF Holding
  <2>3. CASE q # p /\ pc[q] \notin Holding
    BY <1>0, <2>1, <2>3, HeldKept
  <2>4. CASE q # p /\ pc[q] \in Holding
    <3>1. pc[q] = "load_check" /\ req[q].tok \in Tokens /\ req[q].op = "load"
      BY <1>0, <2>1, <2>4, Undisturbed, RequestFields DEF Placed
    <3>2. CASE files' = files
      BY <1>0, <2>1, <2>4, <3>1, <3>2 DEF Held, Expired
    <3>3. CASE Expired(mem[p].ts) /\ files' = [files EXCEPT ![t] = Absent]
      <4>1. CASE req[q].tok # t
        <5>1. files'[req[q].tok] = files[req[q].tok]
          BY <1>0, <2>1, <3>1, <3>3, <4>1 DEF TypeOK
        <5> QED
          BY <1>0, <2>1, <2>4, <3>1, <5>1 DEF Held, Expired
      <4>2. CASE req[q].tok = t
        <5>1. mem[q].ts = mem[p].ts
          BY <1>0, <2>1, <3>1, <4>2 DEF Stamped, Holding
        <5>2. files'[t] = Absent
          BY <1>0, <2>1, <3>3 DEF TypeOK
        <5> QED
          BY <2>1, <2>4, <3>1, <3>3, <4>2, <5>1, <5>2 DEF Held, Expired
      <4> QED
        BY <4>1, <4>2
    <3> QED
      BY <1>6, <3>2, <3>3 DEF LoadCheck, RemoveMayFail, Remove
  <2> QED
    BY <2>2, <2>3, <2>4
<1>7. ASSUME NEW p \in Procs, UpdateCreate(p) \/ Write(p)
      PROVE  Held(q)'
  <2>1. /\ pc[p] \in {"upd_create", "write"} /\ now' = now /\ req[p].tok \in Tokens
        /\ \A r \in Procs \ {p} : pc'[r] = pc[r] /\ req'[r] = req[r] /\ mem'[r] = mem[r]
    BY <1>0, <1>7, RequestFields DEF UpdateCreate, Write, Return, TypeOK, Placed
  <2>2. CASE q # p
    <3>1. pc[q] \notin Holding
      BY <2>1, <2>2, Undisturbed
    <3> QED
      BY <1>0, <2>1, <2>2, <3>1, HeldKept
  <2>3. CASE q = p /\ \E result : Return(p, result)
    BY <1>0, <2>1, <2>3, HeldKept DEF Return, TypeOK, Holding
  <2>4. CASE /\ q = p /\ pc[p] = "upd_create" /\ Create(p, req[p].tok)
             /\ pc' = [pc EXCEPT ![p] = "write"] /\ UNCHANGED <<req, res, mem>>
    <3>1. req[q].op = "update"
      BY <1>0, <2>4 DEF Placed
    <3> QED
      BY <1>0, <2>1, <2>4, <3>1 DEF Held, Create, TypeOK
  <2> QED
    BY <1>7, <2>2, <2>3, <2>4 DEF UpdateCreate, Write
<1>8. ASSUME NEW p \in Procs, GCStart(p) \/ GCEnd(p)
      PROVE  Held(q)'
  BY <1>0, <1>1, <1>8 DEF GCStart, GCEnd, TypeOK, Holding
<1>9. ASSUME NEW p \in Procs, GCFile(p)
      PROVE  Held(q)'
  <2>1. pc[p] = "gc" /\ UNCHANGED <<now, pc, req, mem>>
    BY <1>9 DEF GCFile
  <2>2. pc[q] \notin Holding
    BY <2>1, Undisturbed DEF Holding
  <2> QED
    BY <1>0, <2>1, <2>2, HeldKept
<1>10. ASSUME NEW r \in Replicas, Crash(r)
       PROVE  Held(q)'
  <2>1. CASE Home[q] = r
    BY <1>0, <1>10, <2>1, HeldKept DEF Crash, Holding
  <2>2. CASE Home[q] # r
    BY <1>0, <1>10, <2>2, HeldKept DEF Crash
  <2> QED
    BY <2>1, <2>2
<1>11. CASE Tick
  <2>1. now' = now + 1 /\ UNCHANGED <<files, req, pc, mem, attached>>
    BY <1>11 DEF Tick
  <2>2. pc[q] \in Holding => mem[q].ts \in Nat
    BY <1>0 DEF Placed, Entry
  <2>3. TTL \in Nat
    BY TokenCallsAssumption DEF TokenCallsAssumption
  <2> QED
    BY <1>0, <2>1, <2>2, <2>3 DEF Held, Expired, Holding
<1>12. CASE UNCHANGED vars
  BY <1>0, <1>12 DEF vars, Held, Expired
<1> QED
  BY Steps, <1>2, <1>3, <1>4, <1>5, <1>6, <1>7, <1>8, <1>9, <1>10, <1>11, <1>12

\* What the abstract store holds: what an Update is about to write, or the file.
LEMMA StoreIs ==
  ASSUME Locked, NEW t \in Tokens
  PROVE  /\ Updating(t) = {} => AbsStore[t] = IF Whole(t) THEN files[t] ELSE Absent
         /\ \A p \in Updating(t) : AbsStore[t] = mem[p]
<1>1. CASE Updating(t) = {}
  BY <1>1 DEF AbsStore
<1>2. ASSUME NEW p \in Updating(t)
      PROVE  AbsStore[t] = mem[p]
  <2> DEFINE c == CHOOSE q \in Updating(t) : TRUE
  <2>1. c \in Updating(t)
    BY <1>2
  <2>2. AbsStore[t] = mem[c]
    BY <1>2 DEF AbsStore
  <2> HIDE DEF c
  <2>3. c = p
    BY <1>2, <2>1 DEF Updating, Locked, Writing
  <2> QED
    BY <2>2, <2>3
<1> QED
  BY <1>1, <1>2

\* The same of the state after a step.
LEMMA StoreBecomes ==
  ASSUME Locked', NEW t \in Tokens
  PROVE  /\ Updating(t)' = {} => AbsStore'[t] = IF Whole(t)' THEN files'[t] ELSE Absent
         /\ \A p \in Updating(t)' : AbsStore'[t] = mem'[p]
<1>1. CASE Updating(t)' = {}
  BY <1>1 DEF AbsStore
<1>2. ASSUME NEW p \in Updating(t)'
      PROVE  AbsStore'[t] = mem'[p]
  <2> DEFINE U == Updating(t)'
             c == CHOOSE q \in U : TRUE
  <2>1. c \in U
    BY <1>2
  <2>2. AbsStore'[t] = mem'[c]
    BY <1>2 DEF AbsStore
  <2> HIDE DEF c
  <2>3. c = p
    BY <1>2, <2>1 DEF Updating, Locked, Writing
  <2> QED
    BY <2>2, <2>3
<1> QED
  BY <1>1, <1>2

\* The store is a function on the tokens.
LEMMA StoreType ==
  /\ AbsStore = [t \in Tokens |-> AbsStore[t]]
  /\ AbsStore' = [t \in Tokens |-> AbsStore'[t]]
BY DEF AbsStore

\* A file that no Update has truncated, and that stays, is the same entry.
LEMMA StoreKept ==
  ASSUME Locked, Locked', NEW t \in Tokens, files'[t] = files[t],
         \A p \in Procs : p \in Updating(t)' <=> p \in Updating(t),
         \A p \in Updating(t) : mem'[p] = mem[p]
  PROVE  AbsStore'[t] = AbsStore[t]
<1>1. CASE Updating(t) = {}
  <2>1. Updating(t)' = {}
    BY <1>1 DEF Updating
  <2>2. Whole(t)' <=> Whole(t)
    BY DEF Whole
  <2> QED
    BY <1>1, <2>1, <2>2, StoreIs, StoreBecomes
<1>2. CASE Updating(t) # {}
  <2>1. PICK p \in Updating(t) : TRUE
    BY <1>2
  <2>2. p \in Updating(t)' /\ mem'[p] = mem[p]
    BY <2>1 DEF Updating
  <2> QED
    BY <2>1, <2>2, StoreIs, StoreBecomes
<1> QED
  BY <1>1, <1>2

\* The invariant of one replica.
OneInv == IInv /\ Locked /\ \A p \in Procs : Held(p)

\* A step that leaves the files and the Updates alone leaves the store alone.
LEMMA AllKept ==
  ASSUME Locked, Locked', files' = files,
         \A p \in Procs : pc'[p] = "write" <=> pc[p] = "write",
         \A p \in Procs : pc[p] = "write" => req'[p] = req[p] /\ mem'[p] = mem[p]
  PROVE  AbsStore' = AbsStore
<1>1. ASSUME NEW t \in Tokens
      PROVE  AbsStore'[t] = AbsStore[t]
  <2>1. \A p \in Procs : p \in Updating(t)' <=> p \in Updating(t)
    BY DEF Updating
  <2>2. \A p \in Updating(t) : mem'[p] = mem[p]
    BY DEF Updating
  <2> QED
    BY <2>1, <2>2, StoreKept
<1> QED
  BY <1>1, StoreType

\* No Update is writing while another goroutine holds the lock.
LEMMA NoUpdating ==
  ASSUME Locked, NEW p \in Procs, NEW t \in Tokens,
         pc[p] \in Writing \cup {"load_check"}, pc[p] # "write"
  PROVE  Updating(t) = {}
BY DEF Locked, Updating, Writing

\* The initial states are initial states of the abstract store.
LEMMA AbsInit == Init => Abstract!Init
<1> SUFFICES ASSUME Init
             PROVE  Abstract!Init
  OBVIOUS
<1>1. Locked
  BY DEF Init, Locked, Writing
<1>2. ASSUME NEW t \in Tokens
      PROVE  AbsStore[t] = Absent
  <2>1. Updating(t) = {} /\ files[t] = Absent
    BY DEF Init, Updating
  <2> QED
    BY <1>1, <2>1, StoreIs
<1>3. AbsStore = [t \in Tokens |-> Absent]
  BY <1>2, StoreType
<1> QED
  BY <1>3 DEF Init, Abstract!Init, Idle, Failed, Abstract!Idle, Abstract!Failed

\* A call that returns does so in the abstract store.
LEMMA AbsReturn ==
  ASSUME NEW p \in Procs, NEW result, Return(p, result)
  PROVE  Abstract!Return(p, result)
BY DEF Return, Abstract!Return, Idle, Abstract!Idle

\* A call is a call.
LEMMA AbsCall ==
  ASSUME OneInv, Locked', NEW p \in Procs, Call(p)
  PROVE  Abstract!Call(p)
<1>1. /\ TypeOK /\ pc[p] = "idle" /\ UNCHANGED <<now, files, issued, res, mem>>
      /\ \A q \in Procs : Private(q) /\ Placed(q) /\ req[q] \in Request
  BY DEF OneInv, IInv, Call, TypeOK
<1>2. req[p] = Abstract!Idle
  BY <1>1 DEF Placed, Idle, Abstract!Idle
<1>3. AbsStore' = AbsStore
  BY <1>1, AllKept DEF OneInv, Call, TypeOK
<1>4. ASSUME NEW t \in Tokens, Fresh(t)
      PROVE  Abstract!Fresh(t)
  <2>1. Updating(t) = {}
    BY <1>1, <1>4 DEF Updating, Fresh, Private
  <2>2. AbsStore[t] = Absent
    BY <1>4, <2>1, StoreIs DEF OneInv, Fresh
  <2> QED
    BY <1>4, <2>2 DEF Fresh, Abstract!Fresh
<1>5. Abstract!CallGen(p) \/ Abstract!CallLoad(p) \/ Abstract!CallUpdate(p)
  BY <1>4 DEF Call, Abstract!CallGen, Abstract!CallLoad, Abstract!CallUpdate
<1> QED
  BY <1>1, <1>2, <1>3, <1>5 DEF Abstract!Call

\* os.Create changes nothing for an observer: a token that is being generated is not
\* there yet, and one that is being updated still is.
LEMMA AbsCreate ==
  ASSUME OneInv, Locked', NEW p \in Procs, ~IOErrors, GenCreate(p) \/ UpdateCreate(p)
  PROVE  UNCHANGED Abstract!vars
<1> DEFINE t == req[p].tok
<1>1. /\ TypeOK /\ Placed(p) /\ Private(p) /\ Held(p) /\ req[p] \in Request /\ t \in Tokens
      /\ pc[p] \in {"lock", "upd_create"}
      /\ req[p].op = IF pc[p] = "lock" THEN "gen" ELSE "update"
      /\ Create(p, t) /\ pc' = [pc EXCEPT ![p] = "write"]
      /\ UNCHANGED <<now, issued, req, res>>
  <2>1. TypeOK /\ Placed(p) /\ Private(p) /\ Held(p) /\ req[p] \in Request
    BY DEF OneInv, IInv, TypeOK
  <2>2. /\ pc[p] \in {"lock", "upd_create"}
        /\ req[p].op = IF pc[p] = "lock" THEN "gen" ELSE "update"
        /\ Create(p, t) /\ pc' = [pc EXCEPT ![p] = "write"]
        /\ UNCHANGED <<now, issued, req, res>>
    BY <2>1 DEF GenCreate, CanLock, UpdateCreate, Placed
  <2> QED
    BY <2>1, <2>2, RequestFields
<1>2. files'[t] = Empty /\ \A u \in Tokens \ {t} : files'[u] = files[u]
  BY <1>1 DEF Create, TypeOK
<1>3. \A q \in Procs \ {p} : pc'[q] = pc[q] /\ pc[q] # "write"
  BY <1>1 DEF OneInv, Locked, Writing, TypeOK
<1>4. \A u \in Tokens : Updating(u) = {}
  BY <1>1, <1>3 DEF Updating
<1>5. ASSUME NEW u \in Tokens, u # t
      PROVE  AbsStore'[u] = AbsStore[u]
  <2>1. \A q \in Procs : q \in Updating(u)' <=> q \in Updating(u)
    BY <1>1, <1>3, <1>5 DEF Updating
  <2> QED
    BY <1>2, <1>4, <1>5, <2>1, StoreKept DEF OneInv
<1>6. AbsStore'[t] = AbsStore[t]
  <2>1. CASE pc[p] = "lock"
    <3>1. AbsStore[t] = Absent
      BY <1>1, <1>4, <2>1, StoreIs DEF OneInv, Private
    <3>2. Updating(t)' = {} /\ ~Whole(t)'
      BY <1>1, <1>2, <1>3, <2>1, ContentDistinct DEF Updating, Whole
    <3> QED
      BY <1>1, <3>1, <3>2, StoreBecomes
  <2>2. CASE pc[p] = "upd_create"
    <3>1. files[t] = mem[p] /\ mem[p] \in Entry
      BY <1>1, <2>2 DEF Held, Placed, Holding
    <3>2. AbsStore[t] = mem[p]
      BY <1>1, <1>4, <3>1, StoreIs DEF OneInv, Whole
    <3>3. p \in Updating(t)' /\ mem' = mem
      BY <1>1, <2>2 DEF Updating, TypeOK, UpdateCreate, GenCreate, CanLock
    <3> QED
      BY <1>1, <3>2, <3>3, StoreBecomes
  <2> QED
    BY <1>1, <2>1, <2>2
<1>7. AbsStore' = AbsStore
  BY <1>5, <1>6, StoreType
<1> QED
  BY <1>1, <1>7 DEF Abstract!vars

\* Load that finds no file, or one that does not parse.
LEMMA AbsMiss ==
  ASSUME OneInv, OneReplica, Locked', NEW p \in Procs, ~IOErrors, LoadRead(p) \/ UpdateRead(p)
  PROVE  Abstract!Load(p) \/ Abstract!Update(p) \/ UNCHANGED Abstract!vars
<1> DEFINE t == req[p].tok
<1>1. /\ TypeOK /\ req[p] \in Request /\ t \in Tokens
      /\ UNCHANGED <<now, files, issued>>
      /\ pc[p] \in {"start", "lock"}
      /\ \A q \in Procs \ {p} : pc'[q] = pc[q] /\ req'[q] = req[q] /\ mem'[q] = mem[q]
      /\ pc'[p] # "write"
  <2>1. TypeOK /\ req[p] \in Request
    BY DEF OneInv, IInv, TypeOK
  <2> QED
    BY <2>1, RequestFields DEF LoadRead, UpdateRead, CanLock, Return, TypeOK
<1>2. AbsStore' = AbsStore
  BY <1>1, AllKept DEF OneInv
<1>3. CASE UNCHANGED <<req, res>>
  BY <1>1, <1>2, <1>3 DEF Abstract!vars
<1>4. CASE ~Whole(t) /\ Return(p, Failed)
  <2>1. Updating(t) = {}
    <3>1. CASE LoadRead(p)
      BY <3>1 DEF LoadRead, CanRLock, NoWriter, OneReplica, Updating, Writing
    <3>2. CASE UpdateRead(p)
      <4>1. pc[p] = "lock"
        BY <3>2 DEF UpdateRead, CanLock
      <4> HIDE DEF t
      <4> QED
        BY <1>1, <4>1, NoUpdating DEF OneInv, Writing
    <3> QED
      BY <3>1, <3>2
  <2>2. AbsStore[t] = Absent
    BY <1>1, <1>4, <2>1, StoreIs DEF OneInv
  <2>3. Abstract!Return(p, Abstract!Failed)
    BY <1>4, AbsReturn DEF Failed, Abstract!Failed
  <2> QED
    BY <1>1, <1>2, <2>2, <2>3 DEF LoadRead, UpdateRead, Abstract!Load, Abstract!Update
<1> QED
  BY <1>3, <1>4 DEF LoadRead, UpdateRead

\* The rest of Load: what it has read is there still, or has been removed, expired.
LEMMA AbsLoad ==
  ASSUME OneInv, Locked', NEW p \in Procs, ~IOErrors, LoadCheck(p)
  PROVE  Abstract!Load(p)
<1> DEFINE t == req[p].tok
<1>1. /\ TypeOK /\ req[p].op = "load" /\ t \in Tokens /\ pc[p] = "load_check"
      /\ mem[p] \in Entry /\ UNCHANGED <<now, issued>>
      /\ files[t] = mem[p] \/ (files[t] = Absent /\ Expired(mem[p].ts))
      /\ \A q \in Procs \ {p} : pc'[q] = pc[q] /\ req'[q] = req[q] /\ mem'[q] = mem[q]
      /\ pc'[p] # "write"
  <2>1. TypeOK /\ Placed(p) /\ Held(p) /\ req[p] \in Request
    BY DEF OneInv, IInv, TypeOK
  <2> QED
    BY <2>1, RequestFields DEF LoadCheck, Placed, Held, Holding, Return, TypeOK
<1>2. \A u \in Tokens : Updating(u) = {}
  BY <1>1, NoUpdating DEF OneInv
<1>3. \A u \in Tokens : Updating(u)' = {}
  <2>1. \A q \in Procs : pc[q] # "write"
    BY <1>1 DEF OneInv, Locked, Writing
  <2> QED
    BY <1>1, <2>1 DEF Updating
<1>4. \A u \in Tokens : /\ AbsStore[u] = IF Whole(u) THEN files[u] ELSE Absent
                        /\ AbsStore'[u] = IF Whole(u)' THEN files'[u] ELSE Absent
  BY <1>2, <1>3, StoreIs, StoreBecomes DEF OneInv
<1>5. CASE ~Expired(mem[p].ts) /\ Return(p, Found(mem[p].data)) /\ files' = files
  <2>1. AbsStore[t] = mem[p] /\ mem[p] # Absent
    BY <1>1, <1>4, <1>5, ContentDistinct DEF Whole
  <2>2. AbsStore' = AbsStore
    <3>1. \A u \in Tokens : AbsStore'[u] = AbsStore[u]
      BY <1>4, <1>5 DEF Whole
    <3> QED
      BY <3>1, StoreType
  <2>3. Abstract!Return(p, Abstract!Found(AbsStore[t].data))
    BY <1>5, <2>1, AbsReturn DEF Found, Abstract!Found
  <2> QED
    BY <1>1, <1>5, <2>1, <2>2, <2>3 DEF Abstract!Load, Abstract!Expired, Expired
<1>6. CASE Expired(mem[p].ts) /\ Return(p, Failed) /\ files' = [files EXCEPT ![t] = Absent]
  <2>1. Abstract!Return(p, Abstract!Failed)
    BY <1>6, AbsReturn DEF Failed, Abstract!Failed
  <2>2. AbsStore[t] # Absent => AbsStore[t] = mem[p]
    BY <1>1, <1>4, ContentDistinct DEF Whole
  <2>3. AbsStore'[t] = Absent /\ \A u \in Tokens \ {t} : AbsStore'[u] = AbsStore[u]
    BY <1>1, <1>4, <1>6, ContentDistinct DEF Whole, TypeOK
  <2>4. AbsStore' = [AbsStore EXCEPT ![t] = Absent]
    <3>1. AbsStore' = [u \in Tokens |-> IF u = t THEN Absent ELSE AbsStore[u]]
      BY <1>1, <2>3, StoreType
    <3> HIDE DEF t
    <3> QED
      BY <1>1, <3>1, StoreType
  <2>5. CASE AbsStore[t] = Absent
    <3>1. AbsStore' = AbsStore
      BY <2>3, <2>5, StoreType
    <3> QED
      BY <1>1, <2>1, <2>5, <3>1 DEF Abstract!Load
  <2>6. CASE AbsStore[t] # Absent
    <3>1. Abstract!Expired(t)
      BY <1>6, <2>2, <2>6 DEF Abstract!Expired, Expired
    <3> QED
      BY <1>1, <2>1, <2>4, <2>6, <3>1 DEF Abstract!Load
  <2> QED
    BY <2>5, <2>6
<1> QED
  BY <1>5, <1>6 DEF LoadCheck, RemoveMayFail, Remove

\* What is written under the lock is there then: GenToken and Update take effect.
LEMMA AbsWrite ==
  ASSUME OneInv, Locked', NEW p \in Procs, ~IOErrors, Write(p)
  PROVE  Abstract!Gen(p) \/ Abstract!Update(p)
<1> DEFINE t == req[p].tok
<1>1. /\ TypeOK /\ Placed(p) /\ Held(p) /\ req[p] \in Request /\ t \in Tokens /\ pc[p] = "write"
      /\ req[p].op \in {"gen", "update"} /\ mem[p] \in Entry /\ now \in Nat
      /\ p \in attached /\ files[t] = Empty /\ now' = now /\ Return(p, Done)
  <2>1. TypeOK /\ Placed(p) /\ Held(p) /\ req[p] \in Request /\ now \in Nat
    BY DEF OneInv, IInv, TypeOK
  <2> QED
    BY <2>1, RequestFields DEF Write, Placed, Held, Holding
<1>2. files' = [files EXCEPT ![t] = Payload(p)]
  BY <1>1 DEF Write, Written
<1>3. Payload(p) \in Entry
  BY <1>1, PayloadType
<1>4. files'[t] = Payload(p) /\ \A u \in Tokens \ {t} : files'[u] = files[u]
  BY <1>1, <1>2 DEF TypeOK
<1>5. \A q \in Procs : pc'[q] # "write"
  BY <1>1 DEF OneInv, Locked, Writing, Return, TypeOK
<1>6. \A u \in Tokens : Updating(u)' = {}
  BY <1>5 DEF Updating
<1>7. AbsStore'[t] = Payload(p)
  BY <1>1, <1>3, <1>4, <1>6, StoreBecomes DEF Whole
<1>8. ASSUME NEW u \in Tokens, u # t
      PROVE  AbsStore'[u] = AbsStore[u]
  <2>1. Updating(u) = {}
    BY <1>1, <1>8 DEF Updating, OneInv, Locked, Writing
  <2>2. Whole(u)' <=> Whole(u)
    BY <1>4, <1>8 DEF Whole
  <2> QED
    BY <1>4, <1>6, <1>8, <2>1, <2>2, StoreIs, StoreBecomes DEF OneInv
<1>9. AbsStore' = [AbsStore EXCEPT ![t] = Payload(p)]
  <2>1. AbsStore' = [u \in Tokens |-> IF u = t THEN Payload(p) ELSE AbsStore[u]]
    BY <1>1, <1>7, <1>8, StoreType
  <2> HIDE DEF t
  <2> QED
    BY <1>1, <2>1, StoreType
<1>10. Abstract!Return(p, Abstract!Done)
  BY <1>1, AbsReturn DEF Done, Abstract!Done
<1>11. CASE req[p].op = "gen"
  <2>1. /\ Payload(p) = mem[p] /\ mem[p].data = req[p].arg
        /\ mem[p].ts \in req[p].at .. now
    BY <1>1, <1>11 DEF Payload, Held, Entry
  <2>2. mem[p] = [ts |-> mem[p].ts, data |-> req[p].arg]
    BY <1>1, <2>1 DEF Entry
  <2>3. issued' = issued \cup {t}
    BY <1>11 DEF Write
  <2> QED
    BY <1>1, <1>9, <1>10, <1>11, <2>1, <2>2, <2>3 DEF Abstract!Gen
<1>12. CASE req[p].op = "update"
  <2>1. p \in Updating(t)
    BY <1>1, <1>12 DEF Updating
  <2>2. AbsStore[t] = mem[p] /\ mem[p] # Absent
    BY <1>1, <2>1, StoreIs, ContentDistinct DEF OneInv
  <2>3. Payload(p) = [AbsStore[t] EXCEPT !.data = Abstract!Merge(@, req[p].arg)]
    BY <1>12, <2>2 DEF Payload, Merge, Abstract!Merge
  <2>4. AbsStore' = [AbsStore EXCEPT ![t].data = Abstract!Merge(@, req[p].arg)]
    BY <1>9, <2>3
  <2>5. issued' = issued
    BY <1>12 DEF Write
  <2> QED
    BY <1>1, <1>10, <1>12, <2>2, <2>4, <2>5 DEF Abstract!Update
<1> QED
  BY <1>1, <1>11, <1>12

\* GC collects what has expired, and nothing else.
LEMMA AbsCollect ==
  ASSUME OneInv, Locked', NEW p \in Procs, ~IOErrors, GCFile(p)
  PROVE  (\E t \in Tokens : Abstract!Collect(t)) \/ UNCHANGED Abstract!vars
<1>1. /\ TypeOK /\ Placed(p) /\ pc[p] = "gc" /\ UNCHANGED <<now, issued, req, res, pc, mem>>
      /\ now \in Nat /\ TTL \in Nat
  BY TokenCallsAssumption DEF OneInv, IInv, TypeOK, GCFile, TokenCallsAssumption
<1>2. CASE files' = files
  BY <1>1, <1>2, AllKept DEF OneInv, Abstract!vars
<1>3. ASSUME NEW t \in scan[p].todo, Whole(t), scan[p].at - files[t].ts > TTL,
             files' = [files EXCEPT ![t] = Absent]
      PROVE  \E u \in Tokens : Abstract!Collect(u)
  <2>1. /\ t \in Tokens /\ scan[p].at \in Nat /\ scan[p].at <= now
        /\ files[t] \in Entry /\ files[t].ts \in Nat
    BY <1>1, <1>3 DEF TypeOK, Placed, Whole, Entry
  <2>2. \A u \in Tokens : Updating(u) = {}
    BY <1>1, NoUpdating DEF OneInv, Writing
  <2>3. \A u \in Tokens : Updating(u)' = {}
    BY <1>1, <2>2 DEF Updating
  <2>4. AbsStore[t] = files[t] /\ AbsStore[t] # Absent
    BY <1>3, <2>1, <2>2, StoreIs, ContentDistinct DEF OneInv
  <2>5. files'[t] = Absent /\ \A u \in Tokens \ {t} : files'[u] = files[u]
    BY <1>1, <1>3, <2>1 DEF TypeOK
  <2>6. AbsStore'[t] = Absent
    BY <2>1, <2>3, <2>5, StoreBecomes, ContentDistinct DEF Whole
  <2>7. ASSUME NEW u \in Tokens, u # t
        PROVE  AbsStore'[u] = AbsStore[u]
    BY <1>1, <2>2, <2>3, <2>5, <2>7, StoreKept DEF OneInv
  <2>8. AbsStore' = [AbsStore EXCEPT ![t] = Absent]
    <3>1. AbsStore' = [u \in Tokens |-> IF u = t THEN Absent ELSE AbsStore[u]]
      BY <2>6, <2>7, StoreType
    <3> QED
      BY <2>1, <3>1, StoreType
  <2>9. Abstract!Expired(t)
    BY <1>1, <1>3, <2>1, <2>4 DEF Abstract!Expired
  <2> QED
    BY <1>1, <2>1, <2>4, <2>8, <2>9 DEF Abstract!Collect
<1> QED
  BY <1>2, <1>3 DEF GCFile, RemoveMayFail, Remove

\* The process dies: the entry that it was updating is lost, and no other.
LEMMA AbsCrash ==
  ASSUME OneInv, OneReplica, Locked', NEW r \in Replicas, Crash(r)
  PROVE  Abstract!Crash
<1> DEFINE killed == {p \in Procs : Home[p] = r}
           lost == {req[p].tok : p \in {q \in killed : pc[q] = "write" /\ req[q].op = "update"}}
<1>1. TypeOK /\ UNCHANGED <<now, files, issued>>
  BY DEF OneInv, IInv, Crash
<1>2. lost \in SUBSET {req[p].tok : p \in {q \in killed : req[q].op = "update"}}
  OBVIOUS
<1>3. ASSUME NEW t \in Tokens
      PROVE  AbsStore'[t] = IF t \in lost THEN Absent ELSE AbsStore[t]
  <2>1. CASE t \in lost
    <3>1. PICK p \in killed : pc[p] = "write" /\ req[p].op = "update" /\ req[p].tok = t
      BY <2>1
    <3>2. \A q \in Procs : pc'[q] = "idle"
      BY <3>1 DEF Crash, OneReplica
    <3>3. Updating(t)' = {}
      BY <3>2 DEF Updating
    <3>4. ~Whole(t)'
      BY <1>1, <3>1, ContentDistinct DEF OneInv, Held, Whole
    <3> QED
      BY <2>1, <3>3, <3>4, StoreBecomes
  <2>2. CASE t \notin lost
    <3>1. \A q \in Procs : q \in Updating(t)' <=> q \in Updating(t)
      BY <2>2 DEF Updating, Crash
    <3>2. \A q \in Updating(t) : mem'[q] = mem[q]
      BY <2>2 DEF Updating, Crash
    <3> QED
      BY <1>1, <2>2, <3>1, <3>2, StoreKept DEF OneInv
  <2> QED
    BY <2>1, <2>2
<1>4. AbsStore' = [t \in Tokens |-> IF t \in lost THEN Absent ELSE AbsStore[t]]
  BY <1>3, StoreType
<1>5. /\ req' = [p \in Procs |-> IF p \in killed THEN Abstract!Idle ELSE req[p]]
      /\ res' = [p \in Procs |-> IF p \in killed THEN Abstract!Failed ELSE res[p]]
  BY DEF Crash, Idle, Failed, Abstract!Idle, Abstract!Failed
<1>6. killed \in SUBSET Procs
  OBVIOUS
<1> QED
  BY <1>1, <1>2, <1>4, <1>5, <1>6 DEF Abstract!Crash

\* Every step is a step of the abstract store, or leaves it alone.
LEMMA AbsStep ==
  ASSUME OneReplica, ~IOErrors, OneInv, Locked', [Next]_vars
  PROVE  [Abstract!Next]_(Abstract!vars)
<1>1. ASSUME NEW p \in Procs, AnnounceLock(p) \/ GCStart(p) \/ GCEnd(p)
      PROVE  UNCHANGED Abstract!vars
  <2>1. /\ TypeOK /\ UNCHANGED <<now, files, issued, req, res, mem>>
        /\ \A q \in Procs : pc'[q] = "write" <=> pc[q] = "write"
    BY <1>1 DEF OneInv, IInv, TypeOK, AnnounceLock, GCStart, GCEnd, CanLock
  <2>2. AbsStore' = AbsStore
    BY <2>1, AllKept DEF OneInv
  <2> QED
    BY <2>1, <2>2 DEF Abstract!vars
<1>2. ASSUME NEW p \in Procs, Call(p) \/ LoadCheck(p) \/ Write(p)
      PROVE  Abstract!Next
  BY <1>2, AbsCall, AbsLoad, AbsWrite DEF Abstract!Next
<1>3. ASSUME NEW p \in Procs, LoadRead(p) \/ UpdateRead(p)
      PROVE  [Abstract!Next]_(Abstract!vars)
  BY <1>3, AbsMiss DEF Abstract!Next
<1>4. ASSUME NEW p \in Procs, GenCreate(p) \/ UpdateCreate(p)
      PROVE  UNCHANGED Abstract!vars
  BY <1>4, AbsCreate
<1>5. ASSUME NEW p \in Procs, GCFile(p)
      PROVE  [Abstract!Next]_(Abstract!vars)
  BY <1>5, AbsCollect DEF Abstract!Next
<1>6. ASSUME NEW r \in Replicas, Crash(r)
      PROVE  Abstract!Next
  BY <1>6, AbsCrash DEF Abstract!Next
<1>7. CASE Tick
  <2>1. AbsStore' = AbsStore
    BY <1>7, AllKept DEF Tick, OneInv
  <2> QED
    BY <1>7, <2>1 DEF Tick, Abstract!Tick, Abstract!Next
<1>8. CASE UNCHANGED vars
  <2>1. AbsStore' = AbsStore
    BY <1>8, AllKept DEF vars, OneInv
  <2> QED
    BY <1>8, <2>1 DEF vars, Abstract!vars
<1> QED
  BY Steps, <1>1, <1>2, <1>3, <1>4, <1>5, <1>6, <1>7, <1>8

\* One replica whose file system works implements the abstract store: every call takes
\* effect in one instant, for any number of goroutines and crashes, though it works on
\* the file in several steps, under a lock that readers share.
THEOREM OneReplicaLinearizable ==
  ASSUME OneReplica, ~IOErrors
  PROVE  Spec => Linearizable
<1>1. Init => OneInv /\ Abstract!Init
  <2>1. Init => Locked /\ \A p \in Procs : Held(p)
    BY DEF Init, Locked, Held, Writing, Idle
  <2> QED
    BY <2>1, InitInvariant, AbsInit DEF OneInv
<1>2. OneInv /\ [Next]_vars => OneInv'
  <2> SUFFICES ASSUME OneInv, [Next]_vars
               PROVE  OneInv'
    OBVIOUS
  <2>1. TypeOK' /\ TimestampFixed' /\ \A q \in Procs : Placed(q)' /\ Private(q)' /\ Stamped(q)'
    BY TypeStep, PlacedStep, PrivateStep, StampStep DEF OneInv, IInv
  <2>2. IInv'
    BY <2>1 DEF IInv
  <2>3. Locked' /\ \A q \in Procs : Held(q)'
    BY LockedStep, HeldStep DEF OneInv, IInv
  <2> QED
    BY <2>2, <2>3 DEF OneInv
<1>3. OneInv /\ OneInv' /\ [Next]_vars => [Abstract!Next]_(Abstract!vars)
  BY AbsStep DEF OneInv
<1> QED
  BY <1>1, <1>2, <1>3, PTL DEF Spec, Linearizable, Abstract!Spec
===============================================================================
