---------------------------- MODULE FileTokenStore ----------------------------
(***************************************************************************)
(* FileTokenStore of internal/gateway/token_store.go: one JSON file per    *)
(* token in a directory, a sync.RWMutex per process, and a goroutine that  *)
(* collects expired files.  The directory outlives a process and may be    *)
(* shared by several replicas, whose locks know nothing of each other.     *)
(*                                                                         *)
(* A call is split where another replica, or a crash, can come between two *)
(* file operations: os.ReadFile, os.Create (which truncates) and the one   *)
(* write of the JSON encoder.  The RWMutex is not a variable: who holds it *)
(* follows from the program counters.                                      *)
(***************************************************************************)
EXTENDS TokenCalls

CONSTANTS
  Replicas,    \* gateway processes that share the directory
  Home,        \* Home[p]: the replica in which goroutine p runs
  Collectors,  \* the goroutines that run GC; the others serve requests
  MaxCrashes,  \* bound on the number of crashes of a process
  IOErrors,    \* TRUE: a call to the file system may fail
  Empty,       \* content of a file that was created and not yet written
  Garbage      \* content of a file that does not parse as JSON

Entry   == [ts: Nat, data: Data]
Content == Entry \cup {Absent, Empty, Garbage}

ASSUME FileTokenStoreAssumption ==
  /\ MaxCrashes \in Nat /\ IOErrors \in BOOLEAN
  /\ Home \in [Procs -> Replicas]
  /\ Collectors \subseteq Procs
  /\ \A c \in {Absent, Empty, Garbage} : c \notin Entry
  /\ Absent # Empty /\ Absent # Garbage /\ Empty # Garbage

VARIABLES
  now,       \* the clock, in seconds
  files,     \* files[t]: what the directory holds under t.json
  issued,    \* tokens that GenToken has returned
  req,       \* req[p]: the call in progress, as in TokenStore
  res,       \* res[p]: what the last call returned
  pc,        \* pc[p]: where goroutine p stands
  mem,       \* mem[p]: the payload that p has read, or is about to write
  scan,      \* scan[p]: the clock and the files left of a pass of GC
  attached,  \* goroutines whose open handle still names the file in the directory
  crashes,   \* crashes so far
  born       \* history: the timestamp t was generated with, or NotBorn

vars == <<now, files, issued, req, res, pc, mem, scan, attached, crashes, born>>

Servers == Procs \ Collectors
NotBorn == -1
Writing == {"lock", "upd_create", "write", "gc"}  \* where the write lock is held or awaited
NoScan  == [at |-> 0, todo |-> {}]

\* Fault: an entry lives one second too long.
ExpiredLate(ts) == now - ts > TTL + 1

Whole(t)    == files[t] \in Entry
Expired(ts) == now - ts > TTL

\* rand.Read never draws the same 6 bytes twice.
Fresh(t) ==
  /\ t \notin issued
  /\ files[t] = Absent
  /\ \A p \in Procs : req[p].op = "gen" => req[p].tok # t

TypeOK ==
  /\ now \in Nat
  /\ files \in [Tokens -> Content]
  /\ issued \subseteq Tokens
  /\ req \in [Procs -> Request]
  /\ res \in [Procs -> Result]
  /\ pc \in [Procs -> {"idle", "start", "load_check"} \cup Writing]
  /\ mem \in [Procs -> Entry \cup {Absent}]
  /\ scan \in [Procs -> [at: Nat, todo: SUBSET Tokens]]
  /\ attached \subseteq Procs
  /\ crashes \in Nat
  /\ born \in [Tokens -> Nat \cup {NotBorn}]

Init ==
  /\ now = 0
  /\ files = [t \in Tokens |-> Absent]
  /\ issued = {}
  /\ req = [p \in Procs |-> Idle]
  /\ res = [p \in Procs |-> Failed]
  /\ pc = [p \in Procs |-> "idle"]
  /\ mem = [p \in Procs |-> Absent]
  /\ scan = [p \in Procs |-> NoScan]
  /\ attached = {}
  /\ crashes = 0
  /\ born = [t \in Tokens |-> NotBorn]

(***************************************************************************)
(* The RWMutex of a process.  Lock announces the writer, when no other one *)
(* waits or holds the lock, and then waits for the readers to leave; RLock *)
(* waits while a writer waits or holds.                                    *)
(***************************************************************************)
\* Fault: the calls that write take no lock against each other.
NoWriterForgotten(p) == p \in Procs

NoWriter(p) ==
  \A q \in Procs : Home[q] = Home[p] => pc[q] \notin Writing

\* Fault: readers overtake a writer that waits.
CanRLockOvertakes(p) ==
  \A q \in Procs : Home[q] = Home[p] => pc[q] \notin Writing \ {"lock"}

CanRLock(p) == NoWriter(p)

CanLock(p) ==
  /\ pc[p] = "lock"
  /\ \A q \in Procs : Home[q] = Home[p] => pc[q] # "load_check"

AnnounceLock(p) ==
  /\ \/ pc[p] = "start" /\ req[p].op \in {"gen", "update"}
     \/ pc[p] = "idle" /\ p \in Collectors
  /\ NoWriter(p)
  /\ pc' = [pc EXCEPT ![p] = "lock"]
  /\ UNCHANGED <<now, files, issued, req, res, mem, scan, attached, crashes, born>>

\* Unlock and return: the deferred calls run whatever the outcome.
Return(p, result) ==
  /\ pc' = [pc EXCEPT ![p] = "idle"]
  /\ req' = [req EXCEPT ![p] = Idle]
  /\ res' = [res EXCEPT ![p] = result]
  /\ mem' = [mem EXCEPT ![p] = Absent]

\* os.Remove: whoever still has the file open now writes to a nameless file.
Remove(t) ==
  /\ files' = [files EXCEPT ![t] = Absent]
  /\ attached' = attached \ {q \in Procs : pc[q] = "write" /\ req[q].tok = t}

RemoveMayFail(t) ==
  \/ Remove(t)
  \/ IOErrors /\ UNCHANGED <<files, attached>>

\* os.Create: a new empty file, or the old one truncated.
Create(p, t) ==
  /\ files' = [files EXCEPT ![t] = Empty]
  /\ attached' = attached \cup {p}

(***************************************************************************)
(* The calls of the request handlers.                                      *)
(***************************************************************************)
Call(p) ==
  /\ pc[p] = "idle"
  /\ \/ \E t \in Tokens, d \in Registered :
          /\ Fresh(t)
          /\ req' = [req EXCEPT ![p] = [op |-> "gen", tok |-> t, arg |-> d, at |-> now]]
     \/ \E t \in issued :
          req' = [req EXCEPT ![p] = [op |-> "load", tok |-> t]]
     \/ \E t \in issued, patch \in Patches :
          req' = [req EXCEPT ![p] = [op |-> "update", tok |-> t, arg |-> patch]]
  /\ pc' = [pc EXCEPT ![p] = "start"]
  /\ UNCHANGED <<now, files, issued, res, mem, scan, attached, crashes, born>>

\* GenToken up to os.Create.  Its failure is logged and the token returned.
GenCreate(p) ==
  /\ req[p].op = "gen" /\ CanLock(p)
  /\ LET t == req[p].tok IN
     /\ born' = [born EXCEPT ![t] = now]
     /\ \/ /\ Create(p, t)
           /\ mem' = [mem EXCEPT ![p] = [ts |-> now, data |-> req[p].arg]]
           /\ pc' = [pc EXCEPT ![p] = "write"]
           /\ UNCHANGED <<issued, req, res>>
        \/ /\ IOErrors
           /\ issued' = issued \cup {t}
           /\ Return(p, Done)
           /\ UNCHANGED <<files, attached>>
  /\ UNCHANGED <<now, scan, crashes>>

\* Load up to os.ReadFile.  A missing file and one that does not parse are alike.
LoadRead(p) ==
  /\ pc[p] = "start" /\ req[p].op = "load" /\ CanRLock(p)
  /\ LET t == req[p].tok IN
       \/ /\ Whole(t)
          /\ mem' = [mem EXCEPT ![p] = files[t]]
          /\ pc' = [pc EXCEPT ![p] = "load_check"]
          /\ UNCHANGED <<req, res>>
       \/ /\ ~Whole(t) \/ IOErrors
          /\ Return(p, Failed)
  /\ UNCHANGED <<now, files, issued, scan, attached, crashes, born>>

\* The rest of Load, which removes an expired file under the read lock.
LoadCheck(p) ==
  /\ pc[p] = "load_check"
  /\ \/ /\ Expired(mem[p].ts)
        /\ RemoveMayFail(req[p].tok)
        /\ Return(p, Failed)
     \/ /\ ~Expired(mem[p].ts)
        /\ Return(p, Found(mem[p].data))
        /\ UNCHANGED <<files, attached>>
  /\ UNCHANGED <<now, issued, scan, crashes, born>>

\* Update up to os.ReadFile.
UpdateRead(p) ==
  /\ req[p].op = "update" /\ CanLock(p)
  /\ LET t == req[p].tok IN
       \/ /\ Whole(t)
          /\ mem' = [mem EXCEPT ![p] = files[t]]
          /\ pc' = [pc EXCEPT ![p] = "upd_create"]
          /\ UNCHANGED <<req, res>>
       \/ /\ ~Whole(t) \/ IOErrors
          /\ Return(p, Failed)
  /\ UNCHANGED <<now, files, issued, scan, attached, crashes, born>>

\* os.Create in Update truncates the only copy of the entry.
UpdateCreate(p) ==
  /\ pc[p] = "upd_create"
  /\ \/ /\ Create(p, req[p].tok)
        /\ pc' = [pc EXCEPT ![p] = "write"]
        /\ UNCHANGED <<req, res, mem>>
     \/ /\ IOErrors
        /\ Return(p, Failed)
        /\ UNCHANGED <<files, attached>>
  /\ UNCHANGED <<now, issued, scan, crashes, born>>

\* Fault: Update stamps the entry anew.
PayloadRestamped(p) ==
  IF req[p].op = "gen" THEN mem[p]
  ELSE [ts |-> now, data |-> Merge(mem[p].data, req[p].arg)]

Payload(p) ==
  IF req[p].op = "gen" THEN mem[p]
  ELSE [mem[p] EXCEPT !.data = Merge(@, req[p].arg)]

\* What the file can hold after p has written at the start of it: a shorter
\* payload leaves the tail of what another replica has written meanwhile.
Written(p, t) ==
  IF p \notin attached THEN {files[t]}
  ELSE {Payload(p)} \cup (IF files[t] # Empty THEN {Garbage} ELSE {})
                    \cup (IF IOErrors THEN {files[t], Garbage} ELSE {})

\* enc.Encode, whose error GenToken and Update both ignore.
Write(p) ==
  /\ pc[p] = "write"
  /\ LET t == req[p].tok IN
     /\ \E c \in Written(p, t) : files' = [files EXCEPT ![t] = c]
     /\ issued' = IF req[p].op = "gen" THEN issued \cup {t} ELSE issued
  /\ attached' = attached \ {p}
  /\ Return(p, Done)
  /\ UNCHANGED <<now, scan, crashes, born>>

(***************************************************************************)
(* GC: one pass over the directory under the write lock.  The clock is     *)
(* read once, and a file that does not parse is skipped.                   *)
(***************************************************************************)
GCStart(p) ==
  /\ CanLock(p)
  /\ scan' = [scan EXCEPT ![p] = [at |-> now, todo |-> {t \in Tokens : files[t] # Absent}]]
  /\ pc' = [pc EXCEPT ![p] = "gc"]
  /\ UNCHANGED <<now, files, issued, req, res, mem, attached, crashes, born>>

\* Fault: GC removes entries that are just TTL seconds old.
GCFileEager(p) ==
  /\ pc[p] = "gc"
  /\ \E t \in scan[p].todo :
       /\ IF Whole(t) /\ scan[p].at - files[t].ts >= TTL
          THEN RemoveMayFail(t)
          ELSE UNCHANGED <<files, attached>>
       /\ scan' = [scan EXCEPT ![p].todo = @ \ {t}]
  /\ UNCHANGED <<now, issued, req, res, pc, mem, crashes, born>>

GCFile(p) ==
  /\ pc[p] = "gc"
  /\ \E t \in scan[p].todo :
       /\ IF Whole(t) /\ scan[p].at - files[t].ts > TTL
          THEN RemoveMayFail(t)
          ELSE UNCHANGED <<files, attached>>
       /\ scan' = [scan EXCEPT ![p].todo = @ \ {t}]
  /\ UNCHANGED <<now, issued, req, res, pc, mem, crashes, born>>

GCEnd(p) ==
  /\ pc[p] = "gc" /\ scan[p].todo = {}
  /\ pc' = [pc EXCEPT ![p] = "idle"]
  /\ scan' = [scan EXCEPT ![p] = NoScan]
  /\ UNCHANGED <<now, files, issued, req, res, mem, attached, crashes, born>>

(***************************************************************************)
(* The environment.  A process that crashes restarts at once with an       *)
(* unlocked mutex; the directory stays as it was.                          *)
(***************************************************************************)
Crash(r) ==
  /\ crashes < MaxCrashes
  /\ crashes' = crashes + 1
  /\ LET Killed(p) == Home[p] = r IN
     /\ pc' = [p \in Procs |-> IF Killed(p) THEN "idle" ELSE pc[p]]
     /\ req' = [p \in Procs |-> IF Killed(p) THEN Idle ELSE req[p]]
     /\ res' = [p \in Procs |-> IF Killed(p) THEN Failed ELSE res[p]]
     /\ mem' = [p \in Procs |-> IF Killed(p) THEN Absent ELSE mem[p]]
     /\ scan' = [p \in Procs |-> IF Killed(p) THEN NoScan ELSE scan[p]]
     /\ attached' = {p \in attached : ~Killed(p)}
  /\ UNCHANGED <<now, files, issued, born>>

Tick ==
  /\ now < MaxTime
  /\ now' = now + 1
  /\ UNCHANGED <<files, issued, req, res, pc, mem, scan, attached, crashes, born>>

Serve(p) ==
  GenCreate(p) \/ LoadRead(p) \/ LoadCheck(p) \/ UpdateRead(p) \/ UpdateCreate(p) \/ Write(p)

GC(p) == GCStart(p) \/ GCFile(p) \/ GCEnd(p)

Next ==
  \/ \E p \in Procs : AnnounceLock(p)
  \/ \E p \in Servers : Call(p) \/ Serve(p)
  \/ \E p \in Collectors : GC(p)
  \/ \E r \in Replicas : Crash(r)
  \/ Tick

Spec == Init /\ [][Next]_vars

(***************************************************************************)
(* A goroutine that runs is scheduled again and again, the mutex among     *)
(* writers is handed over in turn, and Unlock lets the waiting readers in  *)
(* before the next writer.  The ticker of gateway.go starts GC again and   *)
(* again.  Nothing obliges the handlers to call the store.                 *)
(***************************************************************************)
Fairness ==
  /\ \A p \in Servers : SF_vars(AnnounceLock(p)) /\ SF_vars(LoadRead(p)) /\ WF_vars(Serve(p))
  /\ \A p \in Collectors : SF_vars(AnnounceLock(p)) /\ WF_vars(GC(p))

FairSpec == Spec /\ Fairness

(***************************************************************************)
(* Properties.                                                             *)
(***************************************************************************)
\* However many replicas read, truncate, overwrite and remove the file, a file
\* that parses carries the timestamp its token was generated with: no sequence
\* of updates, crashes or lost updates prolongs the life of a token.
TimestampFixed ==
  \A t \in Tokens : Whole(t) => files[t].ts = born[t]

\* Load never serves a token that was generated more than TTL seconds before
\* the moment of its return, whatever the other replicas and GC do meanwhile.
ExpiredNeverServed ==
  [][\A p \in Procs :
       LET t == req[p].tok IN
       (req[p].op = "load" /\ req'[p] = Idle /\ res'[p].ok) => now - born[t] <= TTL]_vars

\* An entry that parses is removed from the directory only once its token has
\* expired: neither GC, with the clock it has read once, nor a Load of another
\* replica, with the payload it has read earlier, removes a live one.
LiveNeverRemoved ==
  [][\A t \in Tokens : files[t] # Absent /\ files'[t] = Absent => now - born[t] > TTL]_vars

\* Every call returns: no goroutine waits for the RWMutex for ever.
CallReturns ==
  \A p \in Servers : pc[p] # "idle" ~> pc[p] = "idle"

\* An expired entry is gone for good in the end: the collector gets the lock, and
\* no Update, which does not look at the age of the entry, keeps it alive.
ExpiredCollected ==
  \A t \in Tokens : (Whole(t) /\ Expired(files[t].ts)) ~> []~Whole(t)

\* "Persisted to a file so that a restart is survived": a token that was handed
\* out has its entry in the directory until it expires, whenever no call on it
\* is in progress.  Not so if a process dies between os.Create and Encode, or
\* if os.Create fails.
LiveTokenKept ==
  \A t \in issued :
    (now - born[t] <= TTL /\ \A p \in Procs : req[p] # Idle => req[p].tok # t) => Whole(t)

\* "Several replicas mount a shared volume": a Load that finds nothing means that
\* the token has expired.  Not so while another replica has the file truncated.
MissMeansExpired ==
  [][\A p \in Procs :
       LET t == req[p].tok IN
       (req[p].op = "load" /\ req'[p] = Idle /\ ~res'[p].ok) => now - born[t] > TTL]_vars

(***************************************************************************)
(* The file store of ONE replica implements the abstract store.  While     *)
(* Update has the file truncated under the lock the entry is still there   *)
(* for every observer; a file that GenToken has not written is not.        *)
(***************************************************************************)
Updating(t) == {p \in Procs : pc[p] = "write" /\ req[p].op = "update" /\ req[p].tok = t}

AbsStore ==
  [t \in Tokens |->
     IF Updating(t) # {} THEN mem[CHOOSE p \in Updating(t) : TRUE]
     ELSE IF Whole(t) THEN files[t] ELSE Absent]

Abstract == INSTANCE TokenStore WITH store <- AbsStore

Linearizable == Abstract!Spec
===============================================================================
