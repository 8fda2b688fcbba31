------------------------------- MODULE Ingest -------------------------------
(***************************************************************************)
(* POST /webhooks/{source}: the handler receive_webhook with the           *)
(* collaborators it awaits: the Redis idempotency store (response cache    *)
(* and SETNX lock), the event repository (one row per Idempotency-Key)     *)
(* and the arq queue.  Every await of the handler is one action, so the    *)
(* requests of all app processes interleave between any two awaits.        *)
(*                                                                         *)
(* Abstractions.  A request is one delivery and is used once; a client     *)
(* that retries sends another request with the same key.  The uuid4 the    *)
(* handler mints is named by the request that minted it.  Only 202         *)
(* responses are ever cached, so a cache entry is the event id in its      *)
(* body.  The lock value is b"1" in the code; here it names its holder,    *)
(* which no action reads.                                                  *)
(***************************************************************************)
EXTENDS Naturals

CONSTANTS
  Requests,  \* deliveries, each one HTTP request
  Keys,      \* Idempotency-Key values
  None,      \* no key, no event, no cache entry, no lock
  Hazards    \* which faults and expiries the environment may produce

HazardKinds == {"call_fails", "crash", "lock_expires", "cache_expires"}

ASSUME ConstantsAssumption ==
  /\ None \notin Requests \cup Keys
  /\ Hazards \subseteq HazardKinds

VARIABLES
  pc,      \* the await each request stands at
  key,     \* its Idempotency-Key header
  answer,  \* the response it sends, or will send once `finally` has run
  cache,   \* Redis idem:resp:<key>, the event id of the cached 202
  lock,    \* Redis idem:lock:<key>, its holder
  rows,    \* table webhook_events
  jobs     \* every job ever pushed to the arq queue

vars == <<pc, key, answer, cache, lock, rows, jobs>>
stores == <<cache, lock, rows, jobs>>

InTry == {"recheck", "verify", "insert", "enqueue", "store"}
Running == {"get", "lock", "unlock"} \cup InTry
Statuses == {202, 400, 401, 409, 422, 500}

Row(e, k) == [id |-> e, key |-> k]
Job(e, k) == [event |-> e, key |-> k]
NoAnswer == [status |-> 0, event |-> None]
Problem(status) == [status |-> status, event |-> None]
Queued(e) == [status |-> 202, event |-> e]

TypeOK ==
  /\ pc \in [Requests -> Running \cup {"idle", "done", "crashed"}]
  /\ key \in [Requests -> Keys \cup {None}]
  /\ answer \in [Requests -> [status : Statuses \cup {0},
                              event : Requests \cup {None}]]
  /\ cache \in [Keys -> Requests \cup {None}]
  /\ lock \in [Keys -> Requests \cup {None}]
  /\ rows \subseteq [id : Requests, key : Keys]
  /\ jobs \subseteq [event : Requests, key : Keys]
  /\ \A r \in Requests : pc[r] \in Running => key[r] \in Keys

Init ==
  /\ pc = [r \in Requests |-> "idle"]
  /\ key = [r \in Requests |-> None]
  /\ answer = [r \in Requests |-> NoAnswer]
  /\ cache = [k \in Keys |-> None]
  /\ lock = [k \in Keys |-> None]
  /\ rows = {}
  /\ jobs = {}

-----------------------------------------------------------------------------
(* The effect of each call on the server it goes to.  A call that raises   *)
(* may have had its effect or not, so the effects stand on their own.      *)

\* Mutant: SET without NX.
OverwriteLock(r) ==
  /\ lock' = [lock EXCEPT ![key[r]] = r]
  /\ UNCHANGED <<cache, rows, jobs>>

SetLock(r) ==
  /\ lock[key[r]] = None
  /\ lock' = [lock EXCEPT ![key[r]] = r]
  /\ UNCHANGED <<cache, rows, jobs>>

KeyPersisted(k) == \E row \in rows : row.key = k

\* Mutant: no unique constraint on idempotency_key.
InsertAnyRow(r) ==
  /\ rows' = rows \cup {Row(r, key[r])}
  /\ UNCHANGED <<cache, lock, jobs>>

InsertRow(r) ==
  /\ ~KeyPersisted(key[r])
  /\ rows' = rows \cup {Row(r, key[r])}
  /\ UNCHANGED <<cache, lock, jobs>>

PushJob(r) ==
  /\ jobs' = jobs \cup {Job(r, key[r])}
  /\ UNCHANGED <<cache, lock, rows>>

StoreResponse(r) ==
  /\ cache' = [cache EXCEPT ![key[r]] = r]
  /\ UNCHANGED <<lock, rows, jobs>>

DeleteLock(r) ==
  /\ lock' = [lock EXCEPT ![key[r]] = None]
  /\ UNCHANGED <<cache, rows, jobs>>

-----------------------------------------------------------------------------
(* How a request moves on: to its next await, out of the handler, or out   *)
(* of the try block, whose `finally` still has to release the lock.        *)

Goto(r, label) ==
  /\ pc' = [pc EXCEPT ![r] = label]
  /\ UNCHANGED <<key, answer>>

Respond(r, a) ==
  /\ pc' = [pc EXCEPT ![r] = "done"]
  /\ answer' = [answer EXCEPT ![r] = a]
  /\ UNCHANGED key

LeaveTry(r, a) ==
  /\ pc' = [pc EXCEPT ![r] = "unlock"]
  /\ answer' = [answer EXCEPT ![r] = a]
  /\ UNCHANGED key

-----------------------------------------------------------------------------
(* The handler.                                                            *)

RejectMissingKey(r) ==
  /\ pc[r] = "idle"
  /\ Respond(r, Problem(400))
  /\ UNCHANGED stores

Receive(r, k) ==
  /\ pc[r] = "idle"
  /\ pc' = [pc EXCEPT ![r] = "get"]
  /\ key' = [key EXCEPT ![r] = k]
  /\ UNCHANGED <<answer, cache, lock, rows, jobs>>

LookupHit(r) ==
  /\ pc[r] = "get"
  /\ cache[key[r]] # None
  /\ Respond(r, Queued(cache[key[r]]))
  /\ UNCHANGED stores

LookupMiss(r) ==
  /\ pc[r] = "get"
  /\ cache[key[r]] = None
  /\ Goto(r, "lock")
  /\ UNCHANGED stores

AcquireLock(r) ==
  /\ pc[r] = "lock"
  /\ SetLock(r)
  /\ Goto(r, "recheck")

LockHeld(r) ==
  /\ pc[r] = "lock"
  /\ lock[key[r]] # None
  /\ Respond(r, Problem(409))
  /\ UNCHANGED stores

RecheckHit(r) ==
  /\ pc[r] = "recheck"
  /\ cache[key[r]] # None
  /\ LeaveTry(r, Queued(cache[key[r]]))
  /\ UNCHANGED stores

\* Mutant: no second look at the cache once the lock is held.
SkipRecheck(r) ==
  /\ pc[r] = "recheck"
  /\ Goto(r, "verify")
  /\ UNCHANGED stores

RecheckMiss(r) ==
  /\ pc[r] = "recheck"
  /\ cache[key[r]] = None
  /\ Goto(r, "verify")
  /\ UNCHANGED stores

VerifyPasses(r) ==
  /\ pc[r] = "verify"
  /\ Goto(r, "insert")
  /\ UNCHANGED stores

\* Mutant: verification moved in front of the try block, lock kept.
VerifyFailsOutsideTry(r) ==
  /\ pc[r] = "verify"
  /\ \E status \in {401, 422, 500} : Respond(r, Problem(status))
  /\ UNCHANGED stores

\* 401 signature or timestamp, 422 payload, 500 no secret or body() raised.
VerifyFails(r) ==
  /\ pc[r] = "verify"
  /\ \E status \in {401, 422, 500} : LeaveTry(r, Problem(status))
  /\ UNCHANGED stores

\* Mutant: the job is pushed in place of the row, which comes too late.
EnqueueBeforePersist(r) ==
  /\ pc[r] = "insert"
  /\ PushJob(r)
  /\ Goto(r, "enqueue")

CreateReceived(r) ==
  /\ pc[r] = "insert"
  /\ InsertRow(r)
  /\ Goto(r, "enqueue")

\* Mutant: a duplicate is acknowledged under the id of the new request.
AcknowledgeDuplicate(r) ==
  /\ pc[r] = "insert"
  /\ KeyPersisted(key[r])
  /\ LeaveTry(r, Queued(r))
  /\ UNCHANGED stores

DuplicateKey(r) ==
  /\ pc[r] = "insert"
  /\ KeyPersisted(key[r])
  /\ LeaveTry(r, Problem(409))
  /\ UNCHANGED stores

\* Mutant: a failing enqueue is logged and swallowed.
EnqueueBestEffort(r) ==
  /\ pc[r] = "enqueue"
  /\ PushJob(r) \/ UNCHANGED stores
  /\ Goto(r, "store")

\* Mutant: a request that lost its lock gives up instead of enqueuing.
EnqueueIfStillHolding(r) ==
  /\ pc[r] = "enqueue"
  /\ IF lock[key[r]] = r
       THEN PushJob(r) /\ Goto(r, "store")
       ELSE UNCHANGED stores /\ LeaveTry(r, Problem(409))

EnqueueJob(r) ==
  /\ pc[r] = "enqueue"
  /\ PushJob(r)
  /\ Goto(r, "store")

CacheAccepted(r) ==
  /\ pc[r] = "store"
  /\ StoreResponse(r)
  /\ LeaveTry(r, Queued(r))

Unlock(r) ==
  /\ pc[r] = "unlock"
  /\ DeleteLock(r)
  /\ Goto(r, "done")

-----------------------------------------------------------------------------
(* The environment.  A call that raises ends the request with a 500: at    *)
(* once outside the try block and in `finally`, through `finally` inside   *)
(* it.  create_received refreshes the row it committed: a refresh that     *)
(* raises is the call at "insert" that raises with its effect.             *)

GetOrLockRaises(r) ==
  /\ pc[r] \in {"get", "lock"}
  /\ Respond(r, Problem(500))
  /\ \/ UNCHANGED stores
     \/ pc[r] = "lock" /\ SetLock(r)

CallInTryRaises(r) ==
  /\ pc[r] \in InTry \ {"verify"}
  /\ LeaveTry(r, Problem(500))
  /\ \/ UNCHANGED stores
     \/ pc[r] = "insert" /\ InsertRow(r)
     \/ pc[r] = "enqueue" /\ PushJob(r)
     \/ pc[r] = "store" /\ StoreResponse(r)

UnlockRaises(r) ==
  /\ pc[r] = "unlock"
  /\ Respond(r, Problem(500))
  /\ \/ UNCHANGED stores
     \/ DeleteLock(r)

CallFails(r) ==
  /\ "call_fails" \in Hazards
  /\ GetOrLockRaises(r) \/ CallInTryRaises(r) \/ UnlockRaises(r)

\* The process that runs the request dies: no `finally`, no response.
Crash(r) ==
  /\ "crash" \in Hazards
  /\ pc[r] \in Running
  /\ pc' = [pc EXCEPT ![r] = "crashed"]
  /\ answer' = [answer EXCEPT ![r] = NoAnswer]
  /\ UNCHANGED <<key, cache, lock, rows, jobs>>

\* The lock's TTL runs out; the handler never renews it nor looks at it.
LockExpires(k) ==
  /\ "lock_expires" \in Hazards
  /\ lock[k] # None
  /\ lock' = [lock EXCEPT ![k] = None]
  /\ UNCHANGED <<pc, key, answer, cache, rows, jobs>>

CacheExpires(k) ==
  /\ "cache_expires" \in Hazards
  /\ cache[k] # None
  /\ cache' = [cache EXCEPT ![k] = None]
  /\ UNCHANGED <<pc, key, answer, lock, rows, jobs>>

-----------------------------------------------------------------------------
Handle(r) ==
  \/ LookupHit(r) \/ LookupMiss(r)
  \/ AcquireLock(r) \/ LockHeld(r)
  \/ RecheckHit(r) \/ RecheckMiss(r)
  \/ VerifyPasses(r) \/ VerifyFails(r)
  \/ CreateReceived(r) \/ DuplicateKey(r)
  \/ EnqueueJob(r)
  \/ CacheAccepted(r)
  \/ Unlock(r)

Next ==
  \/ \E r \in Requests :
       \/ RejectMissingKey(r)
       \/ \E k \in Keys : Receive(r, k)
       \/ Handle(r)
       \/ CallFails(r)
       \/ Crash(r)
  \/ \E k \in Keys : LockExpires(k) \/ CacheExpires(k)

Spec == Init /\ [][Next]_vars

\* The event loop runs every ready coroutine; clients, faults, crashes and
\* expiries owe nothing.
Fairness == \A r \in Requests : WF_vars(Handle(r) \/ CallFails(r))

FairSpec == Spec /\ Fairness
-----------------------------------------------------------------------------
(* Properties.                                                             *)

\* At most one job is ever queued for an Idempotency-Key, whatever fails,
\* crashes or expires between the lookup, the lock and the insert.
OneJobPerKey ==
  \A j1, j2 \in jobs : j1.key = j2.key => j1 = j2

\* Every 202 sent for a key names the same event, whether it was built by
\* the handler or replayed from either cache lookup, however long ago.
AnswersAgree ==
  \A r1, r2 \in Requests :
    /\ key[r1] = key[r2]
    /\ answer[r1].status = 202 /\ answer[r2].status = 202
    => answer[r1].event = answer[r2].event

\* A 202 is never built, and never cached, for an event that the worker will
\* not be given: its job is queued and its row is committed.
AcceptedIsDurable ==
  /\ \A r \in Requests :
       answer[r].status = 202 =>
         /\ Job(answer[r].event, key[r]) \in jobs
         /\ Row(answer[r].event, key[r]) \in rows
  /\ \A k \in Keys : cache[k] # None => Job(cache[k], k) \in jobs

\* The promise, as the queue and the responses that were sent keep it: the
\* event of a key is that of its job, and an answer counts once it is out.
eventOf ==
  [k \in Keys |->
     IF \A j \in jobs : j.key # k THEN None
     ELSE (CHOOSE j \in jobs : j.key = k).event]

replyOf == [r \in Requests |-> IF pc[r] = "done" THEN answer[r] ELSE NoAnswer]

Promise == INSTANCE IdempotentIntake WITH
  Accepted <- 202, Refusals <- Statuses \ {202},
  event <- eventOf, reply <- replyOf

\* Cache, lock, unique constraint and queue implement the promise, whatever
\* fails, dies or expires between them: one event per key, never replaced, and
\* no answer that names another or that is taken back.
KeyIsServedOnce == Promise!Spec

\* The worker finds the row of every job it is given: the commit comes
\* before the push, also when the push fails half way.
PersistedBeforeQueued ==
  \A j \in jobs : Row(j.event, j.key) \in rows

\* While locks outlive their holders' work, no two requests with one key are
\* between the lock and the end of `finally` together.
InCriticalSection(r) == pc[r] \in InTry \cup {"unlock"}

MutualExclusion ==
  \A r1, r2 \in Requests :
    /\ InCriticalSection(r1) /\ InCriticalSection(r2)
    /\ key[r1] = key[r2]
    => r1 = r2

\* While no call fails and nothing expires, the second lookup absorbs every
\* race between requests: nobody is sent into the unique constraint.
ConstraintNeverFires ==
  \A r \in Requests : pc[r] = "insert" => ~KeyPersisted(key[r])

\* Without faults, 409 "Concurrent request with same Idempotency-Key in flight"
\* is only sent while another request with the key is in flight.
InFlight(k, r) == \E o \in Requests \ {r} : key[o] = k /\ pc[o] \in Running

ConflictMeansInFlight ==
  [][\A r \in Requests :
       answer'[r].status = 409 /\ answer[r].status # 409
       => InFlight(key[r], r)]_vars

\* The `finally` of a request releases a lock this request acquired, or
\* nothing.
UnlockReleasesOnlyOwn ==
  [][\A r \in Requests :
       /\ pc[r] = "unlock" /\ pc'[r] = "done"
       /\ lock'[key[r]] # lock[key[r]]
       => lock[key[r]] = r]_vars

\* A lock is never left to its TTL by a request that got its regular answer:
\* every lock is that of a request with its key that is still between the lock
\* and the end of `finally`, that died, or that was answered 500.
LockIsOwned ==
  \A k \in Keys :
    lock[k] # None =>
      /\ key[lock[k]] = k
      /\ \/ InCriticalSection(lock[k])
         \/ pc[lock[k]] = "crashed"
         \/ pc[lock[k]] = "done" /\ answer[lock[k]].status = 500

\* Without faults the `finally` of its holder releases every lock, although no
\* TTL ever runs out.
LockEventuallyFree ==
  \A k \in Keys : lock[k] # None ~> lock[k] = None

\* Every committed row gets its job, also when the lock of the request that
\* committed it has expired under it, unless that request dies or sends a 500.
PersistedEventuallyQueued ==
  \A r \in Requests, k \in Keys :
    Row(r, k) \in rows
    ~> \/ Job(r, k) \in jobs
       \/ pc[r] = "crashed" \/ answer[r].status = 500

=============================================================================
