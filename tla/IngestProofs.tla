---------------------------- MODULE IngestProofs ----------------------------
(***************************************************************************)
(* Theorems about Ingest and Received, for every set of requests, keys and *)
(* hazards.                                                                *)
(***************************************************************************)
EXTENDS Received, TLAPS

\* The state is well typed in every behaviour.
THEOREM TypeCorrect == Spec => []TypeOK
<1>1. Init => TypeOK
  BY DEF Init, TypeOK, Running, InTry, NoAnswer, Statuses
<1>2. TypeOK /\ [Next]_vars => TypeOK'
  <2> SUFFICES ASSUME TypeOK, [Next]_vars
               PROVE  TypeOK'
    OBVIOUS
  <2> USE DEF TypeOK, Running, InTry, Statuses, stores
  <2>1. CASE UNCHANGED vars
    BY <2>1 DEF vars
  <2>2. ASSUME NEW r \in Requests, RejectMissingKey(r)
        PROVE  TypeOK'
    BY <2>2 DEF RejectMissingKey, Respond, Problem
  <2>3. ASSUME NEW r \in Requests, NEW k \in Keys, Receive(r, k)
        PROVE  TypeOK'
    BY <2>3 DEF Receive
  <2>4. ASSUME NEW r \in Requests, Handle(r)
        PROVE  TypeOK'
    <3> key[r] \in Keys
      BY <2>4 DEF Handle, LookupHit, LookupMiss, AcquireLock, LockHeld,
           RecheckHit, RecheckMiss, VerifyPasses, VerifyFails, CreateReceived,
           DuplicateKey, EnqueueJob, CacheAccepted, Unlock
    <3>1. CASE LookupHit(r)
      BY <3>1 DEF LookupHit, Respond, Queued
    <3>2. CASE LookupMiss(r)
      BY <3>2 DEF LookupMiss, Goto
    <3>3. CASE AcquireLock(r)
      BY <3>3 DEF AcquireLock, SetLock, Goto
    <3>4. CASE LockHeld(r)
      BY <3>4 DEF LockHeld, Respond, Problem
    <3>5. CASE RecheckHit(r)
      BY <3>5 DEF RecheckHit, LeaveTry, Queued
    <3>6. CASE RecheckMiss(r)
      BY <3>6 DEF RecheckMiss, Goto
    <3>7. CASE VerifyPasses(r)
      BY <3>7 DEF VerifyPasses, Goto
    <3>8. CASE VerifyFails(r)
      BY <3>8 DEF VerifyFails, LeaveTry, Problem
    <3>9. CASE CreateReceived(r)
      BY <3>9 DEF CreateReceived, InsertRow, Row, Goto
    <3>10. CASE DuplicateKey(r)
      BY <3>10 DEF DuplicateKey, LeaveTry, Problem
    <3>11. CASE EnqueueJob(r)
      BY <3>11 DEF EnqueueJob, PushJob, Job, Goto
    <3>12. CASE CacheAccepted(r)
      BY <3>12 DEF CacheAccepted, StoreResponse, LeaveTry, Queued
    <3>13. CASE Unlock(r)
      BY <3>13 DEF Unlock, DeleteLock, Goto
    <3> QED
      BY <2>4, <3>1, <3>2, <3>3, <3>4, <3>5, <3>6, <3>7, <3>8, <3>9, <3>10,
         <3>11, <3>12, <3>13 DEF Handle
  <2>5. ASSUME NEW r \in Requests, CallFails(r)
        PROVE  TypeOK'
    <3>1. CASE GetOrLockRaises(r)
      BY <3>1 DEF GetOrLockRaises, Respond, Problem, SetLock
    <3>2. CASE CallInTryRaises(r)
      BY <3>2 DEF CallInTryRaises, LeaveTry, Problem, InsertRow, Row, PushJob,
           Job, StoreResponse
    <3>3. CASE UnlockRaises(r)
      BY <3>3 DEF UnlockRaises, Respond, Problem, DeleteLock
    <3> QED
      BY <2>5, <3>1, <3>2, <3>3 DEF CallFails
  <2>6. ASSUME NEW r \in Requests, Crash(r)
        PROVE  TypeOK'
    BY <2>6 DEF Crash, NoAnswer
  <2>7. ASSUME NEW k \in Keys, LockExpires(k)
        PROVE  TypeOK'
    BY <2>7 DEF LockExpires
  <2>8. ASSUME NEW k \in Keys, CacheExpires(k)
        PROVE  TypeOK'
    BY <2>8 DEF CacheExpires
  <2> QED
    BY <2>1, <2>2, <2>3, <2>4, <2>5, <2>6, <2>7, <2>8 DEF Next
<1> QED
  BY <1>1, <1>2, PTL DEF Spec

-----------------------------------------------------------------------------
(* What rows, jobs, cache entries and answers say about each other.  The   *)
(* properties are not inductive: that a key has one job rests on its one   *)
(* row, on a request queueing nothing but its own row, and on where the    *)
(* creator of a row stands.                                                *)

RowsNameTheirCreator ==
  \A row \in rows :
    /\ key[row.id] = row.key
    /\ pc[row.id] \in {"enqueue", "store", "unlock", "done", "crashed"}

OneRowPerKey ==
  \A a, b \in rows : a.key = b.key => a = b

OwnRowAndJob ==
  \A r \in Requests :
    /\ pc[r] \in {"enqueue", "store"} => Row(r, key[r]) \in rows
    /\ pc[r] = "store" => Job(r, key[r]) \in jobs
    /\ pc[r] = "idle" => answer[r].status # 202

Bookkeeping ==
  /\ TypeOK
  /\ RowsNameTheirCreator
  /\ OneRowPerKey
  /\ OwnRowAndJob
  /\ PersistedBeforeQueued
  /\ AcceptedIsDurable

LEMMA BookkeepingInvariant == Spec => []Bookkeeping
<1> USE ConstantsAssumption
<1>1. Init => Bookkeeping
  BY DEF Init, TypeOK, Bookkeeping, RowsNameTheirCreator, OneRowPerKey,
     OwnRowAndJob, PersistedBeforeQueued, AcceptedIsDurable, NoAnswer,
     Running, InTry, Statuses
<1>2. TypeOK' /\ Bookkeeping /\ [Next]_vars => Bookkeeping'
  <2> SUFFICES ASSUME TypeOK', Bookkeeping, [Next]_vars
               PROVE  Bookkeeping'
    OBVIOUS
  <2> USE DEF Bookkeeping, RowsNameTheirCreator, OneRowPerKey, OwnRowAndJob,
         PersistedBeforeQueued, AcceptedIsDurable, TypeOK, Running, InTry,
         stores, Row, Job, KeyPersisted
  <2>1. CASE UNCHANGED vars
    BY <2>1 DEF vars
  <2>2. ASSUME NEW r \in Requests, RejectMissingKey(r)
        PROVE  Bookkeeping'
    BY <2>2 DEF RejectMissingKey, Respond, Problem, NoAnswer
  <2>3. ASSUME NEW r \in Requests, NEW k \in Keys, Receive(r, k)
        PROVE  Bookkeeping'
    <3>1. pc' = [pc EXCEPT ![r] = "get"] /\ key' = [key EXCEPT ![r] = k]
      BY <2>3 DEF Receive
    <3>2. pc[r] = "idle" /\ UNCHANGED <<answer, cache, lock, rows, jobs>>
      BY <2>3 DEF Receive
    <3>3. RowsNameTheirCreator'
      BY <3>1, <3>2
    <3>4. OneRowPerKey' /\ PersistedBeforeQueued'
      BY <3>2
    <3>5. OwnRowAndJob'
      BY <3>1, <3>2
    <3>6. AcceptedIsDurable'
      <4>1. answer[r].status # 202
        BY <3>2
      <4>2. \A q \in Requests : q # r => key'[q] = key[q]
        BY <3>1
      <4>3. ASSUME NEW q \in Requests, answer'[q].status = 202
            PROVE  /\ Job(answer'[q].event, key'[q]) \in jobs'
                   /\ Row(answer'[q].event, key'[q]) \in rows'
        <5>1. q # r
          BY <3>2, <4>1, <4>3
        <5>2. key'[q] = key[q] /\ answer'[q] = answer[q]
          BY <3>2, <4>2, <5>1
        <5> QED
          BY <3>2, <4>3, <5>2
      <4>4. \A c \in Keys : cache'[c] # None => Job(cache'[c], c) \in jobs'
        BY <3>2
      <4> QED
        BY <4>3, <4>4
    <3> QED
      BY <3>3, <3>4, <3>5, <3>6
  <2>4. ASSUME NEW r \in Requests, Handle(r)
        PROVE  Bookkeeping'
    <3>1. CASE LookupHit(r)
      BY <3>1 DEF LookupHit, Respond, Queued
    <3>2. CASE LookupMiss(r)
      BY <3>2 DEF LookupMiss, Goto
    <3>3. CASE AcquireLock(r)
      BY <3>3 DEF AcquireLock, SetLock, Goto
    <3>4. CASE LockHeld(r)
      BY <3>4 DEF LockHeld, Respond, Problem
    <3>5. CASE RecheckHit(r)
      BY <3>5 DEF RecheckHit, LeaveTry, Queued
    <3>6. CASE RecheckMiss(r)
      BY <3>6 DEF RecheckMiss, Goto
    <3>7. CASE VerifyPasses(r)
      BY <3>7 DEF VerifyPasses, Goto
    <3>8. CASE VerifyFails(r)
      BY <3>8 DEF VerifyFails, LeaveTry, Problem
    <3>9. CASE CreateReceived(r)
      BY <3>9 DEF CreateReceived, InsertRow, Row, Goto
    <3>10. CASE DuplicateKey(r)
      BY <3>10 DEF DuplicateKey, LeaveTry, Problem
    <3>11. CASE EnqueueJob(r)
      BY <3>11 DEF EnqueueJob, PushJob, Job, Goto
    <3>12. CASE CacheAccepted(r)
      <4>1. /\ pc[r] = "store"
            /\ pc' = [pc EXCEPT ![r] = "unlock"]
            /\ answer' = [answer EXCEPT ![r] = Queued(r)]
            /\ cache' = [cache EXCEPT ![key[r]] = r]
            /\ UNCHANGED <<key, lock, rows, jobs>>
        BY <3>12 DEF CacheAccepted, StoreResponse, LeaveTry
      <4>2. Job(r, key[r]) \in jobs /\ Row(r, key[r]) \in rows
        BY <4>1
      <4>3. RowsNameTheirCreator' /\ OneRowPerKey' /\ PersistedBeforeQueued'
        BY <4>1
      <4>4. OwnRowAndJob'
        BY <4>1
      <4>5. AcceptedIsDurable'
        BY <4>1, <4>2 DEF Queued
      <4> QED
        BY <4>3, <4>4, <4>5
    <3>13. CASE Unlock(r)
      BY <3>13 DEF Unlock, DeleteLock, Goto
    <3> QED
      BY <2>4, <3>1, <3>2, <3>3, <3>4, <3>5, <3>6, <3>7, <3>8,
         <3>9, <3>10, <3>11, <3>12, <3>13 DEF Handle
  <2>5. ASSUME NEW r \in Requests, CallFails(r)
        PROVE  Bookkeeping'
    <3>1. CASE GetOrLockRaises(r)
      BY <3>1 DEF GetOrLockRaises, Respond, Problem, SetLock
    <3>2. CASE CallInTryRaises(r)
      <4> DEFINE Left == /\ pc' = [pc EXCEPT ![r] = "unlock"]
                         /\ answer' = [answer EXCEPT ![r] = Problem(500)]
                         /\ UNCHANGED key
      <4>1. pc[r] \in InTry /\ Left
        BY <3>2 DEF CallInTryRaises, LeaveTry
      <4>2. CASE UNCHANGED stores
        BY <4>1, <4>2 DEF Problem
      <4>3. CASE pc[r] = "insert" /\ InsertRow(r)
        BY <4>1, <4>3 DEF Problem, InsertRow
      <4>4. CASE pc[r] = "enqueue" /\ PushJob(r)
        BY <4>1, <4>4 DEF Problem, PushJob
      <4>5. CASE pc[r] = "store" /\ StoreResponse(r)
        <5>1. /\ cache' = [cache EXCEPT ![key[r]] = r]
              /\ UNCHANGED <<lock, rows, jobs>>
          BY <4>5 DEF StoreResponse
        <5>2. RowsNameTheirCreator' /\ OneRowPerKey' /\ PersistedBeforeQueued'
          BY <4>1, <5>1
        <5>3. OwnRowAndJob'
          BY <4>1, <5>1
        <5>4. AcceptedIsDurable'
          <6>1. \A q \in Requests :
                  answer'[q].status = 202 => q # r /\ answer'[q] = answer[q]
            BY <4>1 DEF Problem
          <6>2. \A q \in Requests :
                  answer'[q].status = 202 =>
                    /\ Job(answer'[q].event, key'[q]) \in jobs'
                    /\ Row(answer'[q].event, key'[q]) \in rows'
            BY <4>1, <5>1, <6>1
          <6>3. \A c \in Keys : cache'[c] # None => Job(cache'[c], c) \in jobs'
            BY <4>5, <5>1
          <6> QED
            BY <6>2, <6>3
        <5> QED
          BY <5>2, <5>3, <5>4
      <4> QED
        BY <3>2, <4>2, <4>3, <4>4, <4>5 DEF CallInTryRaises
    <3>3. CASE UnlockRaises(r)
      BY <3>3 DEF UnlockRaises, Respond, Problem, DeleteLock
    <3> QED
      BY <2>5, <3>1, <3>2, <3>3 DEF CallFails
  <2>6. ASSUME NEW r \in Requests, Crash(r)
        PROVE  Bookkeeping'
    BY <2>6 DEF Crash, NoAnswer
  <2>7. ASSUME NEW k \in Keys, LockExpires(k)
        PROVE  Bookkeeping'
    BY <2>7 DEF LockExpires
  <2>8. ASSUME NEW k \in Keys, CacheExpires(k)
        PROVE  Bookkeeping'
    BY <2>8 DEF CacheExpires
  <2> QED
    BY <2>1, <2>2, <2>3, <2>4, <2>5, <2>6, <2>7, <2>8 DEF Next
<1> QED
  BY <1>1, <1>2, TypeCorrect, PTL DEF Spec

\* No second job is ever queued for a key.
THEOREM QueuesOnce == Spec => []OneJobPerKey
<1>1. Bookkeeping => OneJobPerKey
  <2> SUFFICES ASSUME Bookkeeping,
                      NEW j1 \in jobs, NEW j2 \in jobs, j1.key = j2.key
               PROVE  j1 = j2
    BY DEF OneJobPerKey
  <2>1. Row(j1.event, j1.key) = Row(j2.event, j2.key)
    BY DEF Bookkeeping, PersistedBeforeQueued, OneRowPerKey, Row
  <2>2. j1.event = j2.event
    BY <2>1 DEF Row
  <2> QED
    BY <2>2 DEF Bookkeeping, TypeOK
<1> QED
  BY <1>1, BookkeepingInvariant, PTL

\* All clients that are told 202 for a key are told the same event.
THEOREM AnswersConsistently == Spec => []AnswersAgree
<1>1. Bookkeeping => AnswersAgree
  <2> SUFFICES ASSUME Bookkeeping,
                      NEW r1 \in Requests, NEW r2 \in Requests,
                      key[r1] = key[r2],
                      answer[r1].status = 202, answer[r2].status = 202
               PROVE  answer[r1].event = answer[r2].event
    BY DEF AnswersAgree
  <2> DEFINE row1 == Row(answer[r1].event, key[r1])
             row2 == Row(answer[r2].event, key[r2])
  <2>1. row1 \in rows /\ row2 \in rows
    BY DEF Bookkeeping, AcceptedIsDurable
  <2>2. row1.key = row2.key
    BY DEF Row
  <2>3. row1 = row2
    BY <2>1, <2>2 DEF Bookkeeping, OneRowPerKey
  <2> QED
    BY <2>3 DEF Row
<1> QED
  BY <1>1, BookkeepingInvariant, PTL

\* A 202, sent or cached, stands for a committed row and a queued job.
THEOREM AcceptsDurably == Spec => []AcceptedIsDurable
<1>1. Bookkeeping => AcceptedIsDurable
  BY DEF Bookkeeping
<1> QED
  BY <1>1, BookkeepingInvariant, PTL

\* The row of every queued job is committed.
THEOREM PersistsFirst == Spec => []PersistedBeforeQueued
<1>1. Bookkeeping => PersistedBeforeQueued
  BY DEF Bookkeeping
<1> QED
  BY <1>1, BookkeepingInvariant, PTL

-----------------------------------------------------------------------------
(* Mutual exclusion: between the lock and the end of `finally` a request   *)
(* is the one its key's lock names.                                        *)

HolderIsInside ==
  \A r \in Requests : InCriticalSection(r) => lock[key[r]] = r

LEMMA LockInvariant ==
  ASSUME "lock_expires" \notin Hazards
  PROVE  Spec => []HolderIsInside
<1> USE ConstantsAssumption
<1>1. Init => HolderIsInside
  BY DEF Init, HolderIsInside, InCriticalSection, InTry
<1>2. TypeOK /\ HolderIsInside /\ [Next]_vars => HolderIsInside'
  <2> SUFFICES ASSUME TypeOK, HolderIsInside, [Next]_vars
               PROVE  HolderIsInside'
    OBVIOUS
  <2> USE DEF HolderIsInside, InCriticalSection, TypeOK, Running, InTry, stores
  <2>1. CASE UNCHANGED vars
    BY <2>1 DEF vars
  <2>2. ASSUME NEW r \in Requests, RejectMissingKey(r)
        PROVE  HolderIsInside'
    BY <2>2 DEF RejectMissingKey, Respond
  <2>3. ASSUME NEW r \in Requests, NEW k \in Keys, Receive(r, k)
        PROVE  HolderIsInside'
    BY <2>3 DEF Receive
  <2>4. ASSUME NEW r \in Requests, Handle(r)
        PROVE  HolderIsInside'
    <3>1. CASE LookupHit(r)
      BY <3>1 DEF LookupHit, Respond, Queued
    <3>2. CASE LookupMiss(r)
      BY <3>2 DEF LookupMiss, Goto
    <3>3. CASE AcquireLock(r)
      BY <3>3 DEF AcquireLock, SetLock, Goto
    <3>4. CASE LockHeld(r)
      BY <3>4 DEF LockHeld, Respond, Problem
    <3>5. CASE RecheckHit(r)
      BY <3>5 DEF RecheckHit, LeaveTry, Queued
    <3>6. CASE RecheckMiss(r)
      BY <3>6 DEF RecheckMiss, Goto
    <3>7. CASE VerifyPasses(r)
      BY <3>7 DEF VerifyPasses, Goto
    <3>8. CASE VerifyFails(r)
      BY <3>8 DEF VerifyFails, LeaveTry, Problem
    <3>9. CASE CreateReceived(r)
      BY <3>9 DEF CreateReceived, InsertRow, Row, Goto
    <3>10. CASE DuplicateKey(r)
      BY <3>10 DEF DuplicateKey, LeaveTry, Problem
    <3>11. CASE EnqueueJob(r)
      BY <3>11 DEF EnqueueJob, PushJob, Job, Goto
    <3>12. CASE CacheAccepted(r)
      BY <3>12 DEF CacheAccepted, StoreResponse, LeaveTry, Queued
    <3>13. CASE Unlock(r)
      BY <3>13 DEF Unlock, DeleteLock, Goto
    <3> QED
      BY <2>4, <3>1, <3>2, <3>3, <3>4, <3>5, <3>6, <3>7, <3>8, <3>9, <3>10,
         <3>11, <3>12, <3>13 DEF Handle
  <2>5. ASSUME NEW r \in Requests, CallFails(r)
        PROVE  HolderIsInside'
    <3>1. CASE GetOrLockRaises(r)
      BY <3>1 DEF GetOrLockRaises, Respond, SetLock
    <3>2. CASE CallInTryRaises(r)
      BY <3>2 DEF CallInTryRaises, LeaveTry, InsertRow, Row, PushJob, Job,
           StoreResponse
    <3>3. CASE UnlockRaises(r)
      BY <3>3 DEF UnlockRaises, Respond, DeleteLock
    <3> QED
      BY <2>5, <3>1, <3>2, <3>3 DEF CallFails
  <2>6. ASSUME NEW r \in Requests, Crash(r)
        PROVE  HolderIsInside'
    BY <2>6 DEF Crash
  <2>7. ASSUME NEW k \in Keys, LockExpires(k)
        PROVE  HolderIsInside'
    BY <2>7 DEF LockExpires
  <2>8. ASSUME NEW k \in Keys, CacheExpires(k)
        PROVE  HolderIsInside'
    BY <2>8 DEF CacheExpires
  <2> QED
    BY <2>1, <2>2, <2>3, <2>4, <2>5, <2>6, <2>7, <2>8 DEF Next
<1> QED
  BY <1>1, <1>2, TypeCorrect, PTL DEF Spec

\* Without an expiry under a running holder, no two requests with one key
\* are inside the try block together.
THEOREM ExcludesMutually ==
  ASSUME "lock_expires" \notin Hazards
  PROVE  Spec => []MutualExclusion
<1>1. HolderIsInside => MutualExclusion
  BY DEF HolderIsInside, MutualExclusion
<1> QED
  BY <1>1, LockInvariant, PTL

-----------------------------------------------------------------------------
(* The second lookup is enough: when no call fails and nothing expires, a  *)
(* row of a key is cached, is being finished by the holder of the lock, or *)
(* was left behind by a crash whose lock then stands for ever.             *)

RowAccounted(row) ==
  \/ cache[row.key] # None
  \/ pc[row.id] \in {"enqueue", "store"}
  \/ pc[row.id] = "crashed" /\ lock[row.key] = row.id

Absorbed ==
  /\ \A row \in rows : RowAccounted(row)
  /\ \A r \in Requests :
       pc[r] \in {"verify", "insert"} => ~KeyPersisted(key[r])

LEMMA AbsorbedInvariant ==
  ASSUME Hazards \subseteq {"crash"}
  PROVE  Spec => []Absorbed
<1> USE ConstantsAssumption
<1>1. Init => Absorbed
  BY DEF Init, Absorbed
<1>2. Bookkeeping /\ HolderIsInside /\ Absorbed /\ [Next]_vars => Absorbed'
  <2> SUFFICES ASSUME Bookkeeping, HolderIsInside, Absorbed, [Next]_vars
               PROVE  Absorbed'
    OBVIOUS
  <2> USE DEF Bookkeeping, TypeOK, RowsNameTheirCreator, HolderIsInside,
         InCriticalSection, Absorbed, RowAccounted, KeyPersisted, Running,
         InTry, stores
  <2>1. CASE UNCHANGED vars
    BY <2>1 DEF vars
  <2>2. ASSUME NEW r \in Requests, RejectMissingKey(r)
        PROVE  Absorbed'
    BY <2>2 DEF RejectMissingKey, Respond
  <2>3. ASSUME NEW r \in Requests, NEW k \in Keys, Receive(r, k)
        PROVE  Absorbed'
    BY <2>3 DEF Receive
  <2>4. ASSUME NEW r \in Requests, Handle(r)
        PROVE  Absorbed'
    <3>1. CASE LookupHit(r)
      BY <3>1 DEF LookupHit, Respond, Queued
    <3>2. CASE LookupMiss(r)
      BY <3>2 DEF LookupMiss, Goto
    <3>3. CASE AcquireLock(r)
      BY <3>3 DEF AcquireLock, SetLock, Goto
    <3>4. CASE LockHeld(r)
      BY <3>4 DEF LockHeld, Respond, Problem
    <3>5. CASE RecheckHit(r)
      BY <3>5 DEF RecheckHit, LeaveTry, Queued
    <3>6. CASE RecheckMiss(r)
      BY <3>6 DEF RecheckMiss, Goto
    <3>7. CASE VerifyPasses(r)
      BY <3>7 DEF VerifyPasses, Goto
    <3>8. CASE VerifyFails(r)
      BY <3>8 DEF VerifyFails, LeaveTry, Problem
    <3>9. CASE CreateReceived(r)
      BY <3>9 DEF CreateReceived, InsertRow, Row, Goto
    <3>10. CASE DuplicateKey(r)
      BY <3>10 DEF DuplicateKey, LeaveTry, Problem
    <3>11. CASE EnqueueJob(r)
      BY <3>11 DEF EnqueueJob, PushJob, Job, Goto
    <3>12. CASE CacheAccepted(r)
      BY <3>12 DEF CacheAccepted, StoreResponse, LeaveTry, Queued
    <3>13. CASE Unlock(r)
      BY <3>13 DEF Unlock, DeleteLock, Goto
    <3> QED
      BY <2>4, <3>1, <3>2, <3>3, <3>4, <3>5, <3>6, <3>7, <3>8, <3>9, <3>10,
         <3>11, <3>12, <3>13 DEF Handle
  <2>5. ASSUME NEW r \in Requests, CallFails(r)
        PROVE  Absorbed'
    BY <2>5 DEF CallFails
  <2>6. ASSUME NEW r \in Requests, Crash(r)
        PROVE  Absorbed'
    BY <2>6 DEF Crash
  <2>7. ASSUME NEW k \in Keys, LockExpires(k)
        PROVE  Absorbed'
    BY <2>7 DEF LockExpires
  <2>8. ASSUME NEW k \in Keys, CacheExpires(k)
        PROVE  Absorbed'
    BY <2>8 DEF CacheExpires
  <2> QED
    BY <2>1, <2>2, <2>3, <2>4, <2>5, <2>6, <2>7, <2>8 DEF Next
<1>3. "lock_expires" \notin Hazards
  OBVIOUS
<1> QED
  BY <1>1, <1>2, <1>3, BookkeepingInvariant, LockInvariant, PTL DEF Spec

\* In that setting no request is sent into the unique constraint.
THEOREM RecheckSuffices ==
  ASSUME Hazards \subseteq {"crash"}
  PROVE  Spec => []ConstraintNeverFires
<1>1. Absorbed => ConstraintNeverFires
  BY DEF Absorbed, ConstraintNeverFires
<1> QED
  BY <1>1, AbsorbedInvariant, PTL

-----------------------------------------------------------------------------
\* Under every set of hazards a lock is that of a request that is inside, that
\* died or that was answered 500: only those leave a lock to its TTL.
THEOREM LocksAreOwned == Spec => []LockIsOwned
<1> USE ConstantsAssumption
<1>1. Init => LockIsOwned
  BY DEF Init, LockIsOwned
<1>2. TypeOK /\ LockIsOwned /\ [Next]_vars => LockIsOwned'
  <2> SUFFICES ASSUME TypeOK, LockIsOwned, [Next]_vars
               PROVE  LockIsOwned'
    OBVIOUS
  <2> USE DEF TypeOK, LockIsOwned, InCriticalSection, Running, InTry, stores
  <2>1. CASE UNCHANGED vars
    BY <2>1 DEF vars
  <2>2. ASSUME NEW r \in Requests,
               pc[r] \in {"idle", "get", "lock"},
               \A q \in Requests \ {r} :
                 pc'[q] = pc[q] /\ key'[q] = key[q] /\ answer'[q] = answer[q],
               lock' = lock
        PROVE  LockIsOwned'
    BY <2>2
  <2>3. ASSUME NEW r \in Requests, pc[r] \in InTry,
               pc'[r] \in InTry \cup {"unlock"},
               \A q \in Requests \ {r} :
                 pc'[q] = pc[q] /\ answer'[q] = answer[q],
               key' = key, lock' = lock
        PROVE  LockIsOwned'
    BY <2>3
  <2>4. ASSUME NEW r \in Requests,
               RejectMissingKey(r) \/ (\E k \in Keys : Receive(r, k))
        PROVE  LockIsOwned'
    BY <2>2, <2>4 DEF RejectMissingKey, Receive, Respond
  <2>5. ASSUME NEW r \in Requests, LookupHit(r) \/ LookupMiss(r) \/ LockHeld(r)
        PROVE  LockIsOwned'
    BY <2>2, <2>5 DEF LookupHit, LookupMiss, LockHeld, Respond, Goto
  <2>6. ASSUME NEW r \in Requests, AcquireLock(r)
        PROVE  LockIsOwned'
    BY <2>6 DEF AcquireLock, SetLock, Goto
  <2>7. ASSUME NEW r \in Requests,
               \/ RecheckHit(r) \/ RecheckMiss(r) \/ VerifyPasses(r)
               \/ VerifyFails(r) \/ DuplicateKey(r)
        PROVE  LockIsOwned'
    BY <2>3, <2>7 DEF RecheckHit, RecheckMiss, VerifyPasses, VerifyFails,
       DuplicateKey, LeaveTry, Goto
  <2>8. ASSUME NEW r \in Requests,
               CreateReceived(r) \/ EnqueueJob(r) \/ CacheAccepted(r)
        PROVE  LockIsOwned'
    BY <2>3, <2>8 DEF CreateReceived, InsertRow, EnqueueJob, PushJob,
       CacheAccepted, StoreResponse, LeaveTry, Goto
  <2>9. ASSUME NEW r \in Requests, Unlock(r)
        PROVE  LockIsOwned'
    BY <2>9 DEF Unlock, DeleteLock, Goto
  <2>10. ASSUME NEW r \in Requests, GetOrLockRaises(r)
         PROVE  LockIsOwned'
    <3>1. CASE UNCHANGED stores
      BY <2>2, <2>10, <3>1 DEF GetOrLockRaises, Respond
    <3>2. CASE SetLock(r)
      BY <2>10, <3>2 DEF GetOrLockRaises, Respond, Problem, SetLock
    <3> QED
      BY <2>10, <3>1, <3>2 DEF GetOrLockRaises
  <2>11. ASSUME NEW r \in Requests, CallInTryRaises(r)
         PROVE  LockIsOwned'
    BY <2>3, <2>11 DEF CallInTryRaises, InsertRow, PushJob, StoreResponse,
       LeaveTry
  <2>12. ASSUME NEW r \in Requests, UnlockRaises(r)
         PROVE  LockIsOwned'
    BY <2>12 DEF UnlockRaises, DeleteLock, Respond, Problem
  <2>13. ASSUME NEW r \in Requests, Crash(r)
         PROVE  LockIsOwned'
    BY <2>13 DEF Crash
  <2>14. ASSUME NEW k \in Keys, LockExpires(k) \/ CacheExpires(k)
         PROVE  LockIsOwned'
    BY <2>14 DEF LockExpires, CacheExpires
  <2> QED
    BY <2>1, <2>4, <2>5, <2>6, <2>7, <2>8, <2>9, <2>10, <2>11, <2>12, <2>13,
       <2>14 DEF Next, Handle, CallFails
<1> QED
  BY <1>1, <1>2, TypeCorrect, PTL DEF Spec

-----------------------------------------------------------------------------
(* Without faults a lock names a request that is inside, so a 409 is the   *)
(* truth about somebody.                                                   *)

LockNamesHolder ==
  \A k \in Keys :
    lock[k] # None =>
      /\ lock[k] \in Requests /\ key[lock[k]] = k
      /\ InCriticalSection(lock[k])

LEMMA LockNamesHolderInvariant ==
  ASSUME Hazards = {}
  PROVE  Spec => []LockNamesHolder
<1> USE ConstantsAssumption
<1>1. Init => LockNamesHolder
  BY DEF Init, LockNamesHolder
<1>2. TypeOK /\ LockNamesHolder /\ [Next]_vars => LockNamesHolder'
  <2> SUFFICES ASSUME TypeOK, LockNamesHolder, [Next]_vars
               PROVE  LockNamesHolder'
    OBVIOUS
  <2> USE DEF TypeOK, LockNamesHolder, InCriticalSection, Running, InTry,
         stores
  <2>1. CASE UNCHANGED vars
    BY <2>1 DEF vars
  <2>2. ASSUME NEW r \in Requests, pc[r] \notin InTry \cup {"unlock"},
               \A q \in Requests \ {r} : pc'[q] = pc[q] /\ key'[q] = key[q],
               lock' = lock
        PROVE  LockNamesHolder'
    BY <2>2
  <2>3. ASSUME NEW r \in Requests, pc[r] \in InTry,
               pc'[r] \in InTry \cup {"unlock"},
               \A q \in Requests \ {r} : pc'[q] = pc[q],
               key' = key, lock' = lock
        PROVE  LockNamesHolder'
    BY <2>3
  <2>4. ASSUME NEW r \in Requests,
               RejectMissingKey(r) \/ (\E k \in Keys : Receive(r, k))
        PROVE  LockNamesHolder'
    BY <2>2, <2>4 DEF RejectMissingKey, Receive, Respond
  <2>5. ASSUME NEW r \in Requests, LookupHit(r) \/ LookupMiss(r) \/ LockHeld(r)
        PROVE  LockNamesHolder'
    BY <2>2, <2>5 DEF LookupHit, LookupMiss, LockHeld, Respond, Goto
  <2>6. ASSUME NEW r \in Requests, AcquireLock(r)
        PROVE  LockNamesHolder'
    BY <2>6 DEF AcquireLock, SetLock, Goto
  <2>7. ASSUME NEW r \in Requests,
               \/ RecheckHit(r) \/ RecheckMiss(r) \/ VerifyPasses(r)
               \/ VerifyFails(r) \/ DuplicateKey(r)
        PROVE  LockNamesHolder'
    BY <2>3, <2>7 DEF RecheckHit, RecheckMiss, VerifyPasses, VerifyFails,
       DuplicateKey, LeaveTry, Goto
  <2>8. ASSUME NEW r \in Requests,
               CreateReceived(r) \/ EnqueueJob(r) \/ CacheAccepted(r)
        PROVE  LockNamesHolder'
    BY <2>3, <2>8 DEF CreateReceived, InsertRow, EnqueueJob, PushJob,
       CacheAccepted, StoreResponse, LeaveTry, Goto
  <2>9. ASSUME NEW r \in Requests, Unlock(r)
        PROVE  LockNamesHolder'
    BY <2>9 DEF Unlock, DeleteLock, Goto
  <2>10. ASSUME NEW r \in Requests
         PROVE  ~CallFails(r) /\ ~Crash(r)
    BY DEF CallFails, Crash
  <2>11. ASSUME NEW k \in Keys
         PROVE  ~LockExpires(k) /\ ~CacheExpires(k)
    BY DEF LockExpires, CacheExpires
  <2> QED
    BY <2>1, <2>4, <2>5, <2>6, <2>7, <2>8, <2>9, <2>10, <2>11
       DEF Next, Handle
<1> QED
  BY <1>1, <1>2, TypeCorrect, PTL DEF Spec

\* Without faults, a request is told of a conflict only while another one with
\* its key is in flight.
THEOREM ConflictsAreReal ==
  ASSUME Hazards = {}
  PROVE  Spec => ConflictMeansInFlight
<1> USE ConstantsAssumption
<1> DEFINE Step == \A r \in Requests :
             answer'[r].status = 409 /\ answer[r].status # 409
             => InFlight(key[r], r)
<1>1. /\ TypeOK /\ ConstraintNeverFires /\ LockNamesHolder /\ [Next]_vars
      => [Step]_vars
  <2> SUFFICES ASSUME TypeOK, ConstraintNeverFires, LockNamesHolder, Next,
                      NEW r \in Requests, answer'[r].status = 409,
                      answer[r].status # 409
               PROVE  InFlight(key[r], r)
    OBVIOUS
  <2>1. CASE LockHeld(r)
    <3>1. /\ pc[r] = "lock" /\ key[r] \in Keys
          /\ lock[key[r]] \in Requests \ {r}
          /\ key[lock[key[r]]] = key[r]
          /\ pc[lock[key[r]]] \in Running
      BY <2>1 DEF LockHeld, LockNamesHolder, InCriticalSection, InTry,
         Running, TypeOK
    <3> QED
      BY <3>1 DEF InFlight
  <2>2. ~DuplicateKey(r)
    BY DEF DuplicateKey, ConstraintNeverFires
  <2>3. ASSUME NEW a, answer' = [answer EXCEPT ![r] = a], a.status # 409
        PROVE  FALSE
    BY <2>3 DEF TypeOK
  <2>4. ASSUME NEW q \in Requests \ {r}, NEW a,
               answer' = [answer EXCEPT ![q] = a]
        PROVE  FALSE
    BY <2>4 DEF TypeOK
  <2>5. answer' # answer
    OBVIOUS
  <2>6. /\ \A i : Queued(i).status = 202
        /\ \A n : Problem(n).status = n
    BY DEF Queued, Problem
  <2>7. ASSUME NEW q \in Requests, Handle(q)
        PROVE  q = r /\ LockHeld(r)
    <3>1. CASE LookupHit(q)
      BY <2>3, <2>4, <2>6, <3>1 DEF LookupHit, Respond
    <3>2. CASE RecheckHit(q)
      BY <2>3, <2>4, <2>6, <3>2 DEF RecheckHit, LeaveTry
    <3>3. CASE VerifyFails(q)
      <4>1. PICK n \in {401, 422, 500} : LeaveTry(q, Problem(n))
        BY <3>3 DEF VerifyFails
      <4> QED
        BY <2>3, <2>4, <2>6, <4>1 DEF LeaveTry
    <3>4. CASE CacheAccepted(q)
      BY <2>3, <2>4, <2>6, <3>4 DEF CacheAccepted, LeaveTry
    <3>5. CASE LockHeld(q) \/ DuplicateKey(q)
      BY <2>2, <2>4, <3>5 DEF LockHeld, DuplicateKey, Respond, LeaveTry
    <3>6. CASE \/ LookupMiss(q) \/ AcquireLock(q) \/ RecheckMiss(q)
               \/ VerifyPasses(q) \/ CreateReceived(q) \/ EnqueueJob(q)
               \/ Unlock(q)
      BY <2>5, <3>6 DEF LookupMiss, AcquireLock, RecheckMiss, VerifyPasses,
         CreateReceived, EnqueueJob, Unlock, Goto
    <3> QED
      BY <2>7, <3>1, <3>2, <3>3, <3>4, <3>5, <3>6 DEF Handle
  <2>8. ASSUME NEW q \in Requests, RejectMissingKey(q)
        PROVE  FALSE
    BY <2>3, <2>4, <2>6, <2>8 DEF RejectMissingKey, Respond
  <2>9. ASSUME NEW q \in Requests, NEW k \in Keys
        PROVE  ~Receive(q, k) /\ ~CallFails(q) /\ ~Crash(q)
               /\ ~LockExpires(k) /\ ~CacheExpires(k)
    BY <2>5 DEF Receive, CallFails, Crash, LockExpires, CacheExpires
  <2>10. ASSUME NEW q \in Requests
         PROVE  ~CallFails(q) /\ ~Crash(q)
    BY DEF CallFails, Crash
  <2> QED
    BY <2>1, <2>7, <2>8, <2>9, <2>10 DEF Next
<1>2. Hazards \subseteq {"crash"}
  OBVIOUS
<1> QED
  BY <1>1, <1>2, TypeCorrect, RecheckSuffices, LockNamesHolderInvariant, PTL
     DEF Spec, ConflictMeansInFlight

-----------------------------------------------------------------------------
(* What the queue sees of the intake: a request pushes its own job, once.  *)

PushedIsPast ==
  \A j \in jobs : pc[j.event] \in {"store", "unlock", "done", "crashed"}

\* A step pushes no job, or the job of a request that has none.
LEMMA PushIsFresh ==
  ASSUME Bookkeeping, PushedIsPast, Next
  PROVE  \/ jobs' = jobs
         \/ \E r \in Requests :
              /\ key[r] \in Keys /\ pc[r] = "enqueue"
              /\ jobs' = jobs \cup {Job(r, key[r])}
              /\ \A j \in jobs : j.event # r
<1>1. ASSUME NEW r \in Requests, pc[r] = "enqueue", PushJob(r)
      PROVE  /\ key[r] \in Keys /\ pc[r] = "enqueue"
             /\ jobs' = jobs \cup {Job(r, key[r])}
             /\ \A j \in jobs : j.event # r
  BY <1>1 DEF Bookkeeping, TypeOK, Running, InTry, PushedIsPast, PushJob
<1>2. CASE \E r \in Requests : EnqueueJob(r) \/ CallInTryRaises(r)
  BY <1>1, <1>2 DEF EnqueueJob, CallInTryRaises, InsertRow, StoreResponse,
     stores
<1>3. CASE \E r \in Requests :
             \/ RejectMissingKey(r) \/ (\E k \in Keys : Receive(r, k))
             \/ Handle(r) /\ ~EnqueueJob(r)
             \/ GetOrLockRaises(r) \/ UnlockRaises(r) \/ Crash(r)
  BY <1>3 DEF RejectMissingKey, Receive, Handle, LookupHit, LookupMiss,
     AcquireLock, LockHeld, RecheckHit, RecheckMiss, VerifyPasses,
     VerifyFails, CreateReceived, DuplicateKey, CacheAccepted, Unlock,
     GetOrLockRaises, UnlockRaises, Crash, SetLock, InsertRow, StoreResponse,
     DeleteLock, stores
<1>4. CASE \E k \in Keys : LockExpires(k) \/ CacheExpires(k)
  BY <1>4 DEF LockExpires, CacheExpires
<1> QED
  BY <1>2, <1>3, <1>4 DEF Next, CallFails

LEMMA PushedIsPastInvariant == Spec => []PushedIsPast
<1>1. Init => PushedIsPast
  BY DEF Init, PushedIsPast
<1>2. Bookkeeping /\ PushedIsPast /\ [Next]_vars => PushedIsPast'
  <2> SUFFICES ASSUME Bookkeeping, PushedIsPast, [Next]_vars
               PROVE  PushedIsPast'
    OBVIOUS
  <2> USE DEF PushedIsPast, Bookkeeping, TypeOK, InTry, stores
  <2>1. CASE UNCHANGED vars
    BY <2>1 DEF vars
  <2>2. ASSUME NEW r \in Requests, RejectMissingKey(r)
        PROVE  PushedIsPast'
    BY <2>2 DEF RejectMissingKey, Respond
  <2>3. ASSUME NEW r \in Requests, NEW k \in Keys, Receive(r, k)
        PROVE  PushedIsPast'
    BY <2>3 DEF Receive
  <2>4. ASSUME NEW r \in Requests, Handle(r)
        PROVE  PushedIsPast'
    <3>1. CASE LookupHit(r) \/ LockHeld(r)
      BY <3>1 DEF LookupHit, LockHeld, Respond
    <3>2. CASE LookupMiss(r) \/ AcquireLock(r) \/ RecheckMiss(r)
               \/ VerifyPasses(r) \/ CreateReceived(r) \/ Unlock(r)
      BY <3>2 DEF LookupMiss, AcquireLock, RecheckMiss, VerifyPasses,
         CreateReceived, Unlock, Goto, SetLock, InsertRow, DeleteLock
    <3>3. CASE RecheckHit(r) \/ VerifyFails(r) \/ DuplicateKey(r)
               \/ CacheAccepted(r)
      BY <3>3 DEF RecheckHit, VerifyFails, DuplicateKey, CacheAccepted,
         LeaveTry, StoreResponse
    <3>4. CASE EnqueueJob(r)
      BY <3>4 DEF EnqueueJob, PushJob, Job, Goto
    <3> QED
      BY <2>4, <3>1, <3>2, <3>3, <3>4 DEF Handle
  <2>5. ASSUME NEW r \in Requests, CallFails(r)
        PROVE  PushedIsPast'
    <3>1. CASE GetOrLockRaises(r) \/ UnlockRaises(r)
      BY <3>1 DEF GetOrLockRaises, UnlockRaises, Respond, SetLock, DeleteLock
    <3>2. CASE CallInTryRaises(r)
      BY <3>2 DEF CallInTryRaises, LeaveTry, InsertRow, PushJob, Job,
         StoreResponse
    <3> QED
      BY <2>5, <3>1, <3>2 DEF CallFails
  <2>6. ASSUME NEW r \in Requests, Crash(r)
        PROVE  PushedIsPast'
    BY <2>6 DEF Crash
  <2>7. ASSUME NEW k \in Keys, LockExpires(k) \/ CacheExpires(k)
        PROVE  PushedIsPast'
    BY <2>7 DEF LockExpires, CacheExpires
  <2> HIDE DEF PushedIsPast
  <2> QED
    BY <2>1, <2>2, <2>3, <2>4, <2>5, <2>6, <2>7 DEF Next
<1> QED
  BY <1>1, <1>2, BookkeepingInvariant, PTL DEF Spec

-----------------------------------------------------------------------------
(* Ingest implements IdempotentIntake.  A push is the abstract Queue, the  *)
(* response that leaves the handler is Accept or Refuse, and the cache,    *)
(* the lock, the row and all expiries are invisible.                       *)

Refused == Statuses \ {202}

Prepared ==
  \A r \in Requests :
    /\ pc[r] = "idle" => key[r] = None
    /\ pc[r] = "unlock" =>
         \/ answer[r] = Queued(answer[r].event)
         \/ \E status \in Refused : answer[r] = Problem(status)

LEMMA PreparedInvariant == Spec => []Prepared
<1>1. Init => Prepared
  BY DEF Init, Prepared
<1>2. TypeOK /\ Prepared /\ [Next]_vars => Prepared'
  <2> SUFFICES ASSUME TypeOK, Prepared, [Next]_vars
               PROVE  Prepared'
    OBVIOUS
  <2> USE DEF TypeOK, Prepared, Refused, Statuses, InTry, Running, stores
  <2>1. CASE UNCHANGED vars
    BY <2>1 DEF vars
  <2>2. ASSUME NEW r \in Requests,
               \/ RejectMissingKey(r) \/ LookupHit(r) \/ LockHeld(r)
               \/ GetOrLockRaises(r) \/ UnlockRaises(r)
        PROVE  Prepared'
    <3>1. \E a : Respond(r, a)
      BY <2>2 DEF RejectMissingKey, LookupHit, LockHeld, GetOrLockRaises,
         UnlockRaises
    <3> QED
      BY <3>1 DEF Respond
  <2>3. ASSUME NEW r \in Requests, NEW k \in Keys, Receive(r, k)
        PROVE  Prepared'
    BY <2>3 DEF Receive
  <2>4. ASSUME NEW r \in Requests,
               \/ LookupMiss(r) \/ AcquireLock(r) \/ RecheckMiss(r)
               \/ VerifyPasses(r) \/ CreateReceived(r) \/ EnqueueJob(r)
               \/ Unlock(r)
        PROVE  Prepared'
    BY <2>4 DEF LookupMiss, AcquireLock, RecheckMiss, VerifyPasses,
       CreateReceived, EnqueueJob, Unlock, Goto
  <2>5. ASSUME NEW r \in Requests, NEW e, LeaveTry(r, Queued(e))
        PROVE  Prepared'
    <3>1. Queued(e) = Queued(Queued(e).event)
      BY DEF Queued
    <3> HIDE DEF Refused
    <3> QED
      BY <2>5, <3>1 DEF LeaveTry
  <2>6. ASSUME NEW r \in Requests, NEW status \in Refused,
               LeaveTry(r, Problem(status))
        PROVE  Prepared'
    BY <2>6 DEF LeaveTry
  <2>7. ASSUME NEW r \in Requests,
               \/ RecheckHit(r) \/ VerifyFails(r) \/ DuplicateKey(r)
               \/ CacheAccepted(r) \/ CallInTryRaises(r)
        PROVE  Prepared'
    <3>1. {401, 409, 422, 500} \subseteq Refused
      OBVIOUS
    <3> HIDE DEF Refused, Prepared
    <3> QED
      BY <2>5, <2>6, <2>7, <3>1 DEF RecheckHit, VerifyFails, DuplicateKey,
         CacheAccepted, CallInTryRaises
  <2>8. ASSUME NEW r \in Requests, Crash(r)
        PROVE  Prepared'
    BY <2>8 DEF Crash
  <2>9. ASSUME NEW k \in Keys, LockExpires(k) \/ CacheExpires(k)
        PROVE  Prepared'
    BY <2>9 DEF LockExpires, CacheExpires
  <2> HIDE DEF Prepared
  <2> QED
    BY <2>1, <2>2, <2>3, <2>4, <2>7, <2>8, <2>9 DEF Next, Handle, CallFails
<1> QED
  BY <1>1, <1>2, TypeCorrect, PTL DEF Spec

\* The job of a key is the one that eventOf names.
LEMMA OnlyJob ==
  ASSUME NEW J, \A j1, j2 \in J : j1.key = j2.key => j1 = j2, NEW j \in J
  PROVE  (CHOOSE i \in J : i.key = j.key) = j
<1>1. PICK c : c = CHOOSE i \in J : i.key = j.key
  OBVIOUS
<1>2. c \in J /\ c.key = j.key
  BY <1>1
<1> QED
  BY <1>1, <1>2

LEMMA EventOfJob ==
  ASSUME TypeOK, OneJobPerKey, NEW r \in Requests, NEW k \in Keys,
         Job(r, k) \in jobs
  PROVE  eventOf[k] = r
<1> DEFINE j == Job(r, k)
<1>1. j \in jobs /\ j.key = k /\ j.event = r
  BY DEF Job
<1>2. (CHOOSE i \in jobs : i.key = k) = j
  BY <1>1, OnlyJob DEF OneJobPerKey
<1> QED
  BY <1>1, <1>2 DEF eventOf

\* A request that goes on without answering is not seen, unless it pushes.
LEMMA GoingOnIsUnseen ==
  ASSUME NEW r \in Requests, pc[r] # "done", pc'[r] # "done",
         \A q \in Requests \ {r} : pc'[q] = pc[q] /\ answer'[q] = answer[q]
  PROVE  UNCHANGED replyOf
BY DEF replyOf

\* The response of the handler is an answer as the promise allows it.
LEMMA AnswerIsPromised ==
  ASSUME TypeOK, OneJobPerKey, NEW r \in Requests, NEW a, Respond(r, a),
         pc[r] # "done", UNCHANGED jobs,
         \/ \E status \in Refused : a = Problem(status)
         \/ key[r] \in Keys /\ a = Queued(a.event)
            /\ a.event \in Requests /\ Job(a.event, key[r]) \in jobs
  PROVE  Promise!Next
<1>1. replyOf[r] = Promise!NoReply
  BY DEF replyOf, NoAnswer, Promise!NoReply, Promise!Reply
<1>2. replyOf' = [replyOf EXCEPT ![r] = a]
  BY DEF Respond, TypeOK, replyOf
<1>3. UNCHANGED <<key, eventOf>>
  BY DEF Respond, eventOf
<1>4. CASE \E status \in Refused : a = Problem(status)
  <2>1. Promise!Refuse(r)
    BY <1>1, <1>2, <1>3, <1>4
       DEF Promise!Refuse, Promise!Reply, Problem, Refused
  <2> QED
    BY <2>1 DEF Promise!Next
<1>5. CASE /\ key[r] \in Keys /\ a = Queued(a.event)
           /\ a.event \in Requests /\ Job(a.event, key[r]) \in jobs
  <2>1. eventOf[key[r]] = a.event
    BY <1>5, EventOfJob
  <2>2. Promise!Accept(r)
    BY <1>1, <1>2, <1>3, <1>5, <2>1, ConstantsAssumption
       DEF Promise!Accept, Promise!Reply, Queued
  <2> QED
    BY <2>2 DEF Promise!Next
<1> QED
  BY <1>4, <1>5

\* A push queues the event of a key that has none.
LEMMA PushIsQueue ==
  ASSUME TypeOK, OneJobPerKey, OneJobPerKey', NEW r \in Requests,
         key[r] \in Keys, pc[r] = "enqueue", \A j \in jobs : j.event # r,
         jobs' = jobs \cup {Job(r, key[r])}, UNCHANGED <<key, replyOf>>
  PROVE  Promise!Next
<1> DEFINE new == Job(r, key[r])
<1>1. new \in jobs' /\ new.key = key[r] /\ new.event = r
  BY DEF Job
<1>2. \A j \in jobs : j.key # key[r]
  BY <1>1 DEF OneJobPerKey
<1>3. eventOf[key[r]] = None
  BY <1>2 DEF eventOf
<1>4. eventOf'[key[r]] = r
  <2>1. (CHOOSE i \in jobs' : i.key = key[r]) = new
    BY <1>1, OnlyJob DEF OneJobPerKey
  <2> QED
    BY <1>1, <2>1 DEF eventOf
<1>5. ASSUME NEW k \in Keys \ {key[r]}
      PROVE  eventOf'[k] = eventOf[k]
  <2>1. CASE \A j \in jobs : j.key # k
    <3>1. \A j \in jobs' : j.key # k
      BY <1>1, <1>5, <2>1
    <3> QED
      BY <2>1, <3>1 DEF eventOf
  <2>2. ASSUME NEW j \in jobs, j.key = k
        PROVE  eventOf'[k] = eventOf[k]
    <3>1. (CHOOSE i \in jobs : i.key = k) = j
      BY <2>2, OnlyJob DEF OneJobPerKey
    <3>2. (CHOOSE i \in jobs' : i.key = k) = j
      BY <2>2, OnlyJob DEF OneJobPerKey
    <3> QED
      BY <2>2, <3>1, <3>2 DEF eventOf
  <2> QED
    BY <2>1, <2>2
<1>6. eventOf' = [eventOf EXCEPT ![key[r]] = r]
  <2>1. eventOf = [k \in Keys |-> eventOf[k]]
    BY DEF eventOf
  <2>2. eventOf' = [k \in Keys |-> eventOf'[k]]
    BY DEF eventOf
  <2> QED
    BY <1>4, <1>5, <2>1, <2>2
<1>7. Promise!Queue(r)
  BY <1>3, <1>6 DEF Promise!Queue, replyOf, NoAnswer, Promise!NoReply,
     Promise!Reply
<1> QED
  BY <1>7 DEF Promise!Next

\* A step that answers nobody and receives nothing: a push, or a stutter.
LEMMA WorkIsPromised ==
  ASSUME Bookkeeping, PushedIsPast, OneJobPerKey, OneJobPerKey',
         Next, UNCHANGED <<key, replyOf>>
  PROVE  [Promise!Next]_(Promise!vars)
<1>1. CASE UNCHANGED jobs
  BY <1>1 DEF Promise!vars, eventOf
<1>2. ASSUME NEW r \in Requests,
             key[r] \in Keys, pc[r] = "enqueue",
             jobs' = jobs \cup {Job(r, key[r])},
             \A j \in jobs : j.event # r
      PROVE  Promise!Next
  BY <1>2, PushIsQueue DEF Bookkeeping
<1> QED
  BY <1>1, <1>2, PushIsFresh

LEMMA StepIsPromised ==
  ASSUME Bookkeeping, PushedIsPast, Prepared, OneJobPerKey, OneJobPerKey',
         [Next]_vars
  PROVE  [Promise!Next]_(Promise!vars)
<1>0. TypeOK /\ AcceptedIsDurable
  BY DEF Bookkeeping
<1>1. CASE UNCHANGED vars
  BY <1>1 DEF vars, Promise!vars, eventOf, replyOf
<1>2. ASSUME NEW r \in Requests, NEW k \in Keys, Receive(r, k)
      PROVE  Promise!Next
  <2>1. /\ key[r] = None /\ replyOf[r] = Promise!NoReply
        /\ key' = [key EXCEPT ![r] = k]
    BY <1>2 DEF Receive, Prepared, replyOf, NoAnswer, Promise!NoReply,
       Promise!Reply
  <2>2. UNCHANGED <<eventOf, replyOf>>
    BY <1>0, <1>2 DEF Receive, eventOf, replyOf, TypeOK
  <2>3. Promise!Send(r, k)
    BY <2>1, <2>2 DEF Promise!Send
  <2> QED
    BY <2>3 DEF Promise!Next
<1>3. ASSUME NEW r \in Requests, RejectMissingKey(r)
      PROVE  Promise!Next
  <2>1. 400 \in Refused
    BY DEF Refused, Statuses
  <2> QED
    BY <1>0, <1>3, <2>1, AnswerIsPromised DEF RejectMissingKey, stores
<1>4. ASSUME NEW r \in Requests, LookupHit(r)
      PROVE  Promise!Next
  <2> DEFINE a == Queued(cache[key[r]])
  <2>1. key[r] \in Keys /\ cache[key[r]] \in Requests
    BY <1>0, <1>4 DEF LookupHit, TypeOK, Running
  <2>2. Job(cache[key[r]], key[r]) \in jobs
    BY <1>0, <1>4, <2>1 DEF LookupHit, AcceptedIsDurable
  <2>3. a.event = cache[key[r]] /\ a = Queued(a.event)
    BY DEF Queued
  <2>4. Respond(r, a) /\ pc[r] # "done" /\ UNCHANGED jobs
    BY <1>4 DEF LookupHit, stores
  <2> HIDE DEF a
  <2> QED
    BY <1>0, <2>1, <2>2, <2>3, <2>4, AnswerIsPromised
<1>5. ASSUME NEW r \in Requests,
             LockHeld(r) \/ GetOrLockRaises(r) \/ UnlockRaises(r)
      PROVE  Promise!Next
  <2>1. 409 \in Refused /\ 500 \in Refused
    BY DEF Refused, Statuses
  <2>2. /\ pc[r] # "done" /\ UNCHANGED jobs
        /\ \E status \in {409, 500} : Respond(r, Problem(status))
    BY <1>5 DEF LockHeld, GetOrLockRaises, UnlockRaises, stores, SetLock,
       DeleteLock
  <2> QED
    BY <1>0, <2>1, <2>2, AnswerIsPromised
<1>6. ASSUME NEW r \in Requests, Unlock(r)
      PROVE  Promise!Next
  <2>1. /\ Respond(r, answer[r]) /\ pc[r] = "unlock" /\ UNCHANGED jobs
        /\ key[r] \in Keys
    BY <1>0, <1>6
       DEF Unlock, Goto, Respond, DeleteLock, TypeOK, Running
  <2>2. CASE \E status \in Refused : answer[r] = Problem(status)
    BY <1>0, <2>1, <2>2, AnswerIsPromised
  <2>3. CASE answer[r] = Queued(answer[r].event)
    <3>1. answer[r].status = 202
      BY <2>3 DEF Queued
    <3>2. Job(answer[r].event, key[r]) \in jobs
      BY <1>0, <3>1 DEF AcceptedIsDurable
    <3>3. answer[r].event \in Requests
      BY <1>0, <3>2 DEF TypeOK, Job
    <3> QED
      BY <1>0, <2>1, <2>3, <3>2, <3>3, AnswerIsPromised
  <2> QED
    BY <2>1, <2>2, <2>3 DEF Prepared
<1>7. ASSUME NEW r \in Requests,
             \/ LookupMiss(r) \/ AcquireLock(r) \/ RecheckMiss(r)
             \/ VerifyPasses(r) \/ CreateReceived(r) \/ EnqueueJob(r)
             \/ RecheckHit(r) \/ VerifyFails(r) \/ DuplicateKey(r)
             \/ CacheAccepted(r) \/ CallInTryRaises(r) \/ Crash(r)
      PROVE  UNCHANGED <<key, replyOf>>
  <2>1. /\ UNCHANGED key /\ pc[r] # "done" /\ pc'[r] # "done"
        /\ \A q \in Requests \ {r} : pc'[q] = pc[q] /\ answer'[q] = answer[q]
    BY <1>0, <1>7 DEF LookupMiss, AcquireLock, RecheckMiss, VerifyPasses,
       CreateReceived, EnqueueJob, RecheckHit, VerifyFails, DuplicateKey,
       CacheAccepted, CallInTryRaises, Crash, Goto, LeaveTry, TypeOK, InTry,
       Running
  <2> QED
    BY <2>1, GoingOnIsUnseen
<1>8. ASSUME NEW k \in Keys, LockExpires(k) \/ CacheExpires(k)
      PROVE  UNCHANGED <<key, replyOf>>
  BY <1>8 DEF LockExpires, CacheExpires, replyOf
<1>9. CASE Next /\ UNCHANGED <<key, replyOf>>
  BY <1>9, WorkIsPromised
<1> QED
  BY <1>1, <1>2, <1>3, <1>4, <1>5, <1>6, <1>7, <1>8, <1>9
     DEF Next, Handle, CallFails

\* The intake implements IdempotentIntake under every hazard: one event per
\* key, never replaced, and every response that is sent is a refusal or names
\* that event.
THEOREM ServesOnce == Spec => KeyIsServedOnce
<1>1. Init => Promise!Init
  BY DEF Init, NoAnswer, eventOf, replyOf, Promise!Init, Promise!NoReply,
     Promise!Reply
<1> QED
  BY <1>1, StepIsPromised, BookkeepingInvariant, PushedIsPastInvariant,
     PreparedInvariant, QueuesOnce, PTL
     DEF Spec, KeyIsServedOnce, Promise!Spec

-----------------------------------------------------------------------------
(* webhook_received_total.  A request is in no series before its response  *)
(* is built, and in the series of a success until `finally` is over.       *)

SuccessSeries(r) ==
  IF answer[r].status = 202
    THEN {IF answer[r].event = r THEN "accepted" ELSE "cached"}
    ELSE {}

Account(r) ==
  /\ pc[r] \in {"idle", "get", "lock"} \cup InTry => counted[r] = {}
  /\ pc[r] = "unlock" => /\ counted[r] = SuccessSeries(r)
                         /\ answer[r].status # 0
  /\ pc[r] = "done" => CountedLike(r)
  /\ "accepted" \in counted[r] => Job(r, key[r]) \in jobs

Accounted ==
  /\ counted \in [Requests -> SUBSET Series]
  /\ \A r \in Requests : Account(r)

\* Counting gets in the way of nothing.
LEMMA CountingObserves == ReceivedNext => Next
  BY DEF ReceivedNext, Replay, Accept, Refuse, Proceed, Expire, Next, Handle

LEMMA ReceivedIngests == ReceivedSpec => Spec
<1>1. [ReceivedNext]_receivedVars => [Next]_vars
  BY CountingObserves DEF receivedVars
<1> QED
  BY <1>1, PTL DEF ReceivedSpec, ReceivedInit, Spec

\* A lookup finds the event of another request: the cache names a request
\* that is past its own insert.
LEMMA HitIsForeign ==
  ASSUME Bookkeeping, NEW r \in Requests, pc[r] \in {"get", "recheck"},
         cache[key[r]] # None
  PROVE  cache[key[r]] \in Requests \ {r}
<1>1. key[r] \in Keys
  BY DEF Bookkeeping, TypeOK, Running, InTry
<1>2. cache[key[r]] \in Requests
  BY <1>1 DEF Bookkeeping, TypeOK
<1>3. Row(cache[key[r]], key[r]) \in rows
  BY <1>1 DEF Bookkeeping, AcceptedIsDurable, PersistedBeforeQueued, Job, Row
<1>4. pc[cache[key[r]]] \notin {"get", "recheck"}
  BY <1>3 DEF Bookkeeping, RowsNameTheirCreator, Row
<1> QED
  BY <1>2, <1>4

\* A request that takes no step keeps its account.
LEMMA OthersKeepAccounts ==
  ASSUME NEW q, Account(q), jobs \subseteq jobs',
         pc'[q] = pc[q], key'[q] = key[q], answer'[q] = answer[q],
         counted'[q] = counted[q]
  PROVE  Account(q)'
BY DEF Account, SuccessSeries, CountedLike

LEMMA AccountedInvariant == ReceivedSpec => []Accounted
<1>1. ReceivedInit => Accounted
  BY DEF ReceivedInit, Init, Accounted, Account, InTry
<1>2. Bookkeeping /\ Bookkeeping' /\ Accounted /\ [ReceivedNext]_receivedVars
      => Accounted'
  <2> SUFFICES ASSUME Bookkeeping, Bookkeeping', Accounted,
                      [ReceivedNext]_receivedVars
               PROVE  Accounted'
    OBVIOUS
  <2> USE DEF Accounted, Account, CountedLike, SuccessSeries, Series, InTry
  <2>0. TypeOK /\ TypeOK'
    BY DEF Bookkeeping
  <2>1. CASE UNCHANGED receivedVars
    BY <2>1 DEF receivedVars, vars
  <2>2. ASSUME NEW r \in Requests, Replay(r)
        PROVE  Accounted'
    <3>1. /\ cache[key[r]] \in Requests \ {r}
          /\ pc[r] \in {"get", "recheck"}
      BY <2>2, HitIsForeign DEF Replay, LookupHit, RecheckHit
    <3>2. /\ pc' \in {[pc EXCEPT ![r] = "done"], [pc EXCEPT ![r] = "unlock"]}
          /\ answer' = [answer EXCEPT ![r] = Queued(cache[key[r]])]
          /\ counted' = [counted EXCEPT ![r] = @ \cup {"cached"}]
          /\ UNCHANGED <<key, jobs>>
      BY <2>2 DEF Replay, LookupHit, RecheckHit, Respond, LeaveTry, Count,
           stores
    <3>3. Account(r)'
      BY <2>0, <3>1, <3>2 DEF Queued, TypeOK
    <3>4. ASSUME NEW q \in Requests \ {r}
          PROVE  Account(q)'
      BY <2>0, <3>2, OthersKeepAccounts DEF TypeOK
    <3>5. counted' \in [Requests -> SUBSET Series]
      BY <3>2
    <3> HIDE DEF Account
    <3> QED
      BY <3>3, <3>4, <3>5
  <2>3. ASSUME NEW r \in Requests, Accept(r)
        PROVE  Accounted'
    <3>1. /\ pc[r] = "store" /\ Job(r, key[r]) \in jobs
          /\ pc' = [pc EXCEPT ![r] = "unlock"]
          /\ answer' = [answer EXCEPT ![r] = Queued(r)]
          /\ counted' = [counted EXCEPT ![r] = @ \cup {"accepted"}]
          /\ UNCHANGED <<key, jobs>>
      BY <2>3 DEF Accept, CacheAccepted, StoreResponse, LeaveTry, Count,
           Bookkeeping, OwnRowAndJob
    <3> QED
      BY <2>0, <3>1 DEF Queued, TypeOK
  <2>4. ASSUME NEW r \in Requests, Refuse(r)
        PROVE  Accounted'
    <3>1. /\ pc[r] \in {"idle", "lock", "unlock"}
          /\ pc' = [pc EXCEPT ![r] = "done"]
          /\ \A q \in Requests \ {r} : answer'[q] = answer[q]
          /\ UNCHANGED <<key, jobs>>
      BY <2>0, <2>4 DEF Refuse, RejectMissingKey, LockHeld, Unlock, DeleteLock,
           Respond, Goto, stores, TypeOK
    <3>2. /\ answer'[r].status \in Statuses \ {202, 500}
          /\ pc[r] = "unlock" => answer'[r] = answer[r]
          /\ counted' =
               [counted EXCEPT ![r] = @ \cup {SeriesOf[answer'[r].status]}]
      BY <2>4 DEF Refuse, IsWebhookError, SeriesOf, Count, RejectMissingKey,
           LockHeld, Unlock, Goto
    <3>3. counted[r] = {}
      BY <3>1, <3>2
    <3>4. SeriesOf[answer'[r].status] \in Series \ {"accepted", "cached"}
      BY <3>2 DEF SeriesOf, Statuses
    <3> QED
      BY <2>0, <3>1, <3>2, <3>3, <3>4 DEF TypeOK
  <2>5. ASSUME NEW r \in Requests, Proceed(r)
        PROVE  Accounted'
    <3>1. UNCHANGED counted /\ jobs \subseteq jobs'
      BY <2>5 DEF Proceed, Receive, LookupMiss, AcquireLock, SetLock,
           RecheckMiss, VerifyPasses, VerifyFails, CreateReceived, InsertRow,
           DuplicateKey, EnqueueJob, PushJob, Unlock, DeleteLock, CallFails,
           GetOrLockRaises, CallInTryRaises, UnlockRaises, StoreResponse,
           Crash, stores
    <3>2. \A q \in Requests \ {r} :
            pc'[q] = pc[q] /\ key'[q] = key[q] /\ answer'[q] = answer[q]
      BY <2>0, <2>5 DEF Proceed, Receive, LookupMiss, AcquireLock, RecheckMiss,
           VerifyPasses, VerifyFails, CreateReceived, DuplicateKey, EnqueueJob,
           Unlock, CallFails, GetOrLockRaises, CallInTryRaises, UnlockRaises,
           Crash, Goto, Respond, LeaveTry, TypeOK
    <3>3. pc[r] # "idle" => key'[r] = key[r]
      BY <2>5 DEF Proceed, Receive, LookupMiss, AcquireLock, RecheckMiss,
           VerifyPasses, VerifyFails, CreateReceived, DuplicateKey, EnqueueJob,
           Unlock, CallFails, GetOrLockRaises, CallInTryRaises, UnlockRaises,
           Crash, Goto, Respond, LeaveTry
    <3>4. \/ /\ pc[r] \in {"idle", "get", "lock"} \cup InTry
             /\ pc'[r] \in {"get", "lock"} \cup InTry
          \/ /\ pc[r] \in InTry /\ pc'[r] = "unlock"
             /\ answer'[r].status \notin {0, 202}
          \/ /\ pc[r] \in {"get", "lock"} /\ pc'[r] = "done"
             /\ answer'[r].status = 500
          \/ /\ pc[r] = "unlock" /\ pc'[r] = "done"
             /\ answer'[r].status = 500 \/ answer'[r] = answer[r]
             /\ answer'[r].status \notin Statuses \ {202, 500}
          \/ pc'[r] = "crashed"
      BY <2>0, <2>5 DEF Proceed, Receive, LookupMiss, AcquireLock, RecheckMiss,
           VerifyPasses, VerifyFails, CreateReceived, DuplicateKey, EnqueueJob,
           Unlock, CallFails, GetOrLockRaises, CallInTryRaises, UnlockRaises,
           Crash, Goto, Respond, LeaveTry, Problem, IsWebhookError, SeriesOf,
           TypeOK
    <3>5. pc[r] \in {"idle", "get", "lock", "unlock"} \cup InTry
      BY <2>5 DEF Proceed, Receive, LookupMiss, AcquireLock, RecheckMiss,
           VerifyPasses, VerifyFails, CreateReceived, DuplicateKey, EnqueueJob,
           Unlock, CallFails, GetOrLockRaises, CallInTryRaises, UnlockRaises,
           Crash, Running
    <3>6. answer'[r].status \in Statuses \cup {0}
      BY <2>0 DEF TypeOK
    <3>7. Account(r)'
      <4>1. counted'[r] = counted[r]
        BY <3>1
      <4>2. "accepted" \in counted[r] => Job(r, key'[r]) \in jobs'
        BY <3>1, <3>3
      <4>3. CASE /\ pc[r] \in {"idle", "get", "lock"} \cup InTry
                 /\ pc'[r] \in {"get", "lock", "done", "unlock"} \cup InTry
                 /\ pc'[r] \in {"done", "unlock"} =>
                      answer'[r].status \notin {0, 202}
                 /\ pc'[r] = "done" => answer'[r].status = 500
        BY <4>1, <4>2, <4>3
      <4>4. CASE /\ pc[r] = "unlock" /\ pc'[r] = "done"
                 /\ answer'[r].status = 500 \/ answer'[r] = answer[r]
                 /\ answer'[r].status \notin Statuses \ {202, 500}
        BY <3>6, <4>1, <4>2, <4>4 DEF Statuses
      <4>5. CASE pc'[r] = "crashed"
        BY <4>1, <4>2, <4>5
      <4> QED
        BY <3>4, <4>3, <4>4, <4>5
    <3>8. ASSUME NEW q \in Requests \ {r}
          PROVE  Account(q)'
      BY <3>1, <3>2, OthersKeepAccounts
    <3> QED
      BY <3>1, <3>7, <3>8
  <2>6. CASE Expire
    BY <2>6 DEF Expire, LockExpires, CacheExpires
  <2> HIDE DEF Accounted, Account, CountedLike, SuccessSeries, Series, InTry
  <2> QED
    BY <2>1, <2>2, <2>3, <2>4, <2>5, <2>6 DEF ReceivedNext
<1> QED
  BY <1>1, <1>2, BookkeepingInvariant, ReceivedIngests, PTL DEF ReceivedSpec

\* Handler and exception handler together count every answered request once,
\* in the series of its response, on either side of `finally`.
THEOREM CountsItsAnswers == ReceivedSpec => []CountedAsAnswered
<1>1. Accounted => CountedAsAnswered
  BY DEF Accounted, Account, CountedAsAnswered
<1> QED
  BY <1>1, AccountedInvariant, PTL

\* The counter of accepted deliveries counts queued events, each key once.
THEOREM CountsEvents == ReceivedSpec => []AcceptedSeriesCountsJobs
<1>1. Accounted /\ OneJobPerKey => AcceptedSeriesCountsJobs
  BY DEF Accounted, Account, OneJobPerKey, AcceptedSeriesCountsJobs, Job
<1> QED
  BY <1>1, AccountedInvariant, QueuesOnce, ReceivedIngests, PTL

\* The intake is well typed while it is being counted.
THEOREM CountsTypeCorrect == ReceivedSpec => []ReceivedTypeOK
  BY AccountedInvariant, TypeCorrect, ReceivedIngests, PTL
     DEF Accounted, ReceivedTypeOK

=============================================================================
