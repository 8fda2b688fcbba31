---------------------------- MODULE RouterProofs ----------------------------
(***************************************************************************)
(* Theorems about Router, for every set of events, keys, slots and targets *)
(* and every fault of the intake: it is an Ingest and a Worker, and what   *)
(* they prove of requests and of events holds of Idempotency-Keys.         *)
(***************************************************************************)
EXTENDS Router, WorkerFateProofs, TLAPS

\* The intake with its theorems; nothing is counted here.
Front == INSTANCE IngestProofs WITH
  Requests <- Events, Hazards <- IntakeHazards,
  pc <- requestPc, rows <- committed, counted <- [r \in Events |-> {}]

LEMMA SameIntake ==
  /\ Intake!ConstantsAssumption <=> Front!ConstantsAssumption
  /\ Intake!Init <=> Front!Init
  /\ Intake!Next <=> Front!Next
BY DEF Intake!ConstantsAssumption, Front!ConstantsAssumption,
   Intake!HazardKinds, Front!HazardKinds, Intake!Init, Front!Init,
   Intake!NoAnswer, Front!NoAnswer, Intake!Next, Front!Next,
   Intake!Handle, Front!Handle, Intake!RejectMissingKey,
   Front!RejectMissingKey, Intake!Receive, Front!Receive, Intake!LookupHit,
   Front!LookupHit, Intake!LookupMiss, Front!LookupMiss,
   Intake!AcquireLock, Front!AcquireLock, Intake!LockHeld, Front!LockHeld,
   Intake!RecheckHit, Front!RecheckHit, Intake!RecheckMiss,
   Front!RecheckMiss, Intake!VerifyPasses, Front!VerifyPasses,
   Intake!VerifyFails, Front!VerifyFails, Intake!CreateReceived,
   Front!CreateReceived, Intake!DuplicateKey, Front!DuplicateKey,
   Intake!EnqueueJob, Front!EnqueueJob, Intake!CacheAccepted,
   Front!CacheAccepted, Intake!Unlock, Front!Unlock, Intake!CallFails,
   Front!CallFails, Intake!GetOrLockRaises, Front!GetOrLockRaises,
   Intake!CallInTryRaises, Front!CallInTryRaises, Intake!UnlockRaises,
   Front!UnlockRaises, Intake!Crash, Front!Crash, Intake!LockExpires,
   Front!LockExpires, Intake!CacheExpires, Front!CacheExpires,
   Intake!SetLock, Front!SetLock, Intake!KeyPersisted, Front!KeyPersisted,
   Intake!InsertRow, Front!InsertRow, Intake!PushJob, Front!PushJob,
   Intake!StoreResponse, Front!StoreResponse, Intake!DeleteLock,
   Front!DeleteLock, Intake!Goto, Front!Goto, Intake!Respond,
   Front!Respond, Intake!LeaveTry, Front!LeaveTry, Intake!stores,
   Front!stores, Intake!Row, Front!Row, Intake!Job, Front!Job,
   Intake!Problem, Front!Problem, Intake!Queued, Front!Queued,
   Intake!InTry, Front!InTry, Intake!Running, Front!Running

-----------------------------------------------------------------------------
\* The worker stays off the intake's state, so the router is an Ingest.
LEMMA RouterIsIngest == RouterSpec => Front!Spec
<1>1. RouterInit => Front!Init
  BY SameIntake DEF RouterInit
<1>2. [RouterNext]_routerVars => [Front!Next]_(Front!vars)
  BY SameIntake DEF RouterNext, TakeIn, WorkOff, intakeVars, routerVars,
     Front!vars
<1> QED
  BY <1>1, <1>2, PTL DEF RouterSpec, Front!Spec

LEMMA IntakeConstants == Front!ConstantsAssumption
BY IntakeAssumption, SameIntake

LEMMA IntakeInvariant ==
  RouterSpec =>
    [](Front!Bookkeeping /\ Front!PushedIsPast /\ Front!OneJobPerKey)
BY RouterIsIngest, IntakeConstants, Front!BookkeepingInvariant,
   Front!PushedIsPastInvariant, Front!QueuesOnce, PTL

\* Behind the queue nothing changes what POST promises: the router implements
\* IdempotentIntake too, whatever the hazards of either side.
THEOREM RouterServesOnce == RouterSpec => Front!KeyIsServedOnce
BY RouterIsIngest, IntakeConstants, Front!ServesOnce, PTL

-----------------------------------------------------------------------------
(* The worker has never heard of an event that was not pushed, so a push   *)
(* finds the event as Worker's Receive asks for: the router is a Worker.   *)

Unheard(e) ==
  /\ rows[e].status = "absent"
  /\ e \notin queue /\ ~Dead(e)
  /\ \A t \in Targets : taken[e][t] = 0
  /\ \A s \in Slots : job[s] # e

Shared ==
  /\ TypeOK
  /\ \A e \in Events : (\A j \in jobs : j.event # e) => Unheard(e)

\* The calls of a run touch the event of the run only.
LEMMA CutOffIsOwn ==
  ASSUME TypeOK, NEW s \in Slots, CutOff(s),
         NEW e \in Events, Unheard(e)
  PROVE  /\ rows'[e] = rows[e] /\ taken'[e] = taken[e]
         /\ Dead(e)' <=> Dead(e)
<1> USE DEF TypeOK, Unheard, Dead, IsDeadLettered, tables
<1>1. CASE UNCHANGED <<tables, taken>>
  BY <1>1
<1>2. CASE MarkProcessing(job[s])
  BY <1>2 DEF MarkProcessing
<1>3. CASE \E took \in SUBSET Targets : Deliver(job[s], took)
  BY <1>3 DEF Deliver
<1>4. CASE \/ MarkDispatched(job[s], jobTry[s])
           \/ MarkFailed(job[s], error[s], jobTry[s])
  BY <1>4 DEF MarkDispatched, MarkFailed
<1>5. CASE InsertDeadLetter(job[s], error[s], jobTry[s])
  BY <1>5 DEF InsertDeadLetter, DeadLetter
<1> QED
  BY <1>1, <1>2, <1>3, <1>4, <1>5 DEF CutOff

LEMMA WorkLeavesUnheard ==
  ASSUME TypeOK, Work, NEW e \in Events, Unheard(e)
  PROVE  Unheard(e)'
<1> USE DEF TypeOK, Unheard, Dead, IsDeadLettered, tables, slots, arq, Goto
<1>1. ASSUME NEW s \in Slots, CutOff(s),
             \/ UNCHANGED queue /\ UNCHANGED job
             \/ UNCHANGED queue /\ FreeSlot(s)
      PROVE  Unheard(e)'
  <2>1. queue' = queue /\ \A q \in Slots : job'[q] # e
    BY <1>1, ConstantsAssumption DEF FreeSlot
  <2> QED
    BY <1>1, <2>1, CutOffIsOwn
<1>2. ASSUME NEW s \in Slots, Process(s)
      PROVE  Unheard(e)'
  <2>1. CASE EnterTask(s)
    BY <2>1 DEF EnterTask, MarkProcessing
  <2>2. CASE ClassifyLead(s) \/ ClassifyFails(s) \/ LLMRaises(s)
    BY <2>2 DEF ClassifyLead, ClassifyFails, LLMRaises, FailWith, Escape
  <2>3. CASE Dispatch(s)
    BY <2>3 DEF Dispatch, Deliver, FailWith
  <2>4. CASE StoreDispatched(s)
    BY <2>4 DEF StoreDispatched, MarkDispatched
  <2>5. CASE StoreFailed(s)
    BY <2>5 DEF StoreFailed, MarkFailed
  <2>6. CASE Bury(s)
    BY <2>6 DEF Bury, InsertDeadLetter, DeadLetter
  <2>7. CASE CallFails(s)
    BY <1>1, <2>7 DEF CallFails, Escape
  <2>8. CASE TaskReturned(s) \/ TaskRaised(s)
    BY <2>8, ConstantsAssumption
       DEF TaskReturned, TaskRaised, FinishJob, KeepJob, FreeSlot
  <2> QED
    BY <1>2, <2>1, <2>2, <2>3, <2>4, <2>5, <2>6, <2>7, <2>8 DEF Process
<1>3. ASSUME NEW s \in Slots, Timeout(s) \/ Shutdown(s) \/ Crash(s)
      PROVE  Unheard(e)'
  BY <1>1, <1>3 DEF Timeout, Shutdown, Crash, KeepJob, Escape
<1>4. ASSUME NEW s \in Slots, NEW d \in Events, Start(s, d) \/ Discard(s, d)
      PROVE  Unheard(e)'
  BY <1>4 DEF Start, Discard, Startable
<1>5. ASSUME NEW d \in Events, InProgressExpires(d)
      PROVE  Unheard(e)'
  BY <1>5 DEF InProgressExpires
<1> QED
  BY <1>2, <1>3, <1>4, <1>5 DEF Work

\* The hand-over is a POST as the worker knows it.
LEMMA HandOverReceives ==
  ASSUME Shared, Front!Bookkeeping, Front!PushedIsPast, TakeIn,
         jobs' # jobs
  PROVE  \E r \in Events :
           /\ key[r] \in Keys
           /\ jobs' = jobs \cup {Front!Job(r, key[r])}
           /\ \A j \in jobs : j.event # r
           /\ Receive(r)
<1>1. PICK r \in Events :
        /\ key[r] \in Keys
        /\ jobs' = jobs \cup {Front!Job(r, key[r])}
        /\ \A j \in jobs : j.event # r
  BY SameIntake, IntakeConstants, Front!PushIsFresh DEF TakeIn
<1>2. \A j \in jobs' \ jobs : j.event = r
  BY <1>1 DEF Front!Job
<1>3. rows[r].status = "absent"
  BY <1>1 DEF Shared, Unheard
<1>4. Receive(r)
  BY <1>2, <1>3 DEF TakeIn, HandOver, Receive
<1> QED
  BY <1>1, <1>4

LEMMA SharedKept ==
  ASSUME Shared, Front!Bookkeeping, Front!PushedIsPast,
         [RouterNext]_routerVars
  PROVE  Shared' /\ [Next]_vars
<1>1. CASE UNCHANGED vars /\ UNCHANGED jobs
  BY <1>1 DEF Shared, Unheard, TypeOK, vars, Dead, IsDeadLettered
<1>2. CASE TakeIn /\ jobs' # jobs
  <2>1. PICK r \in Events :
          /\ jobs' = jobs \cup {Front!Job(r, key[r])}
          /\ Receive(r)
    BY <1>2, HandOverReceives
  <2>2. [Next]_vars
    BY <2>1 DEF Next
  <2>3. TypeOK'
    BY <2>2, TypeKept DEF Shared
  <2>4. ASSUME NEW e \in Events, \A j \in jobs' : j.event # e
        PROVE  Unheard(e)'
    <3>0. Front!Job(r, key[r]).event = r
      BY DEF Front!Job
    <3>1. e # r /\ \A j \in jobs : j.event # e
      BY <2>1, <2>4, <3>0
    <3>2. Unheard(e)
      BY <3>1 DEF Shared
    <3> QED
      BY <2>1, <3>1, <3>2 DEF Shared, TypeOK, Receive, Unheard, slots, Dead,
         IsDeadLettered
  <2> QED
    BY <2>2, <2>3, <2>4 DEF Shared
<1>3. CASE WorkOff
  <2>1. [Next]_vars /\ Work /\ UNCHANGED jobs
    BY <1>3 DEF WorkOff, Next, intakeVars
  <2> QED
    BY <2>1, TypeKept, WorkLeavesUnheard DEF Shared
<1> QED
  BY <1>1, <1>2, <1>3 DEF RouterNext, TakeIn, routerVars, intakeVars

LEMMA SharedInvariant == RouterSpec => []Shared
<1>1. RouterInit => Shared
  <2> SUFFICES ASSUME RouterInit
               PROVE  Shared
    OBVIOUS
  <2>1. TypeOK
    BY ConstantsAssumption DEF RouterInit, Init, TypeOK, EventRow, Errors,
       Statuses, Labels, InTask
  <2> QED
    BY <2>1, ConstantsAssumption DEF RouterInit, Init, Shared, Unheard, Dead,
       IsDeadLettered, EventRow
<1> QED
  BY <1>1, SharedKept, IntakeInvariant, PTL DEF RouterSpec

\* Every behaviour of the router is one of the worker fed by single POSTs:
\* whatever races, fails or dies in the intake, an event reaches the queue
\* once, so all that is proved of Worker holds in the router.
THEOREM RouterIsWorker == RouterSpec => Spec
<1>1. RouterInit => Init
  BY DEF RouterInit
<1> QED
  BY <1>1, SharedKept, SharedInvariant, IntakeInvariant, PTL
     DEF RouterSpec, Spec

-----------------------------------------------------------------------------
(* What the worker proves of events, for Idempotency-Keys.                 *)

\* An event that reached a target was pushed.
LEMMA TakenWasPushed ==
  ASSUME Shared, NEW e \in Events, NEW t \in Targets, taken[e][t] > 0
  PROVE  \E j \in jobs : j.event = e
BY DEF Shared, Unheard, TypeOK

LEMMA JobsKnowTheirKeys ==
  ASSUME Front!Bookkeeping
  PROVE  \A j \in jobs : j.key = key[j.event]
BY DEF Front!Bookkeeping, Front!PersistedBeforeQueued,
   Front!RowsNameTheirCreator, Front!Row, Front!Job

\* All that the worker has in hand or on record was pushed.
LEMMA WorkWasPushed ==
  ASSUME Shared, NEW e \in Events,
         \/ \E s \in Slots : job[s] = e
         \/ Dead(e)
         \/ rows[e].status # "absent"
  PROVE  \E j \in jobs : j.event = e
BY DEF Shared, Unheard

\* Of all events that carry one key only one is ever pushed.
LEMMA OnePushedPerKey ==
  ASSUME Front!Bookkeeping, Front!OneJobPerKey,
         NEW e1 \in Events, NEW e2 \in Events, key[e1] = key[e2],
         \E j \in jobs : j.event = e1, \E j \in jobs : j.event = e2
  PROVE  e1 = e2
<1>1. PICK j1 \in jobs, j2 \in jobs : j1.event = e1 /\ j2.event = e2
  OBVIOUS
<1>2. j1 = j2
  BY <1>1, JobsKnowTheirKeys DEF Front!OneJobPerKey
<1> QED
  BY <1>1, <1>2

\* What holds of the composed state in every behaviour, with any hazards.
LEMMA RouterInvariant ==
  RouterSpec =>
    [](Shared /\ Front!Bookkeeping /\ Front!OneJobPerKey /\ Ownership)
BY SharedInvariant, IntakeInvariant, RouterIsWorker, OwnershipInvariant, PTL

\* Two requests with one Idempotency-Key are never worked on together, also
\* when locks expire and responses are forgotten, while runs are cut off and
\* processes die.
THEOREM RunsKeysOnce == RouterSpec => []OneRunPerKey
<1>1. Shared /\ Front!Bookkeeping /\ Front!OneJobPerKey /\ Ownership
      => OneRunPerKey
  <2> SUFFICES ASSUME Shared, Front!Bookkeeping, Front!OneJobPerKey,
                      Ownership,
                      NEW s1 \in Slots, NEW s2 \in Slots,
                      pc[s1] # "free", pc[s2] # "free",
                      key[job[s1]] = key[job[s2]]
               PROVE  s1 = s2
    BY DEF OneRunPerKey
  <2>1. job[s1] \in Events /\ job[s2] \in Events
    BY DEF Ownership, TypeOK
  <2>2. job[s1] = job[s2]
    BY <2>1, WorkWasPushed, OnePushedPerKey
  <2> QED
    BY <2>1, <2>2, ConstantsAssumption DEF Ownership, OneRunPerEvent
<1> QED
  BY <1>1, RouterInvariant, PTL

\* mark_processing, mark_dispatched and mark_failed always find the row of
\* their event: the commit of the intake precedes all that a worker does.
THEOREM WorksOnCommittedRows == RouterSpec => []WorkHasItsRow
<1>1. Shared /\ Front!Bookkeeping /\ Ownership => WorkHasItsRow
  <2> SUFFICES ASSUME Shared, Front!Bookkeeping, Ownership,
                      NEW s \in Slots, pc[s] # "free"
               PROVE  Intake!Row(job[s], key[job[s]]) \in committed
    BY DEF WorkHasItsRow
  <2>1. PICK j \in jobs : j.event = job[s]
    BY WorkWasPushed DEF Ownership, TypeOK
  <2>2. j.key = key[job[s]]
    BY <2>1, JobsKnowTheirKeys
  <2>3. Front!Row(j.event, j.key) \in committed
    BY DEF Front!Bookkeeping, Front!PersistedBeforeQueued
  <2> QED
    BY <2>1, <2>2, <2>3 DEF Intake!Row, Front!Row
<1> QED
  BY <1>1, RouterInvariant, PTL

\* However often a key is sent and however often its runs are repeated, the
\* targets see one event of it, each in at most MAX_TRIES dispatches.
THEOREM DispatchesKeysBounded == RouterSpec => []DispatchesPerKeyBounded
<1>1. Shared /\ Front!Bookkeeping /\ Front!OneJobPerKey /\ DispatchesBounded
      => DispatchesPerKeyBounded
  <2> SUFFICES ASSUME Shared, Front!Bookkeeping, Front!OneJobPerKey,
                      DispatchesBounded,
                      NEW e1 \in Events, NEW e2 \in Events,
                      NEW t1 \in Targets, NEW t2 \in Targets,
                      key[e1] = key[e2],
                      taken[e1][t1] > 0, taken[e2][t2] > 0
               PROVE  e1 = e2 /\ taken[e1][t1] <= MaxTries
    BY DEF DispatchesPerKeyBounded
  <2>1. e1 = e2
    BY TakenWasPushed, OnePushedPerKey
  <2> QED
    BY <2>1 DEF DispatchesBounded
<1> QED
  BY <1>1, RouterInvariant, RouterIsWorker, DispatchesAreBounded, PTL

\* The dead-letter table agrees with the intake: it has one entry for a key
\* that failed for good, and no request of that key counts as dispatched.
THEOREM BuriesKeysOnce == RouterSpec => []OneDeadLetterPerKey
<1>1. Shared /\ Front!Bookkeeping /\ Front!OneJobPerKey /\ Ownership
      => OneDeadLetterPerKey
  <2> SUFFICES ASSUME Shared, Front!Bookkeeping, Front!OneJobPerKey,
                      Ownership, NEW d \in deadLetters
               PROVE  /\ \A other \in deadLetters :
                           key[other.event] = key[d.event] => other = d
                      /\ \A e \in Events :
                           key[e] = key[d.event] => ~Dispatched(e)
    BY DEF OneDeadLetterPerKey
  <2>1. \A l \in deadLetters :
          /\ l \in [event : Events, error : Errors, retries : 0..MaxTries]
          /\ l.event \in Events /\ Dead(l.event)
          /\ l.retries = MaxTries
          /\ rows[l.event] = EventRow("failed", l.retries, l.error)
    BY DEF Ownership, TypeOK, DeadLetterIsFinal, Dead, IsDeadLettered
  <2>2. ASSUME NEW other \in deadLetters, key[other.event] = key[d.event]
        PROVE  other = d
    <3>1. other.event = d.event
      BY <2>1, <2>2, WorkWasPushed, OnePushedPerKey
    <3>2. EventRow("failed", MaxTries, other.error).error
            = EventRow("failed", MaxTries, d.error).error
      BY <2>1, <3>1
    <3>3. other.error = d.error
      BY <3>2 DEF EventRow
    <3> QED
      BY <2>1, <3>1, <3>3
  <2>3. ASSUME NEW e \in Events, key[e] = key[d.event], Dispatched(e)
        PROVE  FALSE
    <3>1. rows[e].status = "dispatched"
      BY <2>3 DEF Dispatched
    <3>2. e = d.event
      BY <2>1, <2>3, <3>1, WorkWasPushed, OnePushedPerKey
    <3>3. rows[e] = EventRow("failed", d.retries, d.error)
      BY <2>1, <3>2
    <3>4. rows[e].status = "failed"
      BY <3>3 DEF EventRow
    <3> QED
      BY <3>1, <3>4
  <2> QED
    BY <2>2, <2>3
<1> QED
  BY <1>1, RouterInvariant, PTL

\* While no worker stops or dies, the lead of a key goes into one dispatch,
\* whatever happens to the requests that bring it and to the calls of its run.
THEOREM DispatchesKeysOnce ==
  ASSUME Hazards \cap {"shutdown", "crash"} = {}, MaxTries > 1
  PROVE  RouterSpec => []OneDispatchPerKey
<1>1. Shared /\ Front!Bookkeeping /\ Front!OneJobPerKey /\ FirstTryIsLast
      => OneDispatchPerKey
  <2> SUFFICES ASSUME Shared, Front!Bookkeeping, Front!OneJobPerKey,
                      FirstTryIsLast,
                      NEW e1 \in Events, NEW e2 \in Events,
                      NEW t1 \in Targets, NEW t2 \in Targets,
                      key[e1] = key[e2],
                      taken[e1][t1] > 0, taken[e2][t2] > 0
               PROVE  e1 = e2 /\ taken[e1][t1] = 1
    BY DEF OneDispatchPerKey
  <2>1. taken[e1][t1] \in Nat /\ taken[e1][t1] <= 1
    BY DEF FirstTryIsLast, Shared, TypeOK
  <2>2. e1 = e2
    BY TakenWasPushed, OnePushedPerKey
  <2> QED
    BY <2>1, <2>2
<1>2. Spec => []FirstTryIsLast
  BY NoRetryNoDeadLetter
<1> QED
  BY <1>1, <1>2, RouterInvariant, RouterIsWorker, PTL

\* While no job is pushed, the fate of a key moves with that of its event.
LEMMA OneKeyMoves ==
  ASSUME Front!Bookkeeping, Front!OneJobPerKey, UNCHANGED jobs,
         NEW e \in Events, NEW x, fateOf' = [fateOf EXCEPT ![e] = x]
  PROVE  \/ UNCHANGED keyFateOf
         \/ \E k \in Keys : /\ keyFateOf[k] = fateOf[e]
                            /\ keyFateOf' = [keyFateOf EXCEPT ![k] = x]
<1> DEFINE JobOf(k) == CHOOSE j \in jobs : j.key = k
<1>1. fateOf'[e] = x /\ \A d \in Events \ {e} : fateOf'[d] = fateOf[d]
  BY DEF fateOf
<1>2. ASSUME NEW j \in jobs, j.event = e
      PROVE  /\ j.key \in Keys /\ keyFateOf[j.key] = fateOf[e]
             /\ keyFateOf' = [keyFateOf EXCEPT ![j.key] = x]
  <2>1. j.key \in Keys /\ j = JobOf(j.key)
    BY <1>2 DEF Front!Bookkeeping, Front!TypeOK, Front!OneJobPerKey
  <2>2. keyFateOf[j.key] = fateOf[e] /\ keyFateOf'[j.key] = x
    BY <1>1, <1>2, <2>1 DEF keyFateOf
  <2>3. ASSUME NEW k \in Keys \ {j.key}
        PROVE  keyFateOf'[k] = keyFateOf[k]
    <3>1. CASE \A i \in jobs : i.key # k
      BY <3>1 DEF keyFateOf
    <3>2. CASE \E i \in jobs : i.key = k
      <4>1. JobOf(k) \in jobs /\ JobOf(k).key = k
        BY <3>2
      <4>2. JobOf(k).event \in Events \ {e}
        BY <1>2, <4>1, JobsKnowTheirKeys
           DEF Front!Bookkeeping, Front!TypeOK
      <4>3. fateOf'[JobOf(k).event] = fateOf[JobOf(k).event]
        BY <1>1, <4>2
      <4> QED
        BY <3>2, <4>3 DEF keyFateOf
    <3> QED
      BY <3>1, <3>2
  <2>4. /\ keyFateOf = [k \in Keys |-> keyFateOf[k]]
        /\ keyFateOf' = [k \in Keys |-> keyFateOf'[k]]
    BY DEF keyFateOf
  <2> QED
    BY <2>1, <2>2, <2>3, <2>4
<1>3. ASSUME \A j \in jobs : j.event # e
      PROVE  UNCHANGED keyFateOf
  <2>1. \A k \in Keys :
          (\E j \in jobs : j.key = k) => JobOf(k).event \in Events \ {e}
    BY <1>3 DEF Front!Bookkeeping, Front!TypeOK
  <2> QED
    BY <1>1, <2>1 DEF keyFateOf
<1> QED
  BY <1>2, <1>3

\* So a key makes the steps that its event makes.
LEMMA FateMovesKeys ==
  ASSUME Front!Bookkeeping, Front!OneJobPerKey, UNCHANGED jobs
  PROVE  /\ [Fate!Next]_fateOf => [KeyFate!Next]_keyFateOf
         /\ [Fate!InterruptedNext]_fateOf
              => [KeyFate!InterruptedNext]_keyFateOf
<1>1. ASSUME NEW e \in Events, Fate!Accept(e)
      PROVE  [KeyFate!Next]_keyFateOf
  <2>1. fateOf[e] = "absent" /\ fateOf' = [fateOf EXCEPT ![e] = "pending"]
    BY <1>1 DEF Fate!Accept
  <2> QED
    BY <2>1, OneKeyMoves DEF KeyFate!Next, KeyFate!Accept
<1>2. ASSUME NEW e \in Events, Fate!Settle(e)
      PROVE  [KeyFate!Next]_keyFateOf
  <2>1. PICK x \in KeyFate!Settled :
          fateOf[e] = "pending" /\ fateOf' = [fateOf EXCEPT ![e] = x]
    BY <1>2 DEF Fate!Settle, Fate!Settled, KeyFate!Settled
  <2>2. \/ UNCHANGED keyFateOf
        \/ \E k \in Keys : /\ keyFateOf[k] = "pending"
                           /\ keyFateOf' = [keyFateOf EXCEPT ![k] = x]
    BY <2>1, OneKeyMoves
  <2>3. ASSUME NEW k \in Keys, keyFateOf[k] = "pending",
               keyFateOf' = [keyFateOf EXCEPT ![k] = x]
        PROVE  KeyFate!Settle(k)
    BY <2>3 DEF KeyFate!Settle
  <2> QED
    BY <2>2, <2>3 DEF KeyFate!Next
<1>3. ASSUME NEW e \in Events, Fate!Reopen(e)
      PROVE  [KeyFate!InterruptedNext]_keyFateOf
  <2>1. fateOf[e] = "dispatched" /\ fateOf' = [fateOf EXCEPT ![e] = "pending"]
    BY <1>3 DEF Fate!Reopen
  <2> QED
    BY <2>1, OneKeyMoves DEF KeyFate!InterruptedNext, KeyFate!Reopen
<1>4. CASE UNCHANGED fateOf
  BY <1>4 DEF keyFateOf
<1> QED
  BY <1>1, <1>2, <1>3, <1>4
     DEF Fate!Next, Fate!InterruptedNext, KeyFate!InterruptedNext

\* The push of a job takes the key's fate from absent to pending.
LEMMA PushAcceptsKey ==
  ASSUME Shared, Front!Bookkeeping, Front!PushedIsPast, Front!OneJobPerKey,
         Front!OneJobPerKey', TakeIn, jobs' # jobs
  PROVE  KeyFate!Next
<1>1. PICK r \in Events :
        /\ key[r] \in Keys
        /\ jobs' = jobs \cup {Front!Job(r, key[r])}
        /\ \A j \in jobs : j.event # r
        /\ Receive(r)
  BY HandOverReceives
<1> DEFINE new == Front!Job(r, key[r])
<1>2. new.event = r /\ new.key = key[r] /\ new \in jobs' /\ new \notin jobs
  BY <1>1 DEF Front!Job
<1>3. \A j \in jobs : j \in jobs' /\ j.key # key[r]
  BY <1>1, <1>2 DEF Front!OneJobPerKey
<1>4. keyFateOf[key[r]] = "absent"
  BY <1>1, <1>3 DEF keyFateOf
<1>5. keyFateOf'[key[r]] = "pending"
  <2>1. (CHOOSE j \in jobs' : j.key = key[r]) = new
    BY <1>1, <1>2, <1>3
  <2>2. ~Dead(r) /\ rows[r].status = "absent" /\ rows \in [Events -> [
          status : Statuses, attempts : 0..MaxTries,
          error : Errors \cup {None}]]
    BY <1>1 DEF Shared, Unheard, TypeOK
  <2>3. fateOf'[r] = "pending"
    BY <1>1, <2>2 DEF fateOf, Receive, Dispatched, Dead, IsDeadLettered,
       Failed
  <2> QED
    BY <1>1, <1>2, <2>1, <2>3 DEF keyFateOf
<1>6. ASSUME NEW k \in Keys \ {key[r]}
      PROVE  keyFateOf'[k] = keyFateOf[k]
  <2>1. CASE \A j \in jobs : j.key # k
    BY <1>1, <1>2, <2>1 DEF keyFateOf
  <2>2. CASE \E j \in jobs : j.key = k
    <3>1. PICK j \in jobs : j.key = k
      BY <2>2
    <3>2. /\ (CHOOSE i \in jobs : i.key = k) = j
          /\ (CHOOSE i \in jobs' : i.key = k) = j
      BY <1>3, <3>1 DEF Front!OneJobPerKey
    <3>3. j.event \in Events \ {r}
      BY <1>1 DEF Front!Bookkeeping, Front!TypeOK
    <3>4. fateOf'[j.event] = fateOf[j.event]
      BY <1>1, <3>3 DEF Shared, TypeOK, fateOf, Receive, Dispatched, Dead,
         IsDeadLettered, Failed
    <3> QED
      BY <1>3, <3>1, <3>2, <3>4 DEF keyFateOf
  <2> QED
    BY <2>1, <2>2
<1>7. keyFateOf' = [keyFateOf EXCEPT ![key[r]] = "pending"]
  <2>1. /\ keyFateOf = [k \in Keys |-> keyFateOf[k]]
        /\ keyFateOf' = [k \in Keys |-> keyFateOf'[k]]
    BY DEF keyFateOf
  <2> QED
    BY <1>1, <1>5, <1>6, <2>1
<1> QED
  BY <1>1, <1>4, <1>7 DEF KeyFate!Next, KeyFate!Accept

LEMMA KeyFatesFollow ==
  ASSUME Shared, Front!Bookkeeping, Front!PushedIsPast, Front!OneJobPerKey,
         Front!OneJobPerKey', [RouterNext]_routerVars
  PROVE  /\ [Fate!Next]_fateOf => [KeyFate!Next]_keyFateOf
         /\ [Fate!InterruptedNext]_fateOf
              => [KeyFate!InterruptedNext]_keyFateOf
<1>1. CASE UNCHANGED jobs
  BY <1>1, FateMovesKeys
<1>2. CASE TakeIn /\ jobs' # jobs
  BY <1>2, PushAcceptsKey DEF KeyFate!InterruptedNext
<1> QED
  BY <1>1, <1>2 DEF RouterNext, WorkOff, routerVars, intakeVars

LEMMA KeyFatesBegin == RouterInit => KeyFate!Init
BY SameIntake DEF RouterInit, Front!Init, KeyFate!Init, keyFateOf

\* While no worker stops or dies, every behaviour of the router is one of
\* EventFate over the keys, whatever else fails: a key is accepted once and
\* settled at most once, and its fate never changes again.
THEOREM RouterImplementsKeyFate ==
  ASSUME Hazards \cap {"shutdown", "crash"} = {}
  PROVE  RouterSpec => KeyFate!Spec
<1>1. Spec => Fate!Spec
  BY ImplementsEventFate
<1> QED
  BY <1>1, KeyFatesBegin, KeyFatesFollow, SharedInvariant, IntakeInvariant,
     RouterIsWorker, PTL DEF RouterSpec, KeyFate!Spec, Fate!Spec

\* Under all hazards of both sides an Idempotency-Key is taken in once, and
\* when it is dead or failed it stays so: no retry of a client and no repeated
\* run brings its lead back, and none of them is dispatched beside it.
THEOREM RouterImplementsInterruptedKeyFate ==
  RouterSpec => KeyFate!InterruptedSpec
BY KeyFatesBegin, KeyFatesFollow, SharedInvariant, IntakeInvariant,
   RouterIsWorker, ImplementsInterruptedFate, PTL
   DEF RouterSpec, KeyFate!InterruptedSpec, FateUnderFaults,
       Fate!InterruptedSpec

=============================================================================
