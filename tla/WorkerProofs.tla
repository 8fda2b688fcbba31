---------------------------- MODULE WorkerProofs ----------------------------
(***************************************************************************)
(* Theorems about Worker, for every set of events, slots and targets, every*)
(* MaxTries, and, where they do not say otherwise, every set of hazards.   *)
(***************************************************************************)
EXTENDS Worker, TLAPS

TablesTyped ==
  /\ rows \in [Events -> [status : Statuses, attempts : 0..MaxTries,
                          error : Errors \cup {None}]]
  /\ deadLetters \subseteq
       [event : Events, error : Errors, retries : 0..MaxTries]
  /\ taken \in [Events -> [Targets -> Nat]]

\* A dispatch is counted, and only counted.
LEMMA DeliverTyped ==
  ASSUME TypeOK, NEW e \in Events, NEW took \in SUBSET Targets,
         Deliver(e, took)
  PROVE  TablesTyped'
<1> DEFINE new == [t \in Targets |->
                     taken[e][t] + IF t \in took THEN 1 ELSE 0]
<1>1. taken[e] \in [Targets -> Nat]
  BY DEF TypeOK
<1>2. new \in [Targets -> Nat]
  BY <1>1
<1>3. taken' = [taken EXCEPT ![e] = new]
  BY DEF Deliver
<1>4. taken' \in [Events -> [Targets -> Nat]]
  BY <1>2, <1>3 DEF TypeOK
<1> QED
  BY <1>4 DEF Deliver, TypeOK, TablesTyped, tables

\* What a task that is cut off leaves in the tables is well typed.
LEMMA CutOffTyped ==
  ASSUME TypeOK, NEW s \in Slots, pc[s] \in InTask, CutOff(s)
  PROVE  TablesTyped'
<1> USE DEF TypeOK, TablesTyped, Errors, Statuses, InTask, tables
<1>1. job[s] \in Events
  OBVIOUS
<1>2. CASE UNCHANGED <<tables, taken>>
  BY <1>2
<1>3. CASE MarkProcessing(job[s])
  <2>1. [rows[job[s]] EXCEPT !.status = "processing"] \in
          [status : Statuses, attempts : 0..MaxTries,
           error : Errors \cup {None}]
    BY <1>1
  <2>2. rows' = [rows EXCEPT ![job[s]] =
                  [rows[job[s]] EXCEPT !.status = "processing"]]
    BY <1>1, <1>3 DEF MarkProcessing
  <2>3. rows' \in [Events -> [status : Statuses, attempts : 0..MaxTries,
                               error : Errors \cup {None}]]
    BY <1>1, <2>1, <2>2
  <2> QED
    BY <1>3, <2>3 DEF MarkProcessing
<1>4. ASSUME NEW took \in SUBSET Targets, Deliver(job[s], took)
      PROVE  TablesTyped'
  BY <1>1, <1>4, DeliverTyped
<1>5. CASE MarkDispatched(job[s], jobTry[s])
  <2>1. EventRow("dispatched", jobTry[s], None) \in
          [status : Statuses, attempts : 0..MaxTries,
           error : Errors \cup {None}]
    BY DEF EventRow
  <2> QED
    BY <1>1, <1>5, <2>1 DEF MarkDispatched
<1>6. CASE pc[s] = "failed" /\ MarkFailed(job[s], error[s], jobTry[s])
  <2>1. EventRow("failed", jobTry[s], error[s]) \in
          [status : Statuses, attempts : 0..MaxTries,
           error : Errors \cup {None}]
    BY DEF EventRow
  <2> QED
    BY <1>1, <1>6, <2>1 DEF MarkFailed
<1>7. CASE pc[s] = "bury" /\ InsertDeadLetter(job[s], error[s], jobTry[s])
  <2>1. DeadLetter(job[s], error[s], jobTry[s]) \in
          [event : Events, error : Errors, retries : 0..MaxTries]
    BY <1>1, <1>7 DEF DeadLetter
  <2> QED
    BY <1>7, <2>1 DEF InsertDeadLetter
<1> QED
  BY <1>2, <1>3, <1>4, <1>5, <1>6, <1>7 DEF CutOff

LEMMA TypeKept == TypeOK /\ [Next]_vars => TypeOK'
<1> USE ConstantsAssumption
<1> SUFFICES ASSUME TypeOK, [Next]_vars
             PROVE  TypeOK'
  OBVIOUS
<1> USE DEF TypeOK, Errors, Statuses, Labels, InTask, tables, arq, slots
<1>1. CASE UNCHANGED vars
  BY <1>1 DEF vars
<1>2. ASSUME NEW e \in Events, Receive(e)
      PROVE  TypeOK'
  <2>1. TablesTyped'
    <3>1. [rows[e] EXCEPT !.status = "received"] \in
            [status : Statuses, attempts : 0..MaxTries,
             error : Errors \cup {None}]
      <4>1. rows[e] \in [status : Statuses, attempts : 0..MaxTries,
                         error : Errors \cup {None}]
        OBVIOUS
      <4> QED
        BY <4>1
    <3>2. /\ rows' = [rows EXCEPT ![e] =
                       [rows[e] EXCEPT !.status = "received"]]
          /\ UNCHANGED <<deadLetters, taken>>
      BY <1>2 DEF Receive
    <3> QED
      BY <3>1, <3>2 DEF TablesTyped
  <2>2. queue' \subseteq Events
    BY <1>2 DEF Receive
  <2>3. UNCHANGED <<inProgress, tries, slots>>
    BY <1>2 DEF Receive
  <2> QED
    BY <2>1, <2>2, <2>3 DEF TablesTyped
<1>3. ASSUME NEW e \in Events, InProgressExpires(e)
      PROVE  TypeOK'
  BY <1>3 DEF InProgressExpires
<1>4. ASSUME NEW s \in Slots, NEW e \in Events, Start(s, e)
      PROVE  TypeOK'
  BY <1>4 DEF Start, Startable
<1>5. ASSUME NEW s \in Slots, NEW e \in Events, Discard(s, e)
      PROVE  TypeOK'
  BY <1>5 DEF Discard, Startable
<1>6. ASSUME NEW s \in Slots, EnterTask(s)
      PROVE  TypeOK'
  <2>1. pc[s] \in InTask /\ MarkProcessing(job[s]) /\ UNCHANGED arq
    BY <1>6 DEF EnterTask
  <2>2. TablesTyped'
    BY <1>6, <2>1, CutOffTyped DEF CutOff, EnterTask
  <2>3. pc' = [pc EXCEPT ![s] = "classify"] /\ UNCHANGED <<job, jobTry, error>>
    BY <1>6 DEF EnterTask, Goto
  <2> QED
    BY <2>1, <2>2, <2>3 DEF TablesTyped
<1>7. ASSUME NEW s \in Slots, ClassifyLead(s)
      PROVE  TypeOK'
  BY <1>7 DEF ClassifyLead, Goto
<1>8. ASSUME NEW s \in Slots, ClassifyFails(s)
      PROVE  TypeOK'
  BY <1>8 DEF ClassifyFails, FailWith
<1>9. ASSUME NEW s \in Slots, LLMRaises(s)
      PROVE  TypeOK'
  BY <1>9 DEF LLMRaises, Escape
<1>10. ASSUME NEW s \in Slots, Dispatch(s)
      PROVE  TypeOK'
  <2>1. PICK took \in SUBSET Targets :
          /\ Deliver(job[s], took)
          /\ \/ FailWith(s, "dispatch")
             \/ Goto(s, "dispatched")
    BY <1>10 DEF Dispatch
  <2>2. pc[s] = "dispatch" /\ UNCHANGED arq
    BY <1>10 DEF Dispatch
  <2>3. TablesTyped'
    BY <2>1, <2>2, DeliverTyped
  <2>4. CASE FailWith(s, "dispatch")
    BY <2>2, <2>3, <2>4 DEF FailWith, TablesTyped
  <2>5. CASE Goto(s, "dispatched")
    BY <2>2, <2>3, <2>5 DEF Goto, TablesTyped
  <2> QED
    BY <2>1, <2>4, <2>5
<1>11. ASSUME NEW s \in Slots, StoreDispatched(s)
      PROVE  TypeOK'
  BY <1>11 DEF StoreDispatched, MarkDispatched, EventRow, Goto
<1>12. ASSUME NEW s \in Slots, StoreFailed(s)
      PROVE  TypeOK'
  BY <1>12 DEF StoreFailed, MarkFailed, EventRow, Goto
<1>13. ASSUME NEW s \in Slots, Bury(s)
      PROVE  TypeOK'
  BY <1>13 DEF Bury, InsertDeadLetter, DeadLetter, Goto
<1>14. ASSUME NEW s \in Slots, CallFails(s)
      PROVE  TypeOK'
  <2>1. TablesTyped'
    BY <1>14, CutOffTyped DEF CallFails, InTask
  <2>2. pc[s] \in InTask /\ job[s] \in Events
    BY <1>14 DEF CallFails
  <2> QED
    BY <1>14, <2>1, <2>2 DEF CallFails, Escape, TablesTyped
<1>15. ASSUME NEW s \in Slots, TaskReturned(s)
      PROVE  TypeOK'
  BY <1>15 DEF TaskReturned, FinishJob, FreeSlot
<1>16. ASSUME NEW s \in Slots, TaskRaised(s)
      PROVE  TypeOK'
  BY <1>16 DEF TaskRaised, FinishJob, FreeSlot
<1>17. ASSUME NEW s \in Slots, Timeout(s)
      PROVE  TypeOK'
  <2>1. TablesTyped'
    BY <1>17, CutOffTyped DEF Timeout, InTask
  <2>2. pc[s] \in InTask /\ job[s] \in Events
    BY <1>17 DEF Timeout
  <2> QED
    BY <1>17, <2>1, <2>2 DEF Timeout, Escape, TablesTyped
<1>18. ASSUME NEW s \in Slots, Shutdown(s)
      PROVE  TypeOK'
  <2>1. TablesTyped'
    BY <1>18, CutOffTyped DEF Shutdown, InTask
  <2>2. pc[s] \in InTask /\ job[s] \in Events
    BY <1>18 DEF Shutdown
  <2> QED
    BY <1>18, <2>1, <2>2 DEF Shutdown, KeepJob, FreeSlot, TablesTyped
<1>19. ASSUME NEW s \in Slots, Crash(s)
      PROVE  TypeOK'
  <2>1. CASE pc[s] \in InTask
    <3>1. TablesTyped'
      BY <1>19, <2>1, CutOffTyped DEF Crash
    <3> QED
      BY <1>19, <3>1 DEF Crash, FreeSlot, TablesTyped
  <2>2. CASE pc[s] \notin InTask
    BY <1>19, <2>2 DEF Crash, CutOff, FreeSlot
  <2> QED
    BY <2>1, <2>2
<1> QED
  BY <1>1, <1>2, <1>3, <1>4, <1>5, <1>6, <1>7, <1>8, <1>9, <1>10, <1>11,
     <1>12, <1>13, <1>14, <1>15, <1>16, <1>17, <1>18, <1>19 DEF Next, Work,
     Process

\* The state is well typed in every behaviour.
THEOREM TypeCorrect == Spec => []TypeOK
<1>1. Init => TypeOK
  BY ConstantsAssumption
     DEF Init, TypeOK, EventRow, Errors, Statuses, Labels, InTask
<1> QED
  BY <1>1, TypeKept, PTL DEF Spec

-----------------------------------------------------------------------------
(* The invariant behind the safety properties.  A run owns its job: the    *)
(* in-progress key keeps other slots out and the retry counter stands at   *)
(* its job_try.  A dead letter is only written in the run of the last try, *)
(* so nothing that follows it, in this run or another, touches the event.  *)

RunsOwnJobs ==
  \A s \in Slots :
    /\ pc[s] = "free" <=> job[s] = None
    /\ pc[s] # "free" =>
         /\ job[s] \in queue \cap inProgress
         /\ jobTry[s] = tries[job[s]]

QueueHoldsReceived ==
  \A e \in Events :
    /\ e \in inProgress => e \in queue
    /\ e \in queue =>
         rows[e].status # "absent" /\ rows[e].attempts <= tries[e]
    /\ rows[e].status = "absent" => rows[e].attempts = 0

BuryingIsLast ==
  \A s \in Slots :
    pc[s] = "bury" =>
      /\ jobTry[s] = MaxTries
      /\ rows[job[s]] = EventRow("failed", jobTry[s], error[s])

DeadIsUntouched ==
  \A d \in deadLetters :
    /\ d.event \in queue => tries[d.event] = MaxTries
    /\ \A s \in Slots : job[s] = d.event => pc[s] \in {"return", "raise"}

Ownership ==
  /\ TypeOK
  /\ RunsOwnJobs
  /\ OneRunPerEvent
  /\ QueueHoldsReceived
  /\ BuryingIsLast
  /\ DeadIsUntouched
  /\ DeadLetterIsFinal

\* What a run may do to the tables at one await.
Writes(s) ==
  /\ \A e \in Events \ {job[s]} : rows'[e] = rows[e]
  /\ rows'[job[s]].status # "absent"
  /\ rows'[job[s]].attempts \in {rows[job[s]].attempts, jobTry[s]}
  /\ \/ deadLetters' = deadLetters
     \/ /\ pc[s] = "bury" /\ rows' = rows
        /\ deadLetters' =
             deadLetters \cup {DeadLetter(job[s], error[s], jobTry[s])}

LEMMA CutOffWrites ==
  ASSUME Ownership, NEW s \in Slots, pc[s] \in InTask, CutOff(s)
  PROVE  Writes(s)
<1> USE DEF Writes, tables
<1>1. /\ job[s] \in Events /\ rows[job[s]].status # "absent"
      /\ rows \in [Events -> [status : Statuses, attempts : 0..MaxTries,
                              error : Errors \cup {None}]]
  BY DEF Ownership, TypeOK, RunsOwnJobs, QueueHoldsReceived, InTask
<1>2. CASE UNCHANGED <<tables, taken>>
  BY <1>1, <1>2
<1>3. CASE MarkProcessing(job[s])
  BY <1>1, <1>3 DEF MarkProcessing
<1>4. ASSUME NEW took \in SUBSET Targets, Deliver(job[s], took)
      PROVE  Writes(s)
  BY <1>1, <1>4 DEF Deliver
<1>5. CASE MarkDispatched(job[s], jobTry[s])
  BY <1>1, <1>5 DEF MarkDispatched, EventRow
<1>6. CASE pc[s] = "failed" /\ MarkFailed(job[s], error[s], jobTry[s])
  BY <1>1, <1>6 DEF MarkFailed, EventRow
<1>7. CASE pc[s] = "bury" /\ InsertDeadLetter(job[s], error[s], jobTry[s])
  BY <1>1, <1>7 DEF InsertDeadLetter
<1> QED
  BY <1>2, <1>3, <1>4, <1>5, <1>6, <1>7 DEF CutOff

\* One await of a run: it writes what it may, keeps its try, and moves on; it
\* leaves the task when it has written a dead letter.
LEMMA RunKeepsTables ==
  ASSUME Ownership, NEW s \in Slots, pc[s] \in InTask, Writes(s),
         tries' = tries, queue' = queue, inProgress' \subseteq inProgress,
         job'[s] \in {job[s], None},
         \A q \in Slots \ {s} : pc'[q] = pc[q] /\ job'[q] = job[q],
         \/ deadLetters' = deadLetters
         \/ pc'[s] \in {"return", "raise"}
         \/ job'[s] = None
  PROVE  QueueHoldsReceived' /\ DeadIsUntouched' /\ DeadLetterIsFinal'
<1>1. /\ job[s] \in Events /\ job[s] \in queue
      /\ jobTry[s] = tries[job[s]] /\ tries[job[s]] \in 0..MaxTries
  BY DEF Ownership, RunsOwnJobs, TypeOK, InTask
<1>2. \A d \in deadLetters : d.event # job[s] /\ d.event \in Events
  BY DEF Ownership, DeadIsUntouched, TypeOK, InTask
<1>3. QueueHoldsReceived'
  <2> SUFFICES ASSUME NEW e \in Events
               PROVE  /\ e \in inProgress' => e \in queue
                      /\ e \in queue => /\ rows'[e].status # "absent"
                                       /\ rows'[e].attempts <= tries[e]
                      /\ rows'[e].status = "absent" => rows'[e].attempts = 0
    BY DEF QueueHoldsReceived
  <2>1. CASE e = job[s]
    BY <1>1, <2>1 DEF Ownership, QueueHoldsReceived, Writes
  <2>2. CASE e # job[s]
    BY <2>2 DEF Ownership, QueueHoldsReceived, Writes
  <2> QED
    BY <2>1, <2>2
<1>4. ASSUME NEW d \in deadLetters
      PROVE  /\ d.event \in queue => tries[d.event] = MaxTries
             /\ \A q \in Slots :
                  job'[q] = d.event => pc'[q] \in {"return", "raise"}
             /\ d.retries = MaxTries
             /\ rows'[d.event] = EventRow("failed", d.retries, d.error)
  <2>1. rows'[d.event] = rows[d.event]
    BY <1>2 DEF Writes
  <2>2. job'[s] # d.event
    <3>1. d.event # None
      BY <1>2, ConstantsAssumption
    <3> QED
      BY <1>2, <3>1
  <2>3. \A q \in Slots : job'[q] = d.event => pc'[q] \in {"return", "raise"}
    BY <2>2 DEF Ownership, DeadIsUntouched
  <2> QED
    BY <2>1, <2>3 DEF Ownership, DeadIsUntouched, DeadLetterIsFinal
<1>5. CASE deadLetters' = deadLetters
  BY <1>3, <1>4, <1>5 DEF DeadIsUntouched, DeadLetterIsFinal
<1>6. CASE deadLetters' # deadLetters
  <2> DEFINE new == DeadLetter(job[s], error[s], jobTry[s])
  <2>1. /\ pc[s] = "bury" /\ rows' = rows
        /\ deadLetters' = deadLetters \cup {new}
    BY <1>6 DEF Writes
  <2>2. /\ jobTry[s] = MaxTries
        /\ rows'[job[s]] = EventRow("failed", jobTry[s], error[s])
    BY <2>1 DEF Ownership, BuryingIsLast
  <2>3. \A q \in Slots : job'[q] = job[s] => pc'[q] \in {"return", "raise"}
    <3>1. \A q \in Slots \ {s} : job'[q] # job[s]
      BY <1>1, ConstantsAssumption DEF Ownership, OneRunPerEvent
    <3>2. job'[s] = job[s] => pc'[s] \in {"return", "raise"}
      BY <1>1, <1>6, ConstantsAssumption
    <3> QED
      BY <3>1, <3>2
  <2>4. new.event = job[s] /\ new.error = error[s] /\ new.retries = jobTry[s]
    BY DEF DeadLetter
  <2>5. DeadIsUntouched'
    <3> SUFFICES ASSUME NEW d \in deadLetters'
                 PROVE  /\ d.event \in queue' =>
                             tries'[d.event] = MaxTries
                        /\ \A q \in Slots' : job'[q] = d.event =>
                             pc'[q] \in {"return", "raise"}
      BY DEF DeadIsUntouched
    <3>1. CASE d \in deadLetters
      BY <1>4, <3>1
    <3>2. CASE d = new
      BY <1>1, <2>2, <2>3, <2>4, <3>2
    <3> QED
      BY <2>1, <3>1, <3>2
  <2>6. DeadLetterIsFinal'
    BY <1>4, <2>1, <2>2, <2>4 DEF DeadLetterIsFinal
  <2> QED
    BY <1>3, <2>5, <2>6
<1> QED
  BY <1>5, <1>6

\* The tries of a run are bounded, so the last is recognised by >=.
LEMMA LastTry ==
  ASSUME TypeOK, NEW s \in Slots, jobTry[s] >= MaxTries
  PROVE  jobTry[s] = MaxTries
<1>1. jobTry[s] \in 0..MaxTries
  BY DEF TypeOK
<1> QED
  BY <1>1, ConstantsAssumption

LEMMA OwnershipInvariant == Spec => []Ownership
<1> USE ConstantsAssumption
<1>1. Init => Ownership
  <2> SUFFICES ASSUME Init
               PROVE  Ownership
    OBVIOUS
  <2>1. TypeOK
    BY DEF Init, TypeOK, EventRow, Errors, Statuses, Labels, InTask
  <2> QED
    BY <2>1 DEF Init, Ownership, RunsOwnJobs, OneRunPerEvent,
       QueueHoldsReceived, BuryingIsLast, DeadIsUntouched, DeadLetterIsFinal,
       EventRow
<1>2. Ownership /\ TypeOK' /\ [Next]_vars => Ownership'
  <2> SUFFICES ASSUME Ownership, TypeOK', [Next]_vars
               PROVE  Ownership'
    OBVIOUS
  <2> USE DEF Ownership, TypeOK, RunsOwnJobs, OneRunPerEvent,
         QueueHoldsReceived, BuryingIsLast, DeadIsUntouched,
         DeadLetterIsFinal, InTask, Labels, tables, arq, slots
  <2>1. CASE UNCHANGED vars
    BY <2>1 DEF vars
  <2>2. ASSUME NEW e \in Events, Receive(e)
        PROVE  Ownership'
    <3>1. RunsOwnJobs'
      BY <2>2 DEF Receive
    <3>2. OneRunPerEvent'
      BY <2>2 DEF Receive
    <3>3. QueueHoldsReceived'
      BY <2>2 DEF Receive
    <3>4. BuryingIsLast'
      BY <2>2 DEF Receive
    <3>5. ASSUME NEW d \in deadLetters
          PROVE  d.event # e /\ d.event \in Events
      <4>1. rows[d.event].status = "failed"
        <5>1. rows[d.event] = EventRow("failed", d.retries, d.error)
          OBVIOUS
        <5>2. EventRow("failed", d.retries, d.error).status = "failed"
          BY DEF EventRow
        <5> QED
          BY <5>1, <5>2
      <4>2. rows[e].status = "absent"
        BY <2>2 DEF Receive
      <4> QED
        BY <4>1, <4>2
    <3>6. \A d \in deadLetters : rows'[d.event] = rows[d.event]
      BY <2>2, <3>5 DEF Receive
    <3>7. DeadIsUntouched'
      BY <2>2, <3>5 DEF Receive
    <3>8. DeadLetterIsFinal'
      BY <2>2, <3>6 DEF Receive
    <3> QED
      BY <3>1, <3>2, <3>3, <3>4, <3>7, <3>8
  <2>3. ASSUME NEW e \in Events, InProgressExpires(e)
        PROVE  Ownership'
    <3>1. RunsOwnJobs'
      BY <2>3 DEF InProgressExpires
    <3>2. OneRunPerEvent'
      BY <2>3 DEF InProgressExpires
    <3>3. QueueHoldsReceived'
      BY <2>3 DEF InProgressExpires
    <3>4. BuryingIsLast'
      BY <2>3 DEF InProgressExpires
    <3>5. DeadIsUntouched'
      BY <2>3 DEF InProgressExpires
    <3>6. DeadLetterIsFinal'
      BY <2>3 DEF InProgressExpires
    <3> QED
      BY <3>1, <3>2, <3>3, <3>4, <3>5, <3>6
  <2>4. ASSUME NEW s \in Slots, NEW e \in Events, Start(s, e)
        PROVE  Ownership'
    <3>1. RunsOwnJobs'
      BY <2>4 DEF Start, Startable
    <3>2. OneRunPerEvent'
      BY <2>4 DEF Start, Startable
    <3>3. QueueHoldsReceived'
      BY <2>4 DEF Start, Startable
    <3>4. BuryingIsLast'
      BY <2>4 DEF Start, Startable
    <3>5. DeadIsUntouched'
      BY <2>4 DEF Start, Startable
    <3>6. DeadLetterIsFinal'
      BY <2>4 DEF Start, Startable
    <3> QED
      BY <3>1, <3>2, <3>3, <3>4, <3>5, <3>6
  <2>5. ASSUME NEW s \in Slots, NEW e \in Events, Discard(s, e)
        PROVE  Ownership'
    <3>1. RunsOwnJobs'
      BY <2>5 DEF Discard, Startable
    <3>2. OneRunPerEvent'
      BY <2>5 DEF Discard, Startable
    <3>3. QueueHoldsReceived'
      BY <2>5 DEF Discard, Startable
    <3>4. BuryingIsLast'
      BY <2>5 DEF Discard, Startable
    <3>5. DeadIsUntouched'
      BY <2>5 DEF Discard, Startable
    <3>6. DeadLetterIsFinal'
      BY <2>5 DEF Discard, Startable
    <3> QED
      BY <3>1, <3>2, <3>3, <3>4, <3>5, <3>6
  <2>6. ASSUME NEW s \in Slots, EnterTask(s)
        PROVE  Ownership'
    <3>1. pc[s] \in InTask /\ CutOff(s)
      BY <2>6 DEF EnterTask, CutOff
    <3>2. Writes(s)
      BY <3>1, CutOffWrites
    <3>3. /\ tries' = tries /\ queue' = queue
          /\ inProgress' \subseteq inProgress
          /\ job'[s] \in {job[s], None}
          /\ \A q \in Slots \ {s} : pc'[q] = pc[q] /\ job'[q] = job[q]
      BY <2>6 DEF EnterTask, Goto
    <3>4. \/ deadLetters' = deadLetters
          \/ pc'[s] \in {"return", "raise"}
          \/ job'[s] = None
      BY <2>6 DEF EnterTask, Goto, MarkProcessing
    <3>5. QueueHoldsReceived' /\ DeadIsUntouched' /\ DeadLetterIsFinal'
      BY <3>1, <3>2, <3>3, <3>4, RunKeepsTables
    <3>6. RunsOwnJobs'
      BY <2>6, <3>1 DEF EnterTask, Goto
    <3>7. OneRunPerEvent'
      BY <2>6, <3>1 DEF EnterTask, Goto
    <3>8. BuryingIsLast'
      BY <2>6, <3>1, <3>2 DEF EnterTask, Goto, Writes
    <3> QED
      BY <3>5, <3>6, <3>7, <3>8
  <2>7. ASSUME NEW s \in Slots, ClassifyLead(s)
        PROVE  Ownership'
    <3>1. RunsOwnJobs'
      BY <2>7 DEF ClassifyLead, Goto
    <3>2. OneRunPerEvent'
      BY <2>7 DEF ClassifyLead, Goto
    <3>3. QueueHoldsReceived'
      BY <2>7 DEF ClassifyLead, Goto
    <3>4. BuryingIsLast'
      BY <2>7 DEF ClassifyLead, Goto
    <3>5. DeadIsUntouched'
      BY <2>7 DEF ClassifyLead, Goto
    <3>6. DeadLetterIsFinal'
      BY <2>7 DEF ClassifyLead, Goto
    <3> QED
      BY <3>1, <3>2, <3>3, <3>4, <3>5, <3>6
  <2>8. ASSUME NEW s \in Slots, ClassifyFails(s)
        PROVE  Ownership'
    <3>1. RunsOwnJobs'
      BY <2>8 DEF ClassifyFails, FailWith
    <3>2. OneRunPerEvent'
      BY <2>8 DEF ClassifyFails, FailWith
    <3>3. QueueHoldsReceived'
      BY <2>8 DEF ClassifyFails, FailWith
    <3>4. BuryingIsLast'
      BY <2>8 DEF ClassifyFails, FailWith
    <3>5. DeadIsUntouched'
      BY <2>8 DEF ClassifyFails, FailWith
    <3>6. DeadLetterIsFinal'
      BY <2>8 DEF ClassifyFails, FailWith
    <3> QED
      BY <3>1, <3>2, <3>3, <3>4, <3>5, <3>6
  <2>9. ASSUME NEW s \in Slots, LLMRaises(s)
        PROVE  Ownership'
    <3>1. RunsOwnJobs'
      BY <2>9 DEF LLMRaises, Escape
    <3>2. OneRunPerEvent'
      BY <2>9 DEF LLMRaises, Escape
    <3>3. QueueHoldsReceived'
      BY <2>9 DEF LLMRaises, Escape
    <3>4. BuryingIsLast'
      BY <2>9 DEF LLMRaises, Escape
    <3>5. DeadIsUntouched'
      BY <2>9 DEF LLMRaises, Escape
    <3>6. DeadLetterIsFinal'
      BY <2>9 DEF LLMRaises, Escape
    <3> QED
      BY <3>1, <3>2, <3>3, <3>4, <3>5, <3>6
  <2>10. ASSUME NEW s \in Slots, Dispatch(s)
        PROVE  Ownership'
    <3>1. pc[s] \in InTask /\ CutOff(s)
      BY <2>10 DEF Dispatch, CutOff
    <3>2. Writes(s)
      BY <3>1, CutOffWrites
    <3>3. /\ tries' = tries /\ queue' = queue
          /\ inProgress' \subseteq inProgress
          /\ job'[s] \in {job[s], None}
          /\ \A q \in Slots \ {s} : pc'[q] = pc[q] /\ job'[q] = job[q]
      BY <2>10 DEF Dispatch, Goto, FailWith
    <3>4. \/ deadLetters' = deadLetters
          \/ pc'[s] \in {"return", "raise"}
          \/ job'[s] = None
      BY <2>10 DEF Dispatch, Goto, FailWith, Deliver
    <3>5. QueueHoldsReceived' /\ DeadIsUntouched' /\ DeadLetterIsFinal'
      BY <3>1, <3>2, <3>3, <3>4, RunKeepsTables
    <3>6. RunsOwnJobs'
      BY <2>10, <3>1 DEF Dispatch, Goto, FailWith
    <3>7. OneRunPerEvent'
      BY <2>10, <3>1 DEF Dispatch, Goto, FailWith
    <3>8. BuryingIsLast'
      BY <2>10, <3>1, <3>2 DEF Dispatch, Goto, FailWith, Writes
    <3> QED
      BY <3>5, <3>6, <3>7, <3>8
  <2>11. ASSUME NEW s \in Slots, StoreDispatched(s)
        PROVE  Ownership'
    <3>1. pc[s] \in InTask /\ CutOff(s)
      BY <2>11 DEF StoreDispatched, CutOff
    <3>2. Writes(s)
      BY <3>1, CutOffWrites
    <3>3. /\ tries' = tries /\ queue' = queue
          /\ inProgress' \subseteq inProgress
          /\ job'[s] \in {job[s], None}
          /\ \A q \in Slots \ {s} : pc'[q] = pc[q] /\ job'[q] = job[q]
      BY <2>11 DEF StoreDispatched, Goto
    <3>4. \/ deadLetters' = deadLetters
          \/ pc'[s] \in {"return", "raise"}
          \/ job'[s] = None
      BY <2>11 DEF StoreDispatched, Goto, MarkDispatched
    <3>5. QueueHoldsReceived' /\ DeadIsUntouched' /\ DeadLetterIsFinal'
      BY <3>1, <3>2, <3>3, <3>4, RunKeepsTables
    <3>6. RunsOwnJobs'
      BY <2>11, <3>1 DEF StoreDispatched, Goto
    <3>7. OneRunPerEvent'
      BY <2>11, <3>1 DEF StoreDispatched, Goto
    <3>8. BuryingIsLast'
      BY <2>11, <3>1, <3>2 DEF StoreDispatched, Goto, Writes
    <3> QED
      BY <3>5, <3>6, <3>7, <3>8
  <2>12. ASSUME NEW s \in Slots, StoreFailed(s)
        PROVE  Ownership'
    <3>1. pc[s] \in InTask /\ CutOff(s)
      BY <2>12 DEF StoreFailed, CutOff
    <3>2. Writes(s)
      BY <3>1, CutOffWrites
    <3>3. /\ tries' = tries /\ queue' = queue
          /\ inProgress' \subseteq inProgress
          /\ job'[s] \in {job[s], None}
          /\ \A q \in Slots \ {s} : pc'[q] = pc[q] /\ job'[q] = job[q]
      BY <2>12 DEF StoreFailed, Goto
    <3>4. \/ deadLetters' = deadLetters
          \/ pc'[s] \in {"return", "raise"}
          \/ job'[s] = None
      BY <2>12 DEF StoreFailed, Goto, MarkFailed
    <3>5. QueueHoldsReceived' /\ DeadIsUntouched' /\ DeadLetterIsFinal'
      BY <3>1, <3>2, <3>3, <3>4, RunKeepsTables
    <3>6. RunsOwnJobs'
      BY <2>12, <3>1 DEF StoreFailed, Goto
    <3>7. OneRunPerEvent'
      BY <2>12, <3>1 DEF StoreFailed, Goto
    <3>8. BuryingIsLast'
      <4> SUFFICES ASSUME NEW q \in Slots, pc'[q] = "bury"
                   PROVE  /\ jobTry'[q] = MaxTries
                          /\ rows'[job'[q]] =
                               EventRow("failed", jobTry'[q], error'[q])
        BY DEF BuryingIsLast
      <4>1. job' = job /\ jobTry' = jobTry /\ error' = error
        BY <2>12 DEF StoreFailed, Goto
      <4>2. CASE q = s
        <5>1. rows'[job[s]] = EventRow("failed", jobTry[s], error[s])
          BY <2>12, <3>1 DEF StoreFailed, MarkFailed
        <5>2. pc'[s] = "bury" /\ s \in Slots
          BY <4>2
        <5>3. jobTry[s] >= MaxTries
          BY <2>12, <5>2 DEF StoreFailed, Goto
        <5>4. jobTry[s] = MaxTries
          BY <5>3, LastTry
        <5> QED
          BY <4>1, <4>2, <5>1, <5>4
      <4>3. CASE q # s
        <5>1. pc[q] = "bury"
          BY <2>12, <4>3 DEF StoreFailed, Goto
        <5>2. rows'[job[q]] = rows[job[q]]
          BY <3>1, <3>2, <4>3, <5>1 DEF Writes
        <5> QED
          BY <4>1, <5>1, <5>2
      <4> QED
        BY <4>2, <4>3
    <3> QED
      BY <3>5, <3>6, <3>7, <3>8
  <2>13. ASSUME NEW s \in Slots, Bury(s)
        PROVE  Ownership'
    <3>1. pc[s] \in InTask /\ CutOff(s)
      BY <2>13 DEF Bury, CutOff
    <3>2. Writes(s)
      BY <3>1, CutOffWrites
    <3>3. /\ tries' = tries /\ queue' = queue
          /\ inProgress' \subseteq inProgress
          /\ job'[s] \in {job[s], None}
          /\ \A q \in Slots \ {s} : pc'[q] = pc[q] /\ job'[q] = job[q]
      BY <2>13 DEF Bury, Goto
    <3>4. \/ deadLetters' = deadLetters
          \/ pc'[s] \in {"return", "raise"}
          \/ job'[s] = None
      BY <2>13 DEF Bury, Goto
    <3>5. QueueHoldsReceived' /\ DeadIsUntouched' /\ DeadLetterIsFinal'
      BY <3>1, <3>2, <3>3, <3>4, RunKeepsTables
    <3>6. RunsOwnJobs'
      BY <2>13, <3>1 DEF Bury, Goto
    <3>7. OneRunPerEvent'
      BY <2>13, <3>1 DEF Bury, Goto
    <3>8. BuryingIsLast'
      BY <2>13, <3>1, <3>2 DEF Bury, Goto, Writes
    <3> QED
      BY <3>5, <3>6, <3>7, <3>8
  <2>14. ASSUME NEW s \in Slots, CallFails(s)
        PROVE  Ownership'
    <3>1. pc[s] \in InTask /\ CutOff(s)
      BY <2>14 DEF CallFails, CutOff
    <3>2. Writes(s)
      BY <3>1, CutOffWrites
    <3>3. /\ tries' = tries /\ queue' = queue
          /\ inProgress' \subseteq inProgress
          /\ job'[s] \in {job[s], None}
          /\ \A q \in Slots \ {s} : pc'[q] = pc[q] /\ job'[q] = job[q]
      BY <2>14 DEF CallFails, Escape
    <3>4. \/ deadLetters' = deadLetters
          \/ pc'[s] \in {"return", "raise"}
          \/ job'[s] = None
      BY <2>14 DEF CallFails, Escape
    <3>5. QueueHoldsReceived' /\ DeadIsUntouched' /\ DeadLetterIsFinal'
      BY <3>1, <3>2, <3>3, <3>4, RunKeepsTables
    <3>6. RunsOwnJobs'
      BY <2>14, <3>1 DEF CallFails, Escape
    <3>7. OneRunPerEvent'
      BY <2>14, <3>1 DEF CallFails, Escape
    <3>8. BuryingIsLast'
      BY <2>14, <3>1, <3>2 DEF CallFails, Escape, Writes
    <3> QED
      BY <3>5, <3>6, <3>7, <3>8
  <2>15. ASSUME NEW s \in Slots, TaskReturned(s)
        PROVE  Ownership'
    <3>1. RunsOwnJobs'
      BY <2>15 DEF TaskReturned, FinishJob, FreeSlot
    <3>2. OneRunPerEvent'
      BY <2>15 DEF TaskReturned, FinishJob, FreeSlot
    <3>3. QueueHoldsReceived'
      BY <2>15 DEF TaskReturned, FinishJob, FreeSlot
    <3>4. BuryingIsLast'
      BY <2>15 DEF TaskReturned, FinishJob, FreeSlot
    <3>5. DeadIsUntouched'
      BY <2>15 DEF TaskReturned, FinishJob, FreeSlot
    <3>6. DeadLetterIsFinal'
      BY <2>15 DEF TaskReturned, FinishJob, FreeSlot
    <3> QED
      BY <3>1, <3>2, <3>3, <3>4, <3>5, <3>6
  <2>16. ASSUME NEW s \in Slots, TaskRaised(s)
        PROVE  Ownership'
    <3>1. RunsOwnJobs'
      BY <2>16 DEF TaskRaised, FinishJob, FreeSlot
    <3>2. OneRunPerEvent'
      BY <2>16 DEF TaskRaised, FinishJob, FreeSlot
    <3>3. QueueHoldsReceived'
      BY <2>16 DEF TaskRaised, FinishJob, FreeSlot
    <3>4. BuryingIsLast'
      BY <2>16 DEF TaskRaised, FinishJob, FreeSlot
    <3>5. DeadIsUntouched'
      BY <2>16 DEF TaskRaised, FinishJob, FreeSlot
    <3>6. DeadLetterIsFinal'
      BY <2>16 DEF TaskRaised, FinishJob, FreeSlot
    <3> QED
      BY <3>1, <3>2, <3>3, <3>4, <3>5, <3>6
  <2>17. ASSUME NEW s \in Slots, Timeout(s)
        PROVE  Ownership'
    <3>1. pc[s] \in InTask /\ CutOff(s)
      BY <2>17 DEF Timeout, CutOff
    <3>2. Writes(s)
      BY <3>1, CutOffWrites
    <3>3. /\ tries' = tries /\ queue' = queue
          /\ inProgress' \subseteq inProgress
          /\ job'[s] \in {job[s], None}
          /\ \A q \in Slots \ {s} : pc'[q] = pc[q] /\ job'[q] = job[q]
      BY <2>17 DEF Timeout, Escape
    <3>4. \/ deadLetters' = deadLetters
          \/ pc'[s] \in {"return", "raise"}
          \/ job'[s] = None
      BY <2>17 DEF Timeout, Escape
    <3>5. QueueHoldsReceived' /\ DeadIsUntouched' /\ DeadLetterIsFinal'
      BY <3>1, <3>2, <3>3, <3>4, RunKeepsTables
    <3>6. RunsOwnJobs'
      BY <2>17, <3>1 DEF Timeout, Escape
    <3>7. OneRunPerEvent'
      BY <2>17, <3>1 DEF Timeout, Escape
    <3>8. BuryingIsLast'
      BY <2>17, <3>1, <3>2 DEF Timeout, Escape, Writes
    <3> QED
      BY <3>5, <3>6, <3>7, <3>8
  <2>18. ASSUME NEW s \in Slots, Shutdown(s)
        PROVE  Ownership'
    <3>1. pc[s] \in InTask /\ CutOff(s)
      BY <2>18 DEF Shutdown, CutOff
    <3>2. Writes(s)
      BY <3>1, CutOffWrites
    <3>3. /\ tries' = tries /\ queue' = queue
          /\ inProgress' \subseteq inProgress
          /\ job'[s] \in {job[s], None}
          /\ \A q \in Slots \ {s} : pc'[q] = pc[q] /\ job'[q] = job[q]
      BY <2>18 DEF Shutdown, KeepJob, FreeSlot
    <3>4. \/ deadLetters' = deadLetters
          \/ pc'[s] \in {"return", "raise"}
          \/ job'[s] = None
      BY <2>18 DEF Shutdown, KeepJob, FreeSlot
    <3>5. QueueHoldsReceived' /\ DeadIsUntouched' /\ DeadLetterIsFinal'
      BY <3>1, <3>2, <3>3, <3>4, RunKeepsTables
    <3>6. RunsOwnJobs'
      BY <2>18, <3>1 DEF Shutdown, KeepJob, FreeSlot
    <3>7. OneRunPerEvent'
      BY <2>18, <3>1 DEF Shutdown, KeepJob, FreeSlot
    <3>8. BuryingIsLast'
      BY <2>18, <3>1, <3>2 DEF Shutdown, KeepJob, FreeSlot, Writes
    <3> QED
      BY <3>5, <3>6, <3>7, <3>8
  <2>19. ASSUME NEW s \in Slots, Crash(s)
        PROVE  Ownership'
    <3>1. /\ tries' = tries /\ queue' = queue
          /\ inProgress' \subseteq inProgress
          /\ job'[s] = None
          /\ \A q \in Slots \ {s} : pc'[q] = pc[q] /\ job'[q] = job[q]
      BY <2>19 DEF Crash, FreeSlot
    <3>2. QueueHoldsReceived' /\ DeadIsUntouched' /\ DeadLetterIsFinal'
      <4>1. CASE pc[s] \in InTask
        <5>1. Writes(s)
          BY <2>19, <4>1, CutOffWrites DEF Crash
        <5> QED
          BY <3>1, <4>1, <5>1, RunKeepsTables
      <4>2. CASE pc[s] \notin InTask
        <5>1. UNCHANGED tables
          BY <2>19, <4>2 DEF Crash, CutOff
        <5>2. QueueHoldsReceived'
          BY <3>1, <5>1
        <5>3. DeadIsUntouched'
          <6> SUFFICES ASSUME NEW d \in deadLetters
                       PROVE  /\ d.event \in queue =>
                                   tries[d.event] = MaxTries
                              /\ \A q \in Slots :
                                   job'[q] = d.event =>
                                     pc'[q] \in {"return", "raise"}
            BY <3>1, <5>1
          <6>1. d.event \in Events
            OBVIOUS
          <6>2. d.event # None
            BY <6>1
          <6>3. d.event \in queue => tries[d.event] = MaxTries
            OBVIOUS
          <6>4. ASSUME NEW q \in Slots, job'[q] = d.event
                PROVE  pc'[q] \in {"return", "raise"}
            <7>1. q # s
              BY <3>1, <6>2, <6>4
            <7>2. pc'[q] = pc[q] /\ job[q] = d.event
              BY <3>1, <6>4, <7>1
            <7> QED
              BY <7>2
          <6> QED
            BY <6>3, <6>4
        <5>4. DeadLetterIsFinal'
          BY <5>1
        <5> QED
          BY <5>2, <5>3, <5>4
      <4> QED
        BY <4>1, <4>2
    <3>3. RunsOwnJobs'
      BY <2>19 DEF Crash, FreeSlot
    <3>4. OneRunPerEvent'
      BY <2>19 DEF Crash, FreeSlot
    <3>5. BuryingIsLast'
      <4> SUFFICES ASSUME NEW q \in Slots, pc'[q] = "bury"
                   PROVE  /\ jobTry'[q] = MaxTries
                          /\ rows'[job'[q]] =
                               EventRow("failed", jobTry'[q], error'[q])
        BY DEF BuryingIsLast
      <4>1. q # s /\ pc[q] = "bury"
        BY <2>19 DEF Crash, FreeSlot
      <4>2. job'[q] = job[q] /\ jobTry'[q] = jobTry[q] /\ error'[q] = error[q]
        BY <2>19, <4>1 DEF Crash, FreeSlot
      <4>3. rows'[job[q]] = rows[job[q]]
        <5>1. CASE pc[s] \in InTask
          <6>1. Writes(s)
            BY <2>19, <5>1, CutOffWrites DEF Crash
          <6> QED
            BY <4>1, <5>1, <6>1 DEF Writes
        <5>2. CASE pc[s] \notin InTask
          BY <2>19, <5>2 DEF Crash, CutOff
        <5> QED
          BY <5>1, <5>2
      <4> QED
        BY <4>1, <4>2, <4>3
    <3> QED
      BY <3>2, <3>3, <3>4, <3>5
  <2> QED
    BY <2>1, <2>2, <2>3, <2>4, <2>5, <2>6, <2>7, <2>8, <2>9, <2>10, <2>11,
       <2>12, <2>13, <2>14, <2>15, <2>16, <2>17, <2>18, <2>19 DEF Next, Work,
       Process
<1> QED
  BY <1>1, <1>2, TypeCorrect, PTL DEF Spec

-----------------------------------------------------------------------------
(* What the invariant gives.                                               *)

\* No event is processed by two slots at once: the in-progress key is the
\* lock of process_webhook, and a crash leaves it in place.
THEOREM RunsOnce == Spec => []OneRunPerEvent
<1>1. Ownership => OneRunPerEvent
  BY DEF Ownership
<1> QED
  BY <1>1, OwnershipInvariant, PTL

\* Nothing rewrites an event that has a dead letter: _handle_failure commits
\* the two in separate transactions, and no later run undoes the first.
THEOREM DeadLettersStand == Spec => []DeadLetterIsFinal
<1>1. Ownership => DeadLetterIsFinal
  BY DEF Ownership
<1> QED
  BY <1>1, OwnershipInvariant, PTL

\* insert_dead_letter never meets the unique constraint on
\* original_event_id.
THEOREM BuriesAtMostOnce == Spec => []BuriesOnce
<1>1. Ownership => BuriesOnce
  <2> SUFFICES ASSUME Ownership, NEW s \in Slots, pc[s] = "bury"
               PROVE  ~IsDeadLettered(job[s])
    BY DEF BuriesOnce
  <2>1. \A d \in deadLetters : d.event # job[s]
    BY DEF Ownership, DeadIsUntouched
  <2> QED
    BY <2>1 DEF IsDeadLettered
<1> QED
  BY <1>1, OwnershipInvariant, PTL

\* A step changes the tables as a POST does or as one await of a run does.
LEMMA StepWrites ==
  ASSUME Ownership, [Next]_vars
  PROVE  \/ /\ UNCHANGED tables
            /\ queue' = queue \/ \E e \in queue : queue' = queue \ {e}
         \/ \E e \in Events : Receive(e)
         \/ \E s \in Slots : pc[s] \in InTask /\ Writes(s) /\ queue' = queue
<1> USE DEF tables, InTask
<1>1. CASE UNCHANGED vars
  BY <1>1 DEF vars
<1>2. ASSUME NEW e \in Events, InProgressExpires(e)
      PROVE  UNCHANGED tables /\ queue' = queue
  BY <1>2 DEF InProgressExpires
<1>3. ASSUME NEW e \in Events, NEW s \in Slots, Start(s, e) \/ Discard(s, e)
      PROVE  /\ UNCHANGED tables
             /\ queue' = queue \/ \E f \in queue : queue' = queue \ {f}
  BY <1>3 DEF Start, Discard, Startable
<1>4. ASSUME NEW s \in Slots,
             ClassifyLead(s) \/ ClassifyFails(s) \/ LLMRaises(s)
      PROVE  UNCHANGED tables /\ queue' = queue
  BY <1>4 DEF ClassifyLead, ClassifyFails, LLMRaises, arq
<1>5. ASSUME NEW s \in Slots, TaskReturned(s) \/ TaskRaised(s)
      PROVE  UNCHANGED tables /\ \E e \in queue : queue' = queue \ {e}
  <2>1. job[s] \in queue
    BY <1>5 DEF TaskReturned, TaskRaised, Ownership, RunsOwnJobs
  <2> QED
    BY <1>5, <2>1 DEF TaskReturned, TaskRaised, FinishJob
<1>6. ASSUME NEW s \in Slots,
             \/ EnterTask(s) \/ Dispatch(s) \/ StoreDispatched(s)
             \/ StoreFailed(s) \/ Bury(s) \/ CallFails(s)
             \/ Timeout(s) \/ Shutdown(s)
      PROVE  pc[s] \in InTask /\ Writes(s) /\ queue' = queue
  <2>1. pc[s] \in InTask /\ CutOff(s)
    BY <1>6 DEF EnterTask, Dispatch, StoreDispatched, StoreFailed, Bury,
       CallFails, Timeout, Shutdown, CutOff
  <2>2. queue' = queue
    BY <1>6 DEF EnterTask, Dispatch, StoreDispatched, StoreFailed, Bury,
       CallFails, Timeout, Shutdown, KeepJob, arq
  <2> QED
    BY <2>1, <2>2, CutOffWrites
<1>7. ASSUME NEW s \in Slots, Crash(s)
      PROVE  /\ UNCHANGED tables \/ (pc[s] \in InTask /\ Writes(s))
             /\ queue' = queue
  <2>1. CASE pc[s] \in InTask
    BY <1>7, <2>1, CutOffWrites DEF Crash, arq
  <2>2. CASE pc[s] \notin InTask
    BY <1>7, <2>2 DEF Crash, CutOff, arq
  <2> QED
    BY <2>1, <2>2
<1> QED
  BY <1>1, <1>2, <1>3, <1>4, <1>5, <1>6, <1>7 DEF Next, Work, Process

\* dispatch_attempts never decreases: a run writes its own job_try, and the
\* try of a queued job is never behind the row.
THEOREM AttemptsMonotone == Spec => AttemptsNeverDecrease
<1>1. Ownership /\ [Next]_vars
        => [\A e \in Events : rows'[e].attempts >= rows[e].attempts]_vars
  <2> SUFFICES ASSUME Ownership, [Next]_vars, NEW e \in Events
               PROVE  rows'[e].attempts >= rows[e].attempts
    OBVIOUS
  <2>1. /\ rows \in [Events -> [status : Statuses, attempts : 0..MaxTries,
                                 error : Errors \cup {None}]]
        /\ rows[e].attempts \in Nat
    BY ConstantsAssumption DEF Ownership, TypeOK
  <2>2. CASE UNCHANGED tables
    BY <2>1, <2>2 DEF tables
  <2>3. ASSUME NEW f \in Events, Receive(f)
        PROVE  rows'[e].attempts >= rows[e].attempts
    BY <2>1, <2>3 DEF Receive
  <2>4. ASSUME NEW s \in Slots, pc[s] \in InTask, Writes(s)
        PROVE  rows'[e].attempts >= rows[e].attempts
    <3>1. CASE e # job[s]
      BY <2>1, <2>4, <3>1 DEF Writes
    <3>2. CASE e = job[s]
      <4>1. rows'[e].attempts \in {rows[e].attempts, jobTry[s]}
        BY <2>4, <3>2 DEF Writes
      <4>2. jobTry[s] = tries[e] /\ e \in queue
        BY <2>4, <3>2 DEF Ownership, RunsOwnJobs, InTask
      <4>3. rows[e].attempts <= tries[e] /\ tries[e] \in Nat
        BY <4>2, ConstantsAssumption DEF Ownership, QueueHoldsReceived, TypeOK
      <4> QED
        BY <2>1, <4>1, <4>2, <4>3
    <3> QED
      BY <3>1, <3>2
  <2> QED
    BY <2>2, <2>3, <2>4, StepWrites
<1> QED
  BY <1>1, OwnershipInvariant, PTL DEF Spec, AttemptsNeverDecrease

-----------------------------------------------------------------------------
(* What a dispatched event owes to its targets.  The dispatches counted    *)
(* for an event never go back, and a run only stands at mark_dispatched    *)
(* when a target took the event.                                           *)

Taken(e) == Targets # {} => \E t \in Targets : taken[e][t] > 0

TakenBeforeStored ==
  /\ Ownership
  /\ \A s \in Slots : pc[s] = "dispatched" => Taken(job[s])
  /\ DispatchedMeansDelivered

\* An event that was taken stays taken, however often it is sent again.
LEMMA DeliverKeepsTaken ==
  ASSUME TypeOK, NEW e \in Events, NEW f \in Events, Taken(f),
         NEW took \in SUBSET Targets, Deliver(e, took)
  PROVE  Taken(f)'
<1> SUFFICES ASSUME Targets # {}
             PROVE  \E t \in Targets : taken'[f][t] > 0
  BY DEF Taken
<1>1. PICK t \in Targets : taken[f][t] > 0
  BY DEF Taken
<1>2. CASE f # e
  BY <1>1, <1>2 DEF Deliver, TypeOK
<1>3. CASE f = e
  <2>1. taken'[e][t] = taken[e][t] + IF t \in took THEN 1 ELSE 0
    BY DEF Deliver, TypeOK
  <2>2. taken[e][t] \in Nat
    BY DEF TypeOK
  <2> QED
    BY <1>1, <1>3, <2>1, <2>2
<1> QED
  BY <1>2, <1>3

\* A target that takes the event in a dispatch makes it taken.
LEMMA DeliverTakes ==
  ASSUME TypeOK, NEW e \in Events, NEW took \in SUBSET Targets,
         Deliver(e, took), took # {} \/ Targets = {}
  PROVE  Taken(e)'
<1> SUFFICES ASSUME Targets # {}
             PROVE  \E t \in Targets : taken'[e][t] > 0
  BY DEF Taken
<1>1. PICK t \in took : TRUE
  OBVIOUS
<1>2. taken'[e][t] = taken[e][t] + 1
  BY <1>1 DEF Deliver, TypeOK
<1>3. taken[e][t] \in Nat
  BY <1>1 DEF TypeOK
<1> QED
  BY <1>1, <1>2, <1>3

\* One step, seen from the status of the rows and the counted dispatches.
LEMMA CutOffStatus ==
  ASSUME TypeOK, NEW s \in Slots, pc[s] \in InTask, CutOff(s),
         NEW e \in Events
  PROVE  /\ Taken(e) => Taken(e)'
         /\ rows'[e].status = "dispatched" =>
              \/ rows[e].status = "dispatched"
              \/ e = job[s] /\ pc[s] = "dispatched"
<1> USE DEF tables
<1>1. /\ job[s] \in Events
      /\ rows \in [Events -> [status : Statuses, attempts : 0..MaxTries,
                              error : Errors \cup {None}]]
  BY DEF TypeOK, InTask
<1>2. CASE UNCHANGED <<tables, taken>>
  BY <1>2 DEF Taken
<1>3. CASE MarkProcessing(job[s])
  BY <1>1, <1>3 DEF MarkProcessing, Taken
<1>4. ASSUME NEW took \in SUBSET Targets, Deliver(job[s], took)
      PROVE  (Taken(e) => Taken(e)') /\ rows' = rows
  BY <1>1, <1>4, DeliverKeepsTaken DEF Deliver
<1>5. CASE pc[s] = "dispatched" /\ MarkDispatched(job[s], jobTry[s])
  BY <1>1, <1>5 DEF MarkDispatched, Taken
<1>6. CASE MarkFailed(job[s], error[s], jobTry[s])
  BY <1>1, <1>6 DEF MarkFailed, EventRow, Taken
<1>7. CASE InsertDeadLetter(job[s], error[s], jobTry[s])
  BY <1>7 DEF InsertDeadLetter, Taken
<1> QED
  BY <1>2, <1>3, <1>4, <1>5, <1>6, <1>7 DEF CutOff

\* An event that is called dispatched was taken by a target, if there is one.
THEOREM DispatchedIsDelivered == Spec => []DispatchedMeansDelivered
<1>1. Init => \A e \in Events : ~Dispatched(e)
  <2> SUFFICES ASSUME Init, NEW e \in Events
               PROVE  ~Dispatched(e)
    OBVIOUS
  <2>1. rows[e] = EventRow("absent", 0, None)
    BY DEF Init
  <2> QED
    BY <2>1 DEF Dispatched, EventRow
<1>2. Ownership /\ Init => TakenBeforeStored
  BY <1>1 DEF Init, TakenBeforeStored, DispatchedMeansDelivered
<1>3. TakenBeforeStored /\ Ownership' /\ [Next]_vars => TakenBeforeStored'
  <2> SUFFICES ASSUME TakenBeforeStored, Ownership', [Next]_vars
               PROVE  TakenBeforeStored'
    OBVIOUS
  <2>1. Ownership /\ TypeOK
    BY DEF TakenBeforeStored, Ownership
  <2> DEFINE Carried ==
               /\ \A e \in Events : Taken(e) => Taken(e)'
               /\ \A e \in Events :
                    rows'[e].status = "dispatched" =>
                      \/ rows[e].status = "dispatched"
                      \/ \E s \in Slots : e = job[s] /\ pc[s] = "dispatched"
             Arrived ==
               \A s \in Slots :
                 pc'[s] = "dispatched" =>
                   \/ pc[s] = "dispatched" /\ job'[s] = job[s]
                   \/ Taken(job[s])' /\ job'[s] = job[s]
  <2>2. CASE UNCHANGED vars
    BY <2>2 DEF vars, TakenBeforeStored, Ownership, TypeOK, Taken,
       DispatchedMeansDelivered, Dispatched
  <2>3. ASSUME NEW e \in Events,
               Receive(e) \/ InProgressExpires(e)
        PROVE  Carried /\ Arrived
    <3>1. UNCHANGED slots /\ UNCHANGED taken
      BY <2>3 DEF Receive, InProgressExpires
    <3>2. CASE Receive(e)
      <4>1. \A f \in Events :
              rows'[f].status = "dispatched" => rows[f].status = "dispatched"
        BY <2>1, <3>2 DEF Receive, TypeOK
      <4> QED
        BY <3>1, <4>1 DEF slots, Taken
    <3>3. CASE InProgressExpires(e)
      BY <3>1, <3>3 DEF InProgressExpires, slots, tables, Taken
    <3> QED
      BY <2>3, <3>2, <3>3
  <2>4. ASSUME NEW s \in Slots, NEW e \in Events, Start(s, e) \/ Discard(s, e)
        PROVE  Carried /\ Arrived
    <3>1. CASE Start(s, e)
      BY <2>1, <3>1 DEF Start, tables, Taken, TypeOK
    <3>2. CASE Discard(s, e)
      BY <3>2 DEF Discard, slots, tables, Taken
    <3> QED
      BY <2>4, <3>1, <3>2
  <2>5. ASSUME NEW s \in Slots,
               \/ ClassifyLead(s) \/ ClassifyFails(s) \/ LLMRaises(s)
        PROVE  Carried /\ Arrived
    BY <2>1, <2>5 DEF ClassifyLead, ClassifyFails, LLMRaises, Goto, FailWith,
       Escape, tables, Taken, TypeOK
  <2>6. ASSUME NEW s \in Slots, TaskReturned(s) \/ TaskRaised(s)
        PROVE  Carried /\ Arrived
    <3>1. FreeSlot(s) /\ UNCHANGED <<tables, taken>>
      BY <2>6 DEF TaskReturned, TaskRaised, FinishJob
    <3> QED
      BY <2>1, <3>1 DEF FreeSlot, tables, Taken, TypeOK
  <2>7. ASSUME NEW s \in Slots, pc[s] \in InTask, CutOff(s)
        PROVE  Carried
    BY <2>1, <2>7, CutOffStatus
  <2>8. ASSUME NEW s \in Slots,
               \/ EnterTask(s) \/ StoreDispatched(s) \/ StoreFailed(s)
               \/ Bury(s) \/ CallFails(s) \/ Timeout(s) \/ Shutdown(s)
        PROVE  Carried /\ Arrived
    <3>1. pc[s] \in InTask /\ CutOff(s)
      BY <2>8 DEF EnterTask, StoreDispatched, StoreFailed, Bury, CallFails,
         Timeout, Shutdown, CutOff, InTask
    <3>2. Arrived
      BY <2>1, <2>8 DEF EnterTask, StoreDispatched, StoreFailed, Bury,
         CallFails, Timeout, Shutdown, Goto, Escape, KeepJob, FreeSlot,
         TypeOK
    <3> QED
      BY <2>7, <3>1, <3>2
  <2>9. ASSUME NEW s \in Slots, Dispatch(s)
        PROVE  Carried /\ Arrived
    <3>1. pc[s] \in InTask /\ CutOff(s)
      BY <2>9 DEF Dispatch, CutOff, InTask
    <3>2. PICK took \in SUBSET Targets :
            /\ Deliver(job[s], took)
            /\ \/ FailWith(s, "dispatch")
               \/ Goto(s, "dispatched") /\ (took # {} \/ Targets = {})
      BY <2>9 DEF Dispatch
    <3>3. job[s] \in Events
      BY <2>1, <3>1 DEF TypeOK, InTask
    <3>4. CASE FailWith(s, "dispatch")
      BY <2>1, <2>7, <3>1, <3>4 DEF FailWith, TypeOK
    <3>5. CASE Goto(s, "dispatched") /\ (took # {} \/ Targets = {})
      <4>1. Taken(job[s])'
        <5>1. job' = job
          BY <3>5 DEF Goto
        <5>2. \A e \in Events : e = job[s] => Taken(e)'
          BY <2>1, <3>2, <3>3, <3>5, DeliverTakes
        <5> QED
          BY <3>3, <5>1, <5>2 DEF Taken
      <4> QED
        BY <2>1, <2>7, <3>1, <3>5, <4>1 DEF Goto, TypeOK
    <3> QED
      BY <3>2, <3>4, <3>5
  <2>10. ASSUME NEW s \in Slots, Crash(s)
         PROVE  Carried /\ Arrived
    <3>1. Arrived
      BY <2>1, <2>10 DEF Crash, FreeSlot, TypeOK
    <3>2. CASE pc[s] \in InTask
      BY <2>7, <2>10, <3>1, <3>2 DEF Crash
    <3>3. CASE pc[s] \notin InTask
      BY <2>10, <3>1, <3>3 DEF Crash, CutOff, InTask, tables, Taken
    <3> QED
      BY <3>2, <3>3
  <2>11. ASSUME Carried, Arrived
         PROVE  TakenBeforeStored'
    <3>1. \A s \in Slots : pc[s] = "dispatched" => job[s] \in Events
      BY <2>1 DEF TypeOK
    <3>2. \A s \in Slots : pc'[s] = "dispatched" => Taken(job[s])'
      BY <2>11, <3>1 DEF TakenBeforeStored
    <3>3. \A e \in Events : Dispatched(e)' => Taken(e)'
      BY <2>11, <3>1 DEF TakenBeforeStored, DispatchedMeansDelivered,
         Dispatched, Taken
    <3> QED
      BY <3>2, <3>3, <2>11 DEF TakenBeforeStored, DispatchedMeansDelivered,
         Taken
  <2> QED
    BY <2>2, <2>3, <2>4, <2>5, <2>6, <2>8, <2>9, <2>10, <2>11
       DEF Next, Work, Process
<1>4. TakenBeforeStored => DispatchedMeansDelivered
  BY DEF TakenBeforeStored
<1> QED
  BY <1>2, <1>3, <1>4, OwnershipInvariant, PTL DEF Spec

-----------------------------------------------------------------------------
(* How often an event is dispatched.  Every dispatch is paid for with a    *)
(* try: the dispatches in which a target took an event lag behind the      *)
(* retry counter of a queued job, and by one more while its run has yet to *)
(* send.  A job that was let go of loses its counter, but it is never      *)
(* queued again.                                                           *)

Unsent == {"processing", "classify", "dispatch"}

DispatchesPaid ==
  /\ \A e \in Events, t \in Targets :
       /\ taken[e][t] <= MaxTries
       /\ e \in queue => taken[e][t] <= tries[e]
       /\ rows[e].status = "absent" => taken[e][t] = 0
  /\ \A s \in Slots, t \in Targets :
       pc[s] \in Unsent => taken[job[s]][t] < jobTry[s]

\* What a step that is no POST may do to the counts of the targets: only the
\* run that stands at dispatch sends, and only its own event.
LEMMA CutOffSends ==
  ASSUME TypeOK, NEW s \in Slots, pc[s] \in InTask, CutOff(s),
         NEW e \in Events, NEW t \in Targets
  PROVE  \/ taken'[e][t] = taken[e][t]
         \/ /\ pc[s] = "dispatch" /\ e = job[s]
            /\ taken'[e][t] = taken[e][t] + 1
<1> USE DEF tables
<1>1. job[s] \in Events
  BY DEF TypeOK, InTask
<1>2. ASSUME NEW took \in SUBSET Targets, Deliver(job[s], took)
      PROVE  \/ taken'[e][t] = taken[e][t]
             \/ e = job[s] /\ taken'[e][t] = taken[e][t] + 1
  <2>1. CASE e # job[s]
    BY <1>2, <2>1 DEF Deliver, TypeOK
  <2>2. CASE e = job[s]
    <3>1. taken'[e][t] = taken[e][t] + IF t \in took THEN 1 ELSE 0
      BY <1>1, <1>2, <2>2 DEF Deliver, TypeOK
    <3>2. taken[e][t] \in Nat
      BY DEF TypeOK
    <3> QED
      BY <2>2, <3>1, <3>2
  <2> QED
    BY <2>1, <2>2
<1> QED
  BY <1>2 DEF CutOff, MarkProcessing, MarkDispatched, MarkFailed,
     InsertDeadLetter

\* A run that stands at an await sends what it has paid for, and then stands
\* behind it; a run that has not sent yet may go on without sending.
LEMMA RunStaysPaid ==
  ASSUME Ownership, DispatchesPaid, NEW s \in Slots, pc[s] \in InTask,
         CutOff(s), queue' = queue, tries' = tries,
         \A q \in Slots \ {s} :
           pc'[q] = pc[q] /\ job'[q] = job[q] /\ jobTry'[q] = jobTry[q],
         pc'[s] \in Unsent =>
           /\ job'[s] = job[s] /\ jobTry'[s] = jobTry[s]
           /\ pc[s] \in Unsent \ {"dispatch"}
  PROVE  DispatchesPaid'
<1> USE ConstantsAssumption
<1>1. /\ job[s] \in Events /\ job[s] \in queue
      /\ jobTry[s] = tries[job[s]] /\ tries[job[s]] \in 0..MaxTries
      /\ rows[job[s]].status # "absent"
  BY DEF Ownership, RunsOwnJobs, TypeOK, InTask, QueueHoldsReceived
<1>2. \A e \in Events : rows'[e].status = "absent" => rows[e].status = "absent"
  BY CutOffWrites DEF Writes
<1>3. ASSUME NEW e \in Events, NEW t \in Targets
      PROVE  /\ taken'[e][t] <= MaxTries
             /\ e \in queue' => taken'[e][t] <= tries'[e]
             /\ rows'[e].status = "absent" => taken'[e][t] = 0
  <2>1. taken[e][t] \in Nat /\ tries[e] \in 0..MaxTries
    BY DEF Ownership, TypeOK
  <2>2. CASE taken'[e][t] = taken[e][t]
    BY <1>2, <2>2 DEF DispatchesPaid
  <2>3. CASE /\ pc[s] = "dispatch" /\ e = job[s]
             /\ taken'[e][t] = taken[e][t] + 1
    <3>1. taken[e][t] < tries[e]
      BY <1>1, <2>3 DEF DispatchesPaid, Unsent
    <3>2. rows'[e].status # "absent"
      BY <1>1, <1>2, <2>3
    <3> QED
      BY <2>1, <2>3, <3>1, <3>2
  <2> QED
    BY <2>2, <2>3, CutOffSends DEF Ownership
<1>4. ASSUME NEW q \in Slots, NEW t \in Targets, pc'[q] \in Unsent
      PROVE  taken'[job'[q]][t] < jobTry'[q]
  <2>1. /\ pc[q] \in Unsent /\ job'[q] = job[q] /\ jobTry'[q] = jobTry[q]
        /\ job[q] \in Events
        /\ ~(pc[s] = "dispatch" /\ job[q] = job[s])
    <3>1. pc[q] \in Unsent /\ job'[q] = job[q] /\ jobTry'[q] = jobTry[q]
      BY <1>4
    <3>2. job[q] \in Events
      BY <3>1 DEF Ownership, TypeOK, Unsent
    <3>3. job[q] = job[s] => q = s
      BY <1>1 DEF Ownership, OneRunPerEvent
    <3> QED
      BY <1>4, <3>1, <3>2, <3>3
  <2>2. taken'[job[q]][t] = taken[job[q]][t]
    BY <2>1, CutOffSends DEF Ownership
  <2> QED
    BY <2>1, <2>2 DEF DispatchesPaid
<1> QED
  BY <1>3, <1>4 DEF DispatchesPaid

\* A step that leaves the tables alone and sends nothing keeps the account
\* when the tries of queued jobs only grow and a new run has a try to spare.
LEMMA QuietStaysPaid ==
  ASSUME Ownership, DispatchesPaid, UNCHANGED <<tables, taken>>,
         queue' \subseteq queue,
         \A e \in queue' : tries'[e] >= tries[e],
         \A s \in Slots : pc'[s] \in Unsent =>
           /\ job'[s] \in Events
           /\ \A t \in Targets : taken[job'[s]][t] < jobTry'[s],
         tries' \in [Events -> Nat]
  PROVE  DispatchesPaid'
<1> USE ConstantsAssumption
<1>1. ASSUME NEW e \in Events, NEW t \in Targets, e \in queue'
      PROVE  taken[e][t] <= tries'[e]
  <2>1. /\ taken[e][t] \in Nat /\ tries[e] \in Nat /\ tries'[e] \in Nat
        /\ taken[e][t] <= tries[e] /\ tries[e] <= tries'[e]
    BY <1>1 DEF Ownership, TypeOK, DispatchesPaid
  <2> QED
    BY <2>1
<1> QED
  BY <1>1 DEF DispatchesPaid, tables

LEMMA DispatchesPaidInvariant == Spec => []DispatchesPaid
<1> USE ConstantsAssumption
<1>1. Init => DispatchesPaid
  BY DEF Init, DispatchesPaid, Unsent
<1>2. Ownership /\ Ownership' /\ DispatchesPaid /\ [Next]_vars
        => DispatchesPaid'
  <2> SUFFICES ASSUME Ownership, Ownership', DispatchesPaid, [Next]_vars
               PROVE  DispatchesPaid'
    OBVIOUS
  <2>0. TypeOK /\ TypeOK' /\ tries' \in [Events -> Nat]
    BY DEF Ownership, TypeOK
  <2>1. CASE UNCHANGED vars
    BY <2>1 DEF vars, DispatchesPaid
  <2>2. ASSUME NEW e \in Events, Receive(e)
        PROVE  DispatchesPaid'
    <3>1. \A t \in Targets : taken[e][t] = 0 /\ tries[e] \in Nat
      BY <2>0, <2>2 DEF Receive, DispatchesPaid, TypeOK
    <3>2. \A f \in Events :
            rows'[f].status = "absent" => rows[f].status = "absent"
      BY <2>0, <2>2 DEF Receive, TypeOK
    <3> QED
      BY <2>2, <3>1, <3>2 DEF Receive, DispatchesPaid, slots
  <2>3. ASSUME NEW e \in Events, InProgressExpires(e)
        PROVE  DispatchesPaid'
    BY <2>3 DEF InProgressExpires, DispatchesPaid, slots, tables
  <2>4. ASSUME NEW s \in Slots, NEW e \in Events, Start(s, e)
        PROVE  DispatchesPaid'
    <3>1. /\ e \in queue /\ UNCHANGED <<queue, tables, taken>>
          /\ tries' = [tries EXCEPT ![e] = tries[e] + 1]
          /\ \A q \in Slots \ {s} :
               pc'[q] = pc[q] /\ job'[q] = job[q] /\ jobTry'[q] = jobTry[q]
          /\ job'[s] = e /\ jobTry'[s] = tries[e] + 1
      BY <2>0, <2>4 DEF Start, Startable, TypeOK
    <3>2. \A f \in queue : tries'[f] >= tries[f]
      BY <2>0, <3>1 DEF TypeOK
    <3>3. \A t \in Targets : taken[e][t] < tries[e] + 1
      <4> SUFFICES ASSUME NEW t \in Targets
                   PROVE  taken[e][t] < tries[e] + 1
        OBVIOUS
      <4>1. /\ taken[e][t] <= tries[e]
            /\ taken[e][t] \in Nat /\ tries[e] \in Nat
        BY <2>0, <3>1 DEF DispatchesPaid, TypeOK
      <4> QED
        BY <4>1
    <3>4. ASSUME NEW q \in Slots, pc'[q] \in Unsent
          PROVE  /\ job'[q] \in Events
                 /\ \A t \in Targets : taken[job'[q]][t] < jobTry'[q]
      <4>1. CASE q = s
        BY <3>1, <3>3, <4>1
      <4>2. CASE q # s
        BY <2>0, <3>1, <3>4, <4>2 DEF DispatchesPaid, TypeOK, Unsent
      <4> QED
        BY <4>1, <4>2
    <3> QED
      BY <2>0, <3>1, <3>2, <3>4, QuietStaysPaid
  <2>5. ASSUME NEW s \in Slots, NEW e \in Events, Discard(s, e)
        PROVE  DispatchesPaid'
    <3>1. /\ queue' = queue \ {e} /\ UNCHANGED <<slots, tables, taken>>
          /\ \A f \in queue' : tries'[f] = tries[f] /\ tries[f] \in Nat
      BY <2>0, <2>5 DEF Discard, TypeOK
    <3>2. ASSUME NEW q \in Slots, pc'[q] \in Unsent
          PROVE  /\ job'[q] \in Events
                 /\ \A t \in Targets : taken[job'[q]][t] < jobTry'[q]
      BY <2>0, <3>1, <3>2 DEF slots, DispatchesPaid, TypeOK, Unsent
    <3> QED
      BY <2>0, <3>1, <3>2, QuietStaysPaid
  <2>6. ASSUME NEW s \in Slots, TaskReturned(s) \/ TaskRaised(s)
        PROVE  DispatchesPaid'
    <3>1. /\ FreeSlot(s) /\ UNCHANGED <<tables, taken>>
          /\ queue' \subseteq queue
          /\ \A f \in queue' : tries'[f] = tries[f] /\ tries[f] \in Nat
      BY <2>0, <2>6
         DEF TaskReturned, TaskRaised, FinishJob, TypeOK
    <3>2. ASSUME NEW q \in Slots, pc'[q] \in Unsent
          PROVE  /\ job'[q] \in Events
                 /\ \A t \in Targets : taken[job'[q]][t] < jobTry'[q]
      <4>1. q # s
        BY <2>0, <3>1, <3>2 DEF FreeSlot, TypeOK, Unsent
      <4> QED
        BY <2>0, <3>1, <3>2, <4>1
           DEF FreeSlot, DispatchesPaid, TypeOK, Unsent
    <3> QED
      BY <2>0, <3>1, <3>2, QuietStaysPaid
  <2>7. ASSUME NEW s \in Slots,
               \/ EnterTask(s)
               \/ ClassifyLead(s) \/ ClassifyFails(s) \/ LLMRaises(s)
               \/ Dispatch(s) \/ StoreDispatched(s) \/ StoreFailed(s)
               \/ Bury(s) \/ CallFails(s) \/ Timeout(s)
        PROVE  DispatchesPaid'
    <3>1. pc[s] \in InTask /\ CutOff(s) /\ UNCHANGED arq
      BY <2>7 DEF EnterTask, ClassifyLead, ClassifyFails, LLMRaises, Dispatch,
         StoreDispatched, StoreFailed, Bury, CallFails, Timeout, CutOff,
         InTask
    <3>2. /\ UNCHANGED <<job, jobTry>>
          /\ \A q \in Slots \ {s} : pc'[q] = pc[q]
      BY <2>0, <2>7 DEF EnterTask, ClassifyLead, ClassifyFails, LLMRaises,
         Dispatch, StoreDispatched, StoreFailed, Bury, CallFails, Timeout,
         Goto, FailWith, Escape, TypeOK
    <3>3. pc'[s] \in Unsent => pc[s] \in Unsent \ {"dispatch"}
      BY <2>0, <2>7 DEF EnterTask, ClassifyLead, ClassifyFails, LLMRaises,
         Dispatch, StoreDispatched, StoreFailed, Bury, CallFails, Timeout,
         Goto, FailWith, Escape, TypeOK, Unsent
    <3> QED
      BY <3>1, <3>2, <3>3, RunStaysPaid DEF arq
  <2>8. ASSUME NEW s \in Slots, Shutdown(s) \/ Crash(s)
        PROVE  DispatchesPaid'
    <3>1. /\ CutOff(s) /\ queue' = queue /\ tries' = tries
          /\ FreeSlot(s)
      BY <2>8 DEF Shutdown, Crash, KeepJob, arq
    <3>2. /\ pc'[s] \notin Unsent
          /\ \A q \in Slots \ {s} :
               pc'[q] = pc[q] /\ job'[q] = job[q] /\ jobTry'[q] = jobTry[q]
      BY <2>0, <3>1 DEF FreeSlot, TypeOK, Unsent
    <3>3. CASE pc[s] \in InTask
      BY <3>1, <3>2, <3>3, RunStaysPaid
    <3>4. CASE pc[s] \notin InTask
      <4>1. UNCHANGED <<tables, taken>>
        BY <3>1, <3>4 DEF CutOff, InTask
      <4> QED
        BY <3>1, <3>2, <4>1 DEF DispatchesPaid, tables
    <3> QED
      BY <3>3, <3>4
  <2> QED
    BY <2>1, <2>2, <2>3, <2>4, <2>5, <2>6, <2>7, <2>8 DEF Next, Work, Process
<1> QED
  BY <1>1, <1>2, OwnershipInvariant, PTL DEF Spec

\* Whatever interrupts the runs of an event, no target takes it in more than
\* MAX_TRIES dispatches, also if dispatched events are taken up again.
THEOREM DispatchesAreBounded == Spec => []DispatchesBounded
<1>1. DispatchesPaid => DispatchesBounded
  BY DEF DispatchesPaid, DispatchesBounded
<1> QED
  BY <1>1, DispatchesPaidInvariant, PTL

-----------------------------------------------------------------------------
(* The job of a task that raised is finished, so that only a run that a    *)
(* stopping or dying worker cuts off leaves its job a second try.          *)

TriedIsRunning ==
  \A e \in Events : tries[e] # 0 => \E s \in Slots : job[s] = e

LEMMA TriedIsRunningInvariant ==
  ASSUME Hazards \cap {"shutdown", "crash"} = {}
  PROVE  Spec => []TriedIsRunning
<1>1. Init => TriedIsRunning
  BY DEF Init, TriedIsRunning
<1>2. Ownership /\ TriedIsRunning /\ [Next]_vars => TriedIsRunning'
  <2> SUFFICES ASSUME Ownership, TriedIsRunning, [Next]_vars,
                      NEW e \in Events, tries'[e] # 0
               PROVE  \E s \in Slots : job'[s] = e
    BY DEF TriedIsRunning
  <2>0. TypeOK
    BY DEF Ownership
  <2>1. CASE UNCHANGED <<tries, job>>
    BY <2>1 DEF TriedIsRunning
  <2>2. ASSUME NEW f \in Events, Receive(f) \/ InProgressExpires(f)
        PROVE  UNCHANGED <<tries, job>>
    BY <2>2 DEF Receive, InProgressExpires, slots
  <2>3. ASSUME NEW s \in Slots, NEW f \in Events, Start(s, f)
        PROVE  \E q \in Slots : job'[q] = e
    <3>1. /\ job[s] = None
          /\ tries' = [tries EXCEPT ![f] = @ + 1]
          /\ job' = [job EXCEPT ![s] = f]
      BY <2>3 DEF Start, Startable, Ownership, RunsOwnJobs
    <3>2. CASE e = f
      BY <2>0, <3>1, <3>2 DEF TypeOK
    <3>3. CASE e # f
      <4>1. PICK q \in Slots : job[q] = e
        BY <2>0, <3>1, <3>3 DEF TriedIsRunning, TypeOK
      <4>2. q # s
        BY <3>1, <4>1, ConstantsAssumption
      <4> QED
        BY <2>0, <3>1, <4>1, <4>2 DEF TypeOK
    <3> QED
      BY <3>2, <3>3
  <2>4. ASSUME NEW s \in Slots, NEW f \in Events, Discard(s, f)
        PROVE  tries[e] # 0 /\ job' = job
    BY <2>0, <2>4 DEF Discard, TypeOK, slots
  <2>5. ASSUME NEW s \in Slots, TaskReturned(s) \/ TaskRaised(s)
        PROVE  \E q \in Slots : job'[q] = e
    <3>1. /\ tries' = [tries EXCEPT ![job[s]] = 0]
          /\ job' = [job EXCEPT ![s] = None]
          /\ job[s] \in Events
      BY <2>0, <2>5 DEF TaskReturned, TaskRaised, FinishJob, FreeSlot, TypeOK
    <3>2. e # job[s] /\ tries[e] # 0
      BY <2>0, <3>1 DEF TypeOK
    <3>3. PICK q \in Slots : job[q] = e
      BY <3>2 DEF TriedIsRunning
    <3> QED
      BY <2>0, <3>1, <3>2, <3>3 DEF TypeOK
  <2>6. ASSUME NEW s \in Slots,
               \/ EnterTask(s)
               \/ ClassifyLead(s) \/ ClassifyFails(s) \/ LLMRaises(s)
               \/ Dispatch(s) \/ StoreDispatched(s) \/ StoreFailed(s)
               \/ Bury(s) \/ CallFails(s) \/ Timeout(s)
        PROVE  UNCHANGED <<tries, job>>
    BY <2>6 DEF EnterTask, ClassifyLead, ClassifyFails, LLMRaises, Dispatch,
       StoreDispatched, StoreFailed, Bury, CallFails, Timeout, Goto, FailWith,
       Escape, arq
  <2>7. ASSUME NEW s \in Slots, Shutdown(s) \/ Crash(s)
        PROVE  FALSE
    BY <2>7 DEF Shutdown, Crash
  <2>8. CASE UNCHANGED vars
    BY <2>1, <2>8 DEF vars
  <2> QED
    BY <2>1, <2>2, <2>3, <2>4, <2>5, <2>6, <2>7, <2>8
       DEF Next, Work, Process, TriedIsRunning
<1> QED
  BY <1>1, <1>2, OwnershipInvariant, PTL DEF Spec

\* A job that no slot runs is untried, so arq never gives one up unrun.
LEMMA NoDiscard ==
  ASSUME Ownership, TriedIsRunning,
         NEW s \in Slots, NEW e \in Events, Startable(s, e)
  PROVE  tries[e] = 0 /\ ~Discard(s, e) /\ \A q \in Slots : job[q] # e
<1>1. \A q \in Slots : job[q] # e
  BY ConstantsAssumption DEF Startable, Ownership, RunsOwnJobs
<1>2. tries[e] = 0
  BY <1>1 DEF TriedIsRunning
<1> QED
  BY <1>1, <1>2, ConstantsAssumption DEF Discard

OneTry ==
  /\ FirstTryIsLast
  /\ \A s \in Slots : pc[s] # "free" => jobTry[s] = 1 /\ pc[s] # "bury"

\* An await of a first try records that try and buries nothing.
LEMMA FirstTryWrites ==
  ASSUME Ownership, DispatchesPaid, OneTry, NEW s \in Slots,
         pc[s] \in InTask, CutOff(s)
  PROVE  FirstTryIsLast'
<1>1. jobTry[s] = 1 /\ pc[s] # "bury" /\ job[s] \in Events
  BY DEF OneTry, Ownership, TypeOK, InTask
<1>2. Writes(s)
  BY CutOffWrites
<1>3. deadLetters' = {}
  BY <1>1, <1>2 DEF Writes, OneTry, FirstTryIsLast
<1>4. ASSUME NEW e \in Events
      PROVE  rows'[e].attempts <= 1
  BY <1>1, <1>2 DEF Writes, OneTry, FirstTryIsLast
<1>5. ASSUME NEW e \in Events, NEW t \in Targets
      PROVE  taken'[e][t] <= 1
  <2>1. taken[e][t] \in Nat
    BY DEF Ownership, TypeOK
  <2>2. CASE taken'[e][t] = taken[e][t]
    BY <2>2 DEF OneTry, FirstTryIsLast
  <2>3. CASE /\ pc[s] = "dispatch" /\ e = job[s]
             /\ taken'[e][t] = taken[e][t] + 1
    <3>1. taken[e][t] < 1
      BY <1>1, <2>3 DEF DispatchesPaid, Unsent
    <3> QED
      BY <2>1, <2>3, <3>1
  <2> QED
    BY <2>2, <2>3, CutOffSends DEF Ownership
<1> QED
  BY <1>3, <1>4, <1>5 DEF FirstTryIsLast

LEMMA OneTryKept ==
  ASSUME Hazards \cap {"shutdown", "crash"} = {}, MaxTries > 1,
         Ownership, Ownership', DispatchesPaid, TriedIsRunning, OneTry,
         [Next]_vars
  PROVE  OneTry'
<1> USE ConstantsAssumption
<1>0. TypeOK /\ TypeOK'
  BY DEF Ownership
<1>1. CASE UNCHANGED vars
  BY <1>1 DEF vars, OneTry, FirstTryIsLast
<1>2. ASSUME NEW e \in Events, Receive(e)
      PROVE  OneTry'
  <2>1. \A f \in Events : rows'[f].attempts = rows[f].attempts
    BY <1>0, <1>2 DEF Receive, TypeOK
  <2> QED
    BY <1>2, <2>1 DEF Receive, OneTry, FirstTryIsLast, slots
<1>3. ASSUME NEW e \in Events, InProgressExpires(e)
      PROVE  OneTry'
  BY <1>3 DEF InProgressExpires, OneTry, FirstTryIsLast, slots, tables
<1>4. ASSUME NEW s \in Slots, NEW e \in Events, Start(s, e)
      PROVE  OneTry'
  <2>1. tries[e] = 0
    BY <1>4, NoDiscard DEF Start
  <2>2. /\ pc' = [pc EXCEPT ![s] = "processing"]
        /\ job' = [job EXCEPT ![s] = e]
        /\ jobTry' = [jobTry EXCEPT ![s] = 1]
        /\ UNCHANGED <<tables, taken>>
    BY <1>4, <2>1 DEF Start
  <2>3. \A q \in Slots : pc'[q] # "free" => jobTry'[q] = 1 /\ pc'[q] # "bury"
    BY <1>0, <2>2 DEF OneTry, TypeOK
  <2> QED
    BY <2>2, <2>3 DEF OneTry, FirstTryIsLast, tables
<1>5. ASSUME NEW s \in Slots, NEW e \in Events, Discard(s, e)
      PROVE  FALSE
  BY <1>5, NoDiscard DEF Discard
<1>6. ASSUME NEW s \in Slots, TaskReturned(s) \/ TaskRaised(s)
      PROVE  OneTry'
  <2>1. /\ FreeSlot(s) /\ UNCHANGED <<tables, taken>>
    BY <1>0, <1>6 DEF TaskReturned, TaskRaised, FinishJob, TypeOK
  <2>2. \A q \in Slots : pc'[q] # "free" => jobTry'[q] = 1 /\ pc'[q] # "bury"
    BY <1>0, <2>1 DEF FreeSlot, OneTry, TypeOK
  <2> QED
    BY <2>1, <2>2 DEF OneTry, FirstTryIsLast, tables
<1>7. ASSUME NEW s \in Slots,
             \/ EnterTask(s)
             \/ ClassifyLead(s) \/ ClassifyFails(s) \/ LLMRaises(s)
             \/ Dispatch(s) \/ StoreDispatched(s) \/ StoreFailed(s)
             \/ Bury(s) \/ CallFails(s) \/ Timeout(s)
      PROVE  OneTry'
  <2>1. pc[s] \in InTask /\ CutOff(s) /\ UNCHANGED arq
    BY <1>7 DEF EnterTask, ClassifyLead, ClassifyFails, LLMRaises, Dispatch,
       StoreDispatched, StoreFailed, Bury, CallFails, Timeout, CutOff,
       InTask
  <2>2. /\ UNCHANGED <<job, jobTry>>
        /\ \A q \in Slots \ {s} : pc'[q] = pc[q]
    BY <1>0, <1>7 DEF EnterTask, ClassifyLead, ClassifyFails, LLMRaises,
       Dispatch, StoreDispatched, StoreFailed, Bury, CallFails, Timeout,
       Goto, FailWith, Escape, TypeOK
  <2>3. jobTry[s] = 1 /\ pc'[s] # "bury"
    <3>1. jobTry[s] = 1
      BY <2>1 DEF OneTry, InTask
    <3> QED
      BY <1>0, <1>7, <3>1 DEF EnterTask, ClassifyLead, ClassifyFails,
         LLMRaises, Dispatch, StoreDispatched, StoreFailed, Bury, CallFails,
         Timeout, Goto, FailWith, Escape, TypeOK
  <2>4. FirstTryIsLast'
    BY <2>1, FirstTryWrites
  <2> QED
    BY <2>1, <2>2, <2>3, <2>4 DEF OneTry, arq
<1>8. ASSUME NEW s \in Slots, Shutdown(s) \/ Crash(s)
      PROVE  FALSE
  BY <1>8 DEF Shutdown, Crash
<1> QED
  BY <1>1, <1>2, <1>3, <1>4, <1>5, <1>6, <1>7, <1>8 DEF Next, Work, Process

\* The dead-letter queue of the service stays empty and no event is tried or
\* dispatched again, unless a worker is stopped or dies in a run: MAX_TRIES is
\* never reached, whichever calls fail or time out.
THEOREM NoRetryNoDeadLetter ==
  ASSUME Hazards \cap {"shutdown", "crash"} = {}, MaxTries > 1
  PROVE  Spec => []FirstTryIsLast
<1>1. Init => OneTry
  BY DEF Init, OneTry, FirstTryIsLast, EventRow
<1>2. OneTry => FirstTryIsLast
  BY DEF OneTry
<1> QED
  BY <1>1, <1>2, OneTryKept, OwnershipInvariant, DispatchesPaidInvariant,
     TriedIsRunningInvariant, PTL DEF Spec

-----------------------------------------------------------------------------
(* Why the queue drains, whatever fails: the part of it that needs no      *)
(* fairness.  Something can always be done about a queued job, and there   *)
(* is only so much that can be done before one leaves the queue.           *)

\* A slot can take the job, or some run has its next await ahead of it, which
\* no constraint of the database forbids, or a key that a dead run left behind
\* is there to expire.
QueueNeverStuck ==
  \A e \in queue :
    Slots # {} =>
      \/ \E s \in Slots : Startable(s, e)
      \/ \E s \in Slots :
           pc[s] # "free" /\ (pc[s] = "bury" => ~IsDeadLettered(job[s]))
      \/ e \in inProgress /\ \A s \in Slots : job[s] # e

\* The steps a run has left, at most, until arq has dealt with it.
StepsFrom(label) ==
  CASE label = "processing" -> 6
    [] label = "classify" -> 5
    [] label = "dispatch" -> 4
    [] label \in {"dispatched", "failed"} -> 3
    [] label = "bury" -> 2
    [] label \in {"return", "raise"} -> 1
    [] label = "free" -> 0

StepsLeft(s) == StepsFrom(pc[s])

\* A step takes an event in, or it lets one go for good, or it uses up a try of
\* a queued event, or it drops an in-progress key and sends no run back, or it
\* takes one run forward and leaves the rest alone.
SpendsTries ==
  \/ \E e \in Events \ queue :
       queue' = queue \cup {e} /\ UNCHANGED <<inProgress, tries, slots>>
  \/ \E e \in queue : queue' = queue \ {e}
  \/ /\ queue' = queue
     /\ \E e \in queue :
          tries[e] < MaxTries /\ tries' = [tries EXCEPT ![e] = @ + 1]
  \/ /\ UNCHANGED <<queue, tries>>
     /\ \E e \in inProgress : inProgress' = inProgress \ {e}
     /\ \A s \in Slots : StepsLeft(s)' <= StepsLeft(s)
  \/ /\ UNCHANGED arq
     /\ \E s \in Slots :
          /\ StepsLeft(s)' < StepsLeft(s)
          /\ \A other \in Slots \ {s} : StepsLeft(other)' = StepsLeft(other)

\* No queued job ever waits for something that nobody will do: in-progress
\* keys of dead runs and constraints of the database block nothing for good.
THEOREM QueueIsNeverStuck == Spec => []QueueNeverStuck
<1>1. ASSUME Ownership, NEW e \in queue, NEW s \in Slots
      PROVE  \/ Startable(s, e)
             \/ pc[s] # "free" /\ (pc[s] = "bury" => ~IsDeadLettered(job[s]))
             \/ e \in inProgress /\ pc[s] = "free"
  <2>1. pc[s] = "bury" => ~IsDeadLettered(job[s])
    BY <1>1 DEF Ownership, DeadIsUntouched, IsDeadLettered
  <2> QED
    BY <1>1, <2>1 DEF Startable
<1>2. ASSUME Ownership, NEW e \in queue, \A s \in Slots : pc[s] = "free"
      PROVE  \A s \in Slots : job[s] # e
  BY <1>2, ConstantsAssumption DEF Ownership, RunsOwnJobs, TypeOK
<1>3. Ownership => QueueNeverStuck
  BY <1>1, <1>2 DEF QueueNeverStuck
<1> QED
  BY <1>3, OwnershipInvariant, PTL

LEMMA StepsOfTask ==
  /\ StepsFrom("processing") = 6 /\ StepsFrom("classify") = 5
  /\ StepsFrom("dispatch") = 4
  /\ StepsFrom("dispatched") = 3 /\ StepsFrom("failed") = 3
  /\ StepsFrom("bury") = 2
  /\ StepsFrom("return") = 1 /\ StepsFrom("raise") = 1
  /\ StepsFrom("free") = 0
BY DEF StepsFrom

LEMMA StepsAreCounted == Ownership => \A s \in Slots : StepsLeft(s) \in Nat
BY StepsOfTask DEF Ownership, TypeOK, Labels, InTask, StepsLeft

\* A run that goes on has the steps left that its label says.
LEMMA RunGoesOn ==
  ASSUME Ownership, NEW s \in Slots, NEW label \in Labels,
         pc' = [pc EXCEPT ![s] = label]
  PROVE  /\ StepsLeft(s)' = StepsFrom(label)
         /\ \A other \in Slots \ {s} : StepsLeft(other)' = StepsLeft(other)
BY DEF Ownership, TypeOK, StepsLeft

\* What a run does in the task, or in raising, takes it forward.
LEMMA TaskSpends ==
  ASSUME Ownership, NEW s \in Slots,
         \/ EnterTask(s) \/ ClassifyLead(s) \/ ClassifyFails(s) \/ LLMRaises(s)
         \/ Dispatch(s) \/ StoreDispatched(s) \/ StoreFailed(s) \/ Bury(s)
         \/ CallFails(s) \/ Timeout(s) \/ Crash(s)
  PROVE  SpendsTries
<1> USE DEF InTask, Labels
<1>1. UNCHANGED arq
  BY DEF EnterTask, ClassifyLead, ClassifyFails, LLMRaises, Dispatch,
     StoreDispatched, StoreFailed, Bury, CallFails, Timeout, Crash
<1>2. PICK label \in Labels :
        /\ pc' = [pc EXCEPT ![s] = label]
        /\ \/ pc[s] = "processing" /\ label = "classify"
           \/ pc[s] = "classify" /\ label \in {"dispatch", "failed"}
           \/ pc[s] = "dispatch" /\ label \in {"dispatched", "failed"}
           \/ pc[s] = "dispatched" /\ label = "return"
           \/ pc[s] = "failed" /\ label = "bury"
           \/ pc[s] = "bury" /\ label = "return"
           \/ pc[s] \in InTask /\ label = "raise"
           \/ pc[s] # "free" /\ label = "free"
  BY DEF EnterTask, ClassifyLead, ClassifyFails, LLMRaises, Dispatch,
     StoreDispatched, StoreFailed, Bury, CallFails, Timeout, Crash, Goto,
     FailWith, Escape, FreeSlot
<1>3. pc[s] \in Labels
  BY DEF Ownership, TypeOK
<1>4. StepsFrom(label) < StepsFrom(pc[s])
  BY <1>2, <1>3, StepsOfTask
<1>5. /\ StepsLeft(s)' < StepsLeft(s)
      /\ \A other \in Slots \ {s} : StepsLeft(other)' = StepsLeft(other)
  BY <1>2, <1>4, RunGoesOn DEF StepsLeft
<1> QED
  BY <1>1, <1>5 DEF SpendsTries

\* Between two departures from the queue there are finitely many steps, for
\* every set of hazards: an event is taken in once, its tries are bounded, and
\* a run only goes forward.
THEOREM StepsSpendTries == Spec => [][SpendsTries]_vars
<1>1. ASSUME Ownership, NEW e \in Events, Receive(e)
      PROVE  SpendsTries
  <2>1. e \notin queue
    BY <1>1 DEF Ownership, QueueHoldsReceived, Receive
  <2> QED
    BY <1>1, <2>1 DEF Receive, SpendsTries
<1>2. ASSUME Ownership, NEW e \in Events, InProgressExpires(e)
      PROVE  SpendsTries
  <2>1. \A s \in Slots : StepsLeft(s)' = StepsLeft(s) /\ StepsLeft(s) \in Nat
    BY <1>2, StepsAreCounted DEF InProgressExpires, slots, StepsLeft
  <2> QED
    BY <1>2, <2>1 DEF InProgressExpires, SpendsTries
<1>3. ASSUME NEW s \in Slots, NEW e \in Events, Start(s, e) \/ Discard(s, e)
      PROVE  SpendsTries
  BY <1>3 DEF Start, Discard, Startable, SpendsTries
<1>4. ASSUME Ownership, NEW s \in Slots, pc[s] # "free"
      PROVE  job[s] \in queue /\ job[s] \in inProgress
  BY <1>4 DEF Ownership, RunsOwnJobs
<1>5. ASSUME Ownership, NEW s \in Slots, pc[s] # "free", FinishJob(s)
      PROVE  SpendsTries
  BY <1>4, <1>5 DEF FinishJob, SpendsTries
<1>6. ASSUME Ownership, NEW s \in Slots, pc[s] # "free", KeepJob(s)
      PROVE  SpendsTries
  <2>1. /\ UNCHANGED <<queue, tries>>
        /\ inProgress' = inProgress \ {job[s]} /\ job[s] \in inProgress
        /\ pc' = [pc EXCEPT ![s] = "free"]
    BY <1>4, <1>6 DEF KeepJob, FreeSlot
  <2>2. \A other \in Slots : StepsLeft(other)' <= StepsLeft(other)
    <3>1. /\ StepsLeft(s)' = 0
          /\ \A other \in Slots \ {s} : StepsLeft(other)' = StepsLeft(other)
      BY <1>6, <2>1, RunGoesOn, StepsOfTask DEF Labels
    <3> QED
      BY <1>6, <3>1, StepsAreCounted
  <2> QED
    BY <2>1, <2>2 DEF SpendsTries
<1>7. ASSUME Ownership, NEW s \in Slots,
             TaskReturned(s) \/ TaskRaised(s) \/ Shutdown(s)
      PROVE  SpendsTries
  BY <1>5, <1>6, <1>7 DEF TaskReturned, TaskRaised, Shutdown, InTask
<1>8. Ownership /\ [Next]_vars => [SpendsTries]_vars
  BY <1>1, <1>2, <1>3, <1>7, TaskSpends DEF Next, Work, Process
<1> QED
  BY <1>8, OwnershipInvariant, PTL DEF Spec

=============================================================================
