-------------------------- MODULE WorkerFateProofs --------------------------
(***************************************************************************)
(* Theorems about what comes of an event, on the queue as it is: a task    *)
(* that raised is not run again.  Whatever fails, no failure is swallowed, *)
(* and the worker implements the EventFate whose dispatched events may be  *)
(* taken up again.  While no worker stops or dies it implements EventFate  *)
(* itself, and without faults no event is lost.                            *)
(***************************************************************************)
EXTENDS WorkerProofs, TLAPS

\* A run's job is its own.
LEMMA OwnJob ==
  ASSUME Ownership, NEW s \in Slots, pc[s] # "free"
  PROVE  /\ job[s] \in Events /\ job[s] \in queue
         /\ jobTry[s] = tries[job[s]] /\ jobTry[s] \in 0..MaxTries
         /\ rows[job[s]].status # "absent"
         /\ \A q \in Slots \ {s} : job[q] # job[s]
BY ConstantsAssumption DEF Ownership, TypeOK, RunsOwnJobs, OneRunPerEvent,
   QueueHoldsReceived

\* Dead letters are never taken back.
LEMMA DeadStaysDead ==
  ASSUME deadLetters \subseteq deadLetters', NEW e \in Events, Dead(e)
  PROVE  Dead(e)'
BY DEF Dead, IsDeadLettered

\* A step of one run leaves what is recorded about the jobs of the others.
LEMMA OthersStand ==
  ASSUME Ownership, [Next]_vars, NEW q \in Slots, pc[q] # "free",
         \A s \in Slots : s # q \/ pc[s] \notin InTask \/ ~Writes(s)
  PROVE  rows'[job[q]] = rows[job[q]] /\ deadLetters \subseteq deadLetters'
<1>1. /\ job[q] \in Events /\ rows[job[q]].status # "absent"
      /\ \A s \in Slots \ {q} : job[s] # job[q]
  BY OwnJob
<1>2. CASE UNCHANGED tables
  BY <1>2 DEF tables
<1>3. ASSUME NEW e \in Events, Receive(e)
      PROVE  rows'[job[q]] = rows[job[q]] /\ deadLetters' = deadLetters
  BY <1>1, <1>3 DEF Receive, Ownership, TypeOK
<1>4. ASSUME NEW s \in Slots, pc[s] \in InTask, Writes(s)
      PROVE  rows'[job[q]] = rows[job[q]] /\ deadLetters \subseteq deadLetters'
  BY <1>1, <1>4 DEF Writes
<1> QED
  BY <1>2, <1>3, <1>4, StepWrites

-----------------------------------------------------------------------------
(* No failure is swallowed.                                                *)

\* What the task knows of its outcome is recorded when it ends.
Recorded(s) ==
  /\ pc[s] = "return" => Dispatched(job[s]) \/ Dead(job[s])
  /\ pc[s] = "raise" /\ error[s] # None =>
       /\ jobTry[s] < MaxTries
       /\ rows[job[s]] = EventRow("failed", jobTry[s], error[s])

\* A run that has ended and waits for arq stays recorded.
LEMMA RecordedStands ==
  ASSUME Ownership, [Next]_vars, NEW q \in Slots, Recorded(q),
         pc[q] \in {"return", "raise"},
         pc'[q] = pc[q], job'[q] = job[q], jobTry'[q] = jobTry[q],
         error'[q] = error[q]
  PROVE  Recorded(q)'
<1>1. rows'[job[q]] = rows[job[q]] /\ deadLetters \subseteq deadLetters'
  BY OthersStand DEF InTask
<1>2. job[q] \in Events
  BY OwnJob
<1> QED
  BY <1>1, <1>2, DeadStaysDead DEF Recorded, Dispatched

\* The step that ends the task, and the steps that do not.
LEMMA SlotsMove ==
  ASSUME TypeOK, [Next]_vars, NEW q \in Slots
  PROVE  \/ /\ pc'[q] = pc[q] /\ job'[q] = job[q]
            /\ jobTry'[q] = jobTry[q] /\ error'[q] = error[q]
         \/ pc'[q] \notin {"return", "raise"}
         \/ StoreDispatched(q) \/ StoreFailed(q) \/ Bury(q)
         \/ /\ LLMRaises(q) \/ CallFails(q) \/ Timeout(q)
            /\ error'[q] = None
<1> USE DEF TypeOK
<1>1. CASE UNCHANGED slots
  BY <1>1 DEF slots
<1>2. UNCHANGED vars => UNCHANGED slots
  BY DEF vars, slots
<1>3. ASSUME NEW e \in Events, Receive(e) \/ InProgressExpires(e)
      PROVE  UNCHANGED slots
  BY <1>3 DEF Receive, InProgressExpires
<1>4. ASSUME NEW e \in Events, NEW s \in Slots, Discard(s, e)
      PROVE  UNCHANGED slots
  BY <1>4 DEF Discard
<1>5. ASSUME NEW s \in Slots, NEW label \in Labels \ {"return", "raise"},
             pc' = [pc EXCEPT ![s] = label],
             \A r \in Slots \ {s} :
               job'[r] = job[r] /\ jobTry'[r] = jobTry[r]
               /\ error'[r] = error[r]
      PROVE  \/ /\ pc'[q] = pc[q] /\ job'[q] = job[q]
                /\ jobTry'[q] = jobTry[q] /\ error'[q] = error[q]
             \/ pc'[q] \notin {"return", "raise"}
  BY <1>5
<1>6. ASSUME NEW s \in Slots, NEW e \in Events, Start(s, e)
      PROVE  /\ pc' = [pc EXCEPT ![s] = "processing"]
             /\ \A r \in Slots \ {s} :
                  job'[r] = job[r] /\ jobTry'[r] = jobTry[r]
                  /\ error'[r] = error[r]
  BY <1>6 DEF Start
<1>7. ASSUME NEW s \in Slots,
             \/ EnterTask(s) \/ ClassifyLead(s) \/ ClassifyFails(s)
             \/ Dispatch(s)
      PROVE  \E label \in {"classify", "dispatch", "dispatched", "failed"} :
               /\ pc' = [pc EXCEPT ![s] = label]
               /\ \A r \in Slots \ {s} :
                    job'[r] = job[r] /\ jobTry'[r] = jobTry[r]
                    /\ error'[r] = error[r]
  BY <1>7 DEF EnterTask, ClassifyLead, ClassifyFails, Dispatch, Goto, FailWith
<1>8. ASSUME NEW s \in Slots,
             TaskReturned(s) \/ TaskRaised(s) \/ Shutdown(s) \/ Crash(s)
      PROVE  /\ pc' = [pc EXCEPT ![s] = "free"]
             /\ \A r \in Slots \ {s} :
                  job'[r] = job[r] /\ jobTry'[r] = jobTry[r]
                  /\ error'[r] = error[r]
  BY <1>8 DEF TaskReturned, TaskRaised, Shutdown, Crash, FinishJob, KeepJob,
     FreeSlot
<1>9. ASSUME NEW s \in Slots, s # q,
             StoreDispatched(s) \/ StoreFailed(s) \/ Bury(s)
      PROVE  /\ pc'[q] = pc[q] /\ job'[q] = job[q]
             /\ jobTry'[q] = jobTry[q] /\ error'[q] = error[q]
  BY <1>9 DEF StoreDispatched, StoreFailed, Bury, Goto
<1>10. ASSUME NEW s \in Slots, LLMRaises(s) \/ CallFails(s) \/ Timeout(s)
       PROVE  \/ /\ pc'[q] = pc[q] /\ job'[q] = job[q]
                 /\ jobTry'[q] = jobTry[q] /\ error'[q] = error[q]
              \/ s = q /\ error'[q] = None
  BY <1>10 DEF LLMRaises, CallFails, Timeout, Escape
<1>11. ASSUME NEW s \in Slots, NEW e \in Events, Start(s, e)
       PROVE  \/ /\ pc'[q] = pc[q] /\ job'[q] = job[q]
                 /\ jobTry'[q] = jobTry[q] /\ error'[q] = error[q]
              \/ pc'[q] \notin {"return", "raise"}
  BY <1>5, <1>6, <1>11 DEF Labels, InTask
<1>12. ASSUME NEW s \in Slots,
              \/ EnterTask(s) \/ ClassifyLead(s) \/ ClassifyFails(s)
              \/ Dispatch(s)
              \/ TaskReturned(s) \/ TaskRaised(s) \/ Shutdown(s) \/ Crash(s)
       PROVE  \/ /\ pc'[q] = pc[q] /\ job'[q] = job[q]
                 /\ jobTry'[q] = jobTry[q] /\ error'[q] = error[q]
              \/ pc'[q] \notin {"return", "raise"}
  BY <1>5, <1>7, <1>8, <1>12 DEF Labels, InTask
<1> QED
  BY <1>1, <1>2, <1>3, <1>4, <1>9, <1>10, <1>11, <1>12
     DEF Next, Work, Process

LEMMA RecordedKept ==
  ASSUME Ownership, NoFailureSwallowed, [Next]_vars
  PROVE  NoFailureSwallowed'
<1> SUFFICES ASSUME NEW q \in Slots
             PROVE  Recorded(q)'
  BY DEF NoFailureSwallowed, Recorded
<1>0. TypeOK
  BY DEF Ownership
<1>1. CASE /\ pc'[q] = pc[q] /\ job'[q] = job[q]
           /\ jobTry'[q] = jobTry[q] /\ error'[q] = error[q]
  <2>1. CASE pc[q] \in {"return", "raise"}
    BY <1>1, <2>1, RecordedStands DEF NoFailureSwallowed, Recorded
  <2>2. CASE pc[q] \notin {"return", "raise"}
    BY <1>1, <2>2 DEF Recorded
  <2> QED
    BY <2>1, <2>2
<1>2. CASE pc'[q] \notin {"return", "raise"}
  BY <1>2 DEF Recorded
<1>3. CASE StoreDispatched(q)
  <2>1. /\ job[q] \in Events /\ job' = job /\ pc'[q] = "return"
        /\ rows' = [rows EXCEPT ![job[q]] =
                     EventRow("dispatched", jobTry[q], None)]
    BY <1>0, <1>3, OwnJob DEF StoreDispatched, MarkDispatched, Goto, TypeOK
  <2>2. Dispatched(job[q])'
    BY <1>0, <2>1 DEF Dispatched, EventRow, TypeOK
  <2> QED
    BY <2>1, <2>2 DEF Recorded
<1>4. CASE StoreFailed(q)
  <2>1. /\ job[q] \in Events
        /\ UNCHANGED <<job, jobTry, error>>
        /\ rows' = [rows EXCEPT ![job[q]] =
                     EventRow("failed", jobTry[q], error[q])]
        /\ pc'[q] = IF jobTry[q] >= MaxTries THEN "bury" ELSE "raise"
    BY <1>0, <1>4, OwnJob DEF StoreFailed, MarkFailed, Goto, TypeOK
  <2>2. rows'[job[q]] = EventRow("failed", jobTry[q], error[q])
    BY <1>0, <2>1 DEF TypeOK
  <2>3. jobTry[q] \in Nat /\ MaxTries \in Nat
    BY <1>0, ConstantsAssumption DEF TypeOK
  <2>4. pc'[q] = "raise" => jobTry[q] < MaxTries
    BY <2>1, <2>3
  <2>5. pc'[q] # "return"
    BY <2>1
  <2> QED
    BY <2>1, <2>2, <2>4, <2>5 DEF Recorded
<1>5. CASE Bury(q)
  <2> DEFINE new == DeadLetter(job[q], error[q], jobTry[q])
  <2>1. /\ job' = job /\ pc'[q] = "return"
        /\ deadLetters' = deadLetters \cup {new}
    BY <1>0, <1>5 DEF Bury, InsertDeadLetter, Goto, TypeOK
  <2>2. new.event = job[q]
    BY DEF DeadLetter
  <2> HIDE DEF new
  <2>3. Dead(job[q])'
    BY <2>1, <2>2 DEF Dead, IsDeadLettered
  <2> QED
    BY <2>1, <2>3 DEF Recorded
<1>6. CASE (LLMRaises(q) \/ CallFails(q) \/ Timeout(q)) /\ error'[q] = None
  <2>1. pc'[q] = "raise"
    BY <1>0, <1>6 DEF LLMRaises, CallFails, Timeout, Escape, TypeOK
  <2> QED
    BY <1>6, <2>1 DEF Recorded
<1> QED
  BY <1>0, <1>1, <1>2, <1>3, <1>4, <1>5, <1>6, SlotsMove

\* Whatever fails or is cut off, a task that returns has dispatched its event
\* or written its dead letter, and one that raises an error of its own has
\* recorded it and was not in its last try.
THEOREM SwallowsNoFailure == Spec => []NoFailureSwallowed
<1>1. Init => NoFailureSwallowed
  BY DEF Init, NoFailureSwallowed
<1> QED
  BY <1>1, RecordedKept, OwnershipInvariant, PTL DEF Spec

-----------------------------------------------------------------------------
(* Without faults nothing is lost: every run that ends has its outcome in  *)
(* the row, and every job is run.                                          *)

\* A task raises only for a failure of its own.
RaisesItsOwn == \A s \in Slots : pc[s] = "raise" => error[s] # None

LEMMA RaisesItsOwnInvariant ==
  ASSUME Hazards = {}
  PROVE  Spec => []RaisesItsOwn
<1>1. Init => RaisesItsOwn
  BY DEF Init, RaisesItsOwn
<1>2. TypeOK /\ RaisesItsOwn /\ [Next]_vars => RaisesItsOwn'
  <2> SUFFICES ASSUME TypeOK, RaisesItsOwn, [Next]_vars,
                      NEW q \in Slots, pc'[q] = "raise"
               PROVE  error'[q] # None
    BY DEF RaisesItsOwn
  <2>1. CASE StoreFailed(q)
    <3>1. error'[q] = error[q] /\ error[q] \in Errors
      BY <2>1 DEF StoreFailed, Goto, TypeOK
    <3> QED
      BY <3>1, ConstantsAssumption DEF Errors
  <2>2. CASE StoreDispatched(q) \/ Bury(q)
    BY <2>2 DEF StoreDispatched, Bury, Goto, TypeOK
  <2>3. CASE pc'[q] = pc[q] /\ error'[q] = error[q]
    BY <2>3 DEF RaisesItsOwn
  <2>4. ~(LLMRaises(q) \/ CallFails(q) \/ Timeout(q))
    BY DEF LLMRaises, CallFails, Timeout
  <2> QED
    BY <2>1, <2>2, <2>3, <2>4, SlotsMove
<1> QED
  BY <1>1, <1>2, TypeCorrect, PTL DEF Spec

LEMMA NothingLostKept ==
  ASSUME Hazards = {}, Ownership, TriedIsRunning, RaisesItsOwn,
         NoFailureSwallowed, NothingLost, [Next]_vars
  PROVE  NothingLost'
<1> SUFFICES ASSUME NEW e \in Events, rows'[e].status # "absent",
                    e \notin queue'
             PROVE  rows'[e].status \in {"dispatched", "failed"}
  BY DEF NothingLost, Dispatched, Failed
<1>0. TypeOK
  BY DEF Ownership
<1>1. ASSUME rows[e].status # "absent", e \notin queue
      PROVE  rows[e].status \in {"dispatched", "failed"}
  BY <1>1 DEF NothingLost, Dispatched, Failed
<1>2. ASSUME NEW f \in Events, Receive(f)
      PROVE  e # f /\ e \notin queue /\ rows'[e] = rows[e]
  BY <1>0, <1>2 DEF Receive, TypeOK
<1>3. ASSUME NEW s \in Slots, pc[s] \in InTask, Writes(s), queue' = queue
      PROVE  e # job[s] /\ e \notin queue /\ rows'[e] = rows[e]
  BY <1>3, OwnJob DEF Writes, InTask
<1>4. ASSUME NEW s \in Slots, TaskReturned(s) \/ TaskRaised(s), e = job[s]
      PROVE  rows[e].status \in {"dispatched", "failed"}
  <2>1. CASE TaskReturned(s) /\ ~Dispatched(e)
    <3>1. PICK d \in deadLetters : d.event = e
      BY <1>4, <2>1 DEF TaskReturned, NoFailureSwallowed, Dead, IsDeadLettered
    <3>2. rows[e] = EventRow("failed", d.retries, d.error)
      BY <3>1 DEF Ownership, DeadLetterIsFinal
    <3> QED
      BY <3>2 DEF EventRow
  <2>2. CASE TaskRaised(s)
    <3>1. rows[e] = EventRow("failed", jobTry[s], error[s])
      BY <1>4, <2>2 DEF TaskRaised, NoFailureSwallowed, RaisesItsOwn
    <3> QED
      BY <3>1 DEF EventRow
  <2> QED
    BY <1>4, <2>1, <2>2 DEF Dispatched
<1>5. ASSUME NEW s \in Slots, TaskReturned(s) \/ TaskRaised(s)
      PROVE  rows' = rows /\ queue' = queue \ {job[s]}
  BY <1>5 DEF TaskReturned, TaskRaised, FinishJob, tables
<1>6. ASSUME NEW s \in Slots, NEW f \in Events, Discard(s, f)
      PROVE  FALSE
  BY <1>6, NoDiscard DEF Discard
<1>7. ASSUME UNCHANGED vars \/ \E f \in Events : InProgressExpires(f)
      PROVE  UNCHANGED <<rows, queue>>
  BY <1>7 DEF InProgressExpires, vars, tables
<1>8. ASSUME NEW s \in Slots,
             \/ \E f \in Events : Start(s, f)
             \/ ClassifyLead(s) \/ ClassifyFails(s)
      PROVE  UNCHANGED <<rows, queue>>
  BY <1>8 DEF Start, ClassifyLead, ClassifyFails, tables, arq
<1>9. ASSUME NEW s \in Slots,
             \/ EnterTask(s) \/ Dispatch(s) \/ StoreDispatched(s)
             \/ StoreFailed(s) \/ Bury(s)
      PROVE  pc[s] \in InTask /\ Writes(s) /\ queue' = queue
  <2>1. pc[s] \in InTask /\ CutOff(s) /\ queue' = queue
    BY <1>9 DEF EnterTask, Dispatch, StoreDispatched, StoreFailed, Bury,
       CutOff, InTask, arq
  <2> QED
    BY <2>1, CutOffWrites
<1>10. ASSUME NEW s \in Slots
       PROVE  ~(LLMRaises(s) \/ CallFails(s) \/ Timeout(s) \/ Shutdown(s)
                \/ Crash(s))
  BY DEF LLMRaises, CallFails, Timeout, Shutdown, Crash
<1>11. ASSUME NEW s \in Slots, TaskReturned(s) \/ TaskRaised(s)
       PROVE  rows'[e].status \in {"dispatched", "failed"}
  BY <1>1, <1>4, <1>5, <1>11
<1>12. ASSUME UNCHANGED <<rows, queue>>
       PROVE  rows'[e].status \in {"dispatched", "failed"}
  BY <1>1, <1>12
<1> QED
  BY <1>1, <1>2, <1>3, <1>6, <1>7, <1>8, <1>9, <1>10, <1>11, <1>12
     DEF Next, Work, Process

\* Without faults arq lets go of an event only when the outcome is in its row,
\* dispatched or failed, for every number of tries.
THEOREM LosesNothing ==
  ASSUME Hazards = {}
  PROVE  Spec => []NothingLost
<1>1. Init => NothingLost
  BY DEF Init, NothingLost, EventRow
<1>2. Spec => []TriedIsRunning
  BY TriedIsRunningInvariant
<1>3. Spec => []RaisesItsOwn
  BY RaisesItsOwnInvariant
<1> QED
  BY <1>1, <1>2, <1>3, NothingLostKept, OwnershipInvariant,
     SwallowsNoFailure, PTL
     DEF Spec

-----------------------------------------------------------------------------
(* The refinement.  A run owns its event, so a step moves one fate at      *)
(* most: the route takes an event in, a run in the task stores or buries   *)
(* its own event while arq holds the job, and arq lets go of a job.        *)

\* A step that touches one event only moves its fate.
LEMMA OneFateMoves ==
  ASSUME NEW e \in Events,
         \A d \in Events \ {e} :
           /\ rows'[d] = rows[d]
           /\ Dead(d)' <=> Dead(d)
           /\ d \in queue' <=> d \in queue
  PROVE  fateOf' = [fateOf EXCEPT ![e] = fateOf'[e]]
<1>1. \A d \in Events \ {e} : fateOf'[d] = fateOf[d]
  BY DEF fateOf, Dispatched, Failed
<1>2. /\ fateOf = [d \in Events |-> fateOf[d]]
      /\ fateOf' = [d \in Events |-> fateOf'[d]]
  BY DEF fateOf
<1> QED
  BY <1>1, <1>2

\* A step that leaves the tables and the queue alone leaves every fate alone.
LEMMA TablesHoldFates ==
  ASSUME UNCHANGED tables, queue' = queue
  PROVE  UNCHANGED fateOf
BY DEF tables, fateOf, Dispatched, Dead, IsDeadLettered, Failed

\* The route takes an event in.
LEMMA ReceiveAccepts ==
  ASSUME Ownership, NEW e \in Events, Receive(e)
  PROVE  Fate!Accept(e)
<1>1. /\ rows[e].status = "absent" /\ rows'[e].status = "received"
      /\ \A d \in Events \ {e} :
           rows'[d] = rows[d] /\ (d \in queue' <=> d \in queue)
      /\ deadLetters' = deadLetters
  BY DEF Receive, Ownership, TypeOK
<1>2. \A d \in deadLetters : d.event # e
  <2> SUFFICES ASSUME NEW d \in deadLetters, d.event = e
               PROVE  FALSE
    OBVIOUS
  <2>1. rows[e] = EventRow("failed", d.retries, d.error)
    BY DEF Ownership, DeadLetterIsFinal
  <2>2. rows[e].status = "failed"
    BY <2>1 DEF EventRow
  <2> QED
    BY <1>1, <2>2
<1>3. ~Dead(e) /\ \A d \in Events : Dead(d)' <=> Dead(d)
  BY <1>1, <1>2 DEF Dead, IsDeadLettered
<1>4. fateOf[e] = "absent" /\ fateOf'[e] = "pending"
  BY <1>1, <1>3 DEF fateOf, Dispatched, Failed
<1>5. fateOf' = [fateOf EXCEPT ![e] = "pending"]
  BY <1>1, <1>3, <1>4, OneFateMoves
<1> QED
  BY <1>4, <1>5 DEF Fate!Accept

\* arq lets go of a job: a failure in its row is now the event's fate.
LEMMA LettingGoSettles ==
  ASSUME Ownership, NEW e \in queue, UNCHANGED tables,
         queue' = queue \ {e}
  PROVE  UNCHANGED fateOf \/ Fate!Settle(e)
<1>1. e \in Events /\ rows[e].status # "absent"
  BY DEF Ownership, TypeOK, QueueHoldsReceived
<1>2. \A d \in Events : rows'[d] = rows[d] /\ (Dead(d)' <=> Dead(d))
  BY DEF tables, Dead, IsDeadLettered
<1>3. fateOf' = [fateOf EXCEPT ![e] = fateOf'[e]]
  BY <1>1, <1>2, OneFateMoves
<1>4. CASE fateOf'[e] = fateOf[e]
  BY <1>3, <1>4 DEF fateOf
<1>5. CASE fateOf'[e] # fateOf[e]
  <2>1. fateOf[e] = "pending" /\ fateOf'[e] = "failed"
    BY <1>1, <1>2, <1>5 DEF fateOf, Dispatched, Failed
  <2> QED
    BY <1>1, <1>3, <2>1 DEF Fate!Settle, Fate!Settled
<1> QED
  BY <1>4, <1>5

\* A run that stands in the task has an event that is not dead, and it leaves
\* it taken in; what it buries is failed in its row.
LEMMA WritesMoveFate ==
  ASSUME Ownership, NEW s \in Slots, pc[s] \in InTask, Writes(s),
         queue' = queue
  PROVE  \/ UNCHANGED fateOf
         \/ Fate!Settle(job[s])
         \/ Dispatched(job[s]) /\ Fate!Reopen(job[s])
<1>1. PICK e \in Events : e = job[s]
  BY OwnJob DEF InTask
<1>2. /\ ~Dead(e) /\ e \in queue
      /\ rows[e].status # "absent" /\ rows'[e].status # "absent"
  <2>1. \A d \in deadLetters : d.event # e
    BY <1>1 DEF Ownership, DeadIsUntouched, InTask
  <2> QED
    BY <1>1, <2>1, OwnJob DEF Dead, IsDeadLettered, Writes, InTask
<1>3. \A d \in Events \ {e} : rows'[d] = rows[d] /\ (Dead(d)' <=> Dead(d))
  <2> DEFINE new == DeadLetter(e, error[s], jobTry[s])
  <2>1. new.event = e
    BY DEF DeadLetter
  <2>2. deadLetters' = deadLetters \/ deadLetters' = deadLetters \cup {new}
    BY <1>1 DEF Writes
  <2> HIDE DEF new
  <2> QED
    BY <1>1, <2>1, <2>2 DEF Writes, Dead, IsDeadLettered
<1>4. fateOf' = [fateOf EXCEPT ![e] = fateOf'[e]]
  BY <1>3, OneFateMoves
<1>5. fateOf[e] = IF Dispatched(e) THEN "dispatched" ELSE "pending"
  BY <1>2 DEF fateOf, Failed
<1>6. CASE deadLetters' = deadLetters
  <2>1. ~Dead(e)'
    BY <1>2, <1>6 DEF Dead, IsDeadLettered
  <2>2. fateOf'[e] = IF Dispatched(e)' THEN "dispatched" ELSE "pending"
    BY <1>2, <2>1 DEF fateOf, Dispatched, Failed
  <2>3. CASE fateOf'[e] = fateOf[e]
    BY <1>4, <2>3 DEF fateOf
  <2>4. CASE fateOf'[e] # fateOf[e] /\ Dispatched(e)
    BY <1>1, <1>4, <1>5, <2>2, <2>4 DEF Fate!Reopen
  <2>5. CASE fateOf'[e] # fateOf[e] /\ ~Dispatched(e)
    BY <1>1, <1>4, <1>5, <2>2, <2>5 DEF Fate!Settle, Fate!Settled
  <2> QED
    BY <2>3, <2>4, <2>5
<1>7. CASE deadLetters' # deadLetters
  <2>1. pc[s] = "bury" /\ rows' = rows
    BY <1>7 DEF Writes
  <2>2. rows[e].status = "failed"
    <3>1. rows[e] = EventRow("failed", jobTry[s], error[s])
      BY <1>1, <2>1 DEF Ownership, BuryingIsLast
    <3> QED
      BY <3>1 DEF EventRow
  <2>3. fateOf[e] = "pending" /\ fateOf'[e] \in {"pending", "dead"}
    BY <1>2, <1>5, <2>1, <2>2 DEF fateOf, Dispatched, Failed
  <2>4. CASE fateOf'[e] = fateOf[e]
    BY <1>4, <2>4 DEF fateOf
  <2>5. CASE fateOf'[e] = "dead"
    BY <1>1, <1>4, <2>3, <2>5 DEF Fate!Settle, Fate!Settled
  <2> QED
    BY <2>3, <2>4, <2>5
<1> QED
  BY <1>6, <1>7

\* Under every set of hazards the worker implements EventFate with reopening:
\* an event is taken in once, is dispatched, dead or failed for good only
\* after it was open, and a dead letter or a failure is the end.
THEOREM ImplementsInterruptedFate == Spec => FateUnderFaults
<1>1. Init => Fate!Init
  BY DEF Init, Fate!Init, fateOf, EventRow
<1>2. Ownership /\ [Next]_vars => [Fate!InterruptedNext]_fateOf
  <2> SUFFICES ASSUME Ownership, [Next]_vars
               PROVE  [Fate!InterruptedNext]_fateOf
    OBVIOUS
  <2> USE DEF Fate!InterruptedNext, Fate!Next
  <2>1. CASE UNCHANGED tables /\ queue' = queue
    BY <2>1, TablesHoldFates
  <2>2. ASSUME NEW e \in Events, Receive(e)
        PROVE  [Fate!InterruptedNext]_fateOf
    BY <2>2, ReceiveAccepts
  <2>3. ASSUME NEW e \in queue, UNCHANGED tables, queue' = queue \ {e}
        PROVE  [Fate!InterruptedNext]_fateOf
    BY <2>3, LettingGoSettles DEF Ownership, TypeOK
  <2>4. ASSUME NEW s \in Slots, pc[s] \in InTask, Writes(s), queue' = queue
        PROVE  [Fate!InterruptedNext]_fateOf
    BY <2>4, WritesMoveFate, OwnJob DEF InTask
  <2> QED
    BY <2>1, <2>2, <2>3, <2>4, StepWrites
<1> QED
  BY <1>1, <1>2, OwnershipInvariant, PTL
     DEF Spec, FateUnderFaults, Fate!InterruptedSpec

-----------------------------------------------------------------------------
(* While no worker stops or dies, every run ends with its job, so that no  *)
(* run starts from a dispatched event.                                     *)

NoRerun ==
  /\ \A e \in queue : (\A s \in Slots : job[s] # e) => ~Dispatched(e)
  /\ \A s \in Slots : pc[s] \in InTask => ~Dispatched(job[s])

\* A run calls its event dispatched only as it leaves the task.
LEMMA TaskIsOpen ==
  ASSUME Ownership, NoRerun, NEW s \in Slots,
         \/ EnterTask(s)
         \/ ClassifyLead(s) \/ ClassifyFails(s) \/ LLMRaises(s)
         \/ Dispatch(s) \/ StoreDispatched(s) \/ StoreFailed(s)
         \/ Bury(s) \/ CallFails(s) \/ Timeout(s)
  PROVE  NoRerun'
<1>0. TypeOK
  BY DEF Ownership
<1>1. pc[s] \in InTask /\ CutOff(s) /\ queue' = queue /\ job' = job
  BY DEF EnterTask, ClassifyLead, ClassifyFails, LLMRaises, Dispatch,
     StoreDispatched, StoreFailed, Bury, CallFails, Timeout, CutOff, InTask,
     Goto, FailWith, Escape, arq
<1>2. Writes(s)
  BY <1>1, CutOffWrites
<1>3. /\ job[s] \in Events
      /\ \A q \in Slots \ {s} : job[q] # job[s]
  BY <1>1, OwnJob DEF InTask
<1>4. \A q \in Slots \ {s} : pc'[q] = pc[q]
  BY <1>0 DEF EnterTask, ClassifyLead, ClassifyFails, LLMRaises, Dispatch,
     StoreDispatched, StoreFailed, Bury, CallFails, Timeout, Goto, FailWith,
     Escape, TypeOK
<1>5. pc'[s] \in InTask => ~Dispatched(job[s])'
  <2>1. rows[job[s]].status # "dispatched"
    BY <1>1 DEF NoRerun, Dispatched
  <2>2. CASE rows' = rows
    BY <1>1, <2>1, <2>2 DEF Dispatched
  <2>3. CASE EnterTask(s) \/ StoreFailed(s)
    <3>1. rows'[job[s]].status \in {"processing", "failed"}
      BY <1>0, <1>3, <2>3 DEF EnterTask, StoreFailed, MarkProcessing,
         MarkFailed, EventRow, TypeOK
    <3> QED
      BY <1>1, <3>1 DEF Dispatched
  <2>4. CASE StoreDispatched(s) \/ CallFails(s) \/ Timeout(s)
    <3>1. pc'[s] \in {"return", "raise"}
      BY <1>0, <2>4 DEF StoreDispatched, CallFails, Timeout, Goto, Escape,
         TypeOK
    <3> QED
      BY <3>1 DEF InTask
  <2>5. ASSUME \/ ClassifyLead(s) \/ ClassifyFails(s) \/ LLMRaises(s)
               \/ Dispatch(s) \/ Bury(s)
        PROVE  rows' = rows
    BY <2>5 DEF ClassifyLead, ClassifyFails, LLMRaises, Dispatch, Bury,
       Deliver, InsertDeadLetter, tables
  <2> QED
    BY <2>2, <2>3, <2>4, <2>5
<1>6. ASSUME NEW q \in Slots \ {s}, pc[q] \in InTask
      PROVE  ~Dispatched(job[q])'
  <2>1. job[q] \in Events \ {job[s]}
    BY <1>3, <1>6, OwnJob DEF InTask
  <2> QED
    BY <1>1, <1>2, <1>6, <2>1 DEF NoRerun, Writes, Dispatched
<1>7. ASSUME NEW e \in queue, \A q \in Slots : job[q] # e
      PROVE  ~Dispatched(e)'
  BY <1>0, <1>2, <1>7 DEF NoRerun, Writes, Dispatched, TypeOK
<1> QED
  BY <1>1, <1>4, <1>5, <1>6, <1>7 DEF NoRerun

LEMMA NoRerunInvariant ==
  ASSUME Hazards \cap {"shutdown", "crash"} = {}
  PROVE  Spec => []NoRerun
<1>1. Init => NoRerun
  BY DEF Init, NoRerun, InTask
<1>2. Ownership /\ NoRerun /\ [Next]_vars => NoRerun'
  <2> SUFFICES ASSUME Ownership, NoRerun, [Next]_vars
               PROVE  NoRerun'
    OBVIOUS
  <2>0. TypeOK
    BY DEF Ownership
  <2>1. CASE UNCHANGED vars
    BY <2>1 DEF vars, NoRerun, Dispatched
  <2>2. ASSUME NEW e \in Events, Receive(e)
        PROVE  NoRerun'
    <3>1. /\ rows'[e].status = "received"
          /\ \A d \in Events \ {e} : rows'[d] = rows[d]
          /\ queue' = queue \cup {e} /\ UNCHANGED slots
      BY <2>0, <2>2 DEF Receive, TypeOK
    <3>2. \A s \in Slots : pc[s] \in InTask => job[s] \in Events \ {e}
      BY <2>2, OwnJob DEF Receive, InTask
    <3> QED
      BY <2>0, <3>1, <3>2 DEF NoRerun, Dispatched, slots, TypeOK
  <2>3. ASSUME NEW e \in Events, InProgressExpires(e)
        PROVE  NoRerun'
    BY <2>3 DEF InProgressExpires, NoRerun, Dispatched, slots, tables
  <2>4. ASSUME NEW s \in Slots, NEW e \in Events, Start(s, e)
        PROVE  NoRerun'
    <3>1. /\ job[s] = None /\ e \in queue
          /\ \A q \in Slots : job[q] # e
          /\ pc' = [pc EXCEPT ![s] = "processing"]
          /\ job' = [job EXCEPT ![s] = e]
          /\ queue' = queue /\ rows' = rows
      BY <2>4, ConstantsAssumption DEF Start, Startable, tables, Ownership,
         RunsOwnJobs
    <3>2. ~Dispatched(e)
      BY <3>1 DEF NoRerun
    <3>3. ASSUME NEW q \in Slots, pc'[q] \in InTask
          PROVE  ~Dispatched(job[q])'
      BY <2>0, <3>1, <3>2, <3>3 DEF NoRerun, Dispatched, TypeOK
    <3>4. ASSUME NEW f \in queue, \A q \in Slots : job'[q] # f
          PROVE  ~Dispatched(f)'
      <4>1. \A q \in Slots : job[q] # f
        BY <2>0, <3>1, <3>4, ConstantsAssumption DEF TypeOK
      <4> QED
        BY <3>1, <4>1 DEF NoRerun, Dispatched
    <3> QED
      BY <3>1, <3>3, <3>4 DEF NoRerun
  <2>5. ASSUME NEW s \in Slots, NEW e \in Events, Discard(s, e)
        PROVE  NoRerun'
    BY <2>5 DEF Discard, NoRerun, Dispatched, slots, tables
  <2>6. ASSUME NEW s \in Slots, TaskReturned(s) \/ TaskRaised(s)
        PROVE  NoRerun'
    <3>1. /\ pc' = [pc EXCEPT ![s] = "free"]
          /\ job' = [job EXCEPT ![s] = None]
          /\ queue' = queue \ {job[s]} /\ rows' = rows
      BY <2>6 DEF TaskReturned, TaskRaised, FinishJob, FreeSlot, tables
    <3>2. ASSUME NEW q \in Slots, pc'[q] \in InTask
          PROVE  ~Dispatched(job[q])'
      BY <2>0, <3>1, <3>2 DEF NoRerun, Dispatched, TypeOK, InTask
    <3>3. ASSUME NEW f \in queue', \A q \in Slots : job'[q] # f
          PROVE  ~Dispatched(f)'
      <4>1. \A q \in Slots : job[q] # f
        BY <2>0, <3>1, <3>3 DEF TypeOK
      <4> QED
        BY <3>1, <3>3, <4>1 DEF NoRerun, Dispatched
    <3> QED
      BY <3>2, <3>3 DEF NoRerun
  <2>7. ASSUME NEW s \in Slots, Shutdown(s) \/ Crash(s)
        PROVE  FALSE
    BY <2>7 DEF Shutdown, Crash
  <2> QED
    BY <2>1, <2>2, <2>3, <2>4, <2>5, <2>6, <2>7, TaskIsOpen
       DEF Next, Work, Process
<1> QED
  BY <1>1, <1>2, OwnershipInvariant, PTL DEF Spec

\* While no worker is stopped or dies, every behaviour is one of EventFate,
\* whichever calls fail or time out: an event is accepted once and settled at
\* most once, and its fate never changes again.
THEOREM ImplementsEventFate ==
  ASSUME Hazards \cap {"shutdown", "crash"} = {}
  PROVE  Spec => Fate!Spec
<1>1. Init => Fate!Init
  BY DEF Init, Fate!Init, fateOf, EventRow
<1>2. Ownership /\ NoRerun /\ [Next]_vars => [Fate!Next]_fateOf
  <2> SUFFICES ASSUME Ownership, NoRerun, [Next]_vars
               PROVE  [Fate!Next]_fateOf
    OBVIOUS
  <2> USE DEF Fate!Next
  <2>1. CASE UNCHANGED tables /\ queue' = queue
    BY <2>1, TablesHoldFates
  <2>2. ASSUME NEW e \in Events, Receive(e)
        PROVE  [Fate!Next]_fateOf
    BY <2>2, ReceiveAccepts
  <2>3. ASSUME NEW e \in queue, UNCHANGED tables, queue' = queue \ {e}
        PROVE  [Fate!Next]_fateOf
    BY <2>3, LettingGoSettles DEF Ownership, TypeOK
  <2>4. ASSUME NEW s \in Slots, pc[s] \in InTask, Writes(s), queue' = queue
        PROVE  [Fate!Next]_fateOf
    BY <2>4, WritesMoveFate, OwnJob DEF InTask, NoRerun
  <2> QED
    BY <2>1, <2>2, <2>3, <2>4, StepWrites
<1>3. Spec => []NoRerun
  BY NoRerunInvariant
<1> QED
  BY <1>1, <1>2, <1>3, OwnershipInvariant, PTL DEF Spec, Fate!Spec

=============================================================================
