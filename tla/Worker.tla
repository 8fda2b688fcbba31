------------------------------- MODULE Worker -------------------------------
(***************************************************************************)
(* The arq worker: process_webhook with the event repository it writes     *)
(* through, and as much of arq as the code relies on.  A job is one event  *)
(* (_job_id is the event id).  A slot is one of the max_jobs concurrent    *)
(* jobs of some worker process.  Every await of the task is one action.    *)
(*                                                                         *)
(* External: arq keeps a job queued until it is finished; a job that is    *)
(* started has an in-progress key that other slots respect and that        *)
(* expires only after job_timeout has ended the run; it counts tries per   *)
(* job, forgets the count when the job is finished, and finishes a job     *)
(* that is started once too often without running it.  It finishes a job   *)
(* whose task raised: arq 0.28 runs a job again only for Retry, RetryJob   *)
(* and CancelledError, and of these the code meets the last.               *)
(*                                                                         *)
(* Abstractions.  The enrichment is left out; an error is the stage that   *)
(* failed.  dispatch is one step here: which targets took the event in it, *)
(* once or, after answers that were lost, more often, and which of those   *)
(* answered 2xx in the end.  Its attempts are in Dispatch.                 *)
(***************************************************************************)
EXTENDS Naturals

CONSTANTS
  Events,    \* webhook events, and their jobs
  Slots,     \* concurrent jobs over all worker processes
  Targets,   \* settings.dispatch_targets
  MaxTries,  \* MAX_TRIES, and WorkerSettings.max_tries
  Hazards,   \* which faults the environment may produce
  None       \* no job, no error

HazardKinds == {"call_fails", "llm_raises", "timeout", "shutdown", "crash"}

ASSUME ConstantsAssumption ==
  /\ MaxTries \in Nat \ {0}
  /\ Hazards \subseteq HazardKinds
  /\ None \notin Events \cup {"classification", "dispatch"}

VARIABLES
  rows,         \* webhook_events: status, dispatch_attempts and last_error
  deadLetters,  \* dead_letter_events
  queue,        \* jobs arq holds
  inProgress,   \* jobs with an in-progress key
  tries,        \* arq's retry counter of each job
  pc,           \* the await each slot stands at
  job,          \* the job each slot runs
  jobTry,       \* ctx["job_try"]
  error,        \* the error text _handle_failure was called with
  taken         \* in how many dispatches each target took each event

vars == <<rows, deadLetters, queue, inProgress, tries, pc, job, jobTry, error,
          taken>>
tables == <<rows, deadLetters>>
arq == <<queue, inProgress, tries>>
slots == <<pc, job, jobTry, error>>

InTask ==
  {"processing", "classify", "dispatch", "dispatched", "failed", "bury"}
Labels == {"free", "return", "raise"} \cup InTask
Errors == {"classification", "dispatch"}
Statuses == {"absent", "received", "processing", "dispatched", "failed"}

EventRow(status, attempts, err) ==
  [status |-> status, attempts |-> attempts, error |-> err]
DeadLetter(e, err, retries) ==
  [event |-> e, error |-> err, retries |-> retries]

TypeOK ==
  /\ rows \in [Events -> [status : Statuses, attempts : 0..MaxTries,
                          error : Errors \cup {None}]]
  /\ deadLetters \subseteq
       [event : Events, error : Errors, retries : 0..MaxTries]
  /\ queue \subseteq Events /\ inProgress \subseteq Events
  /\ tries \in [Events -> 0..MaxTries]
  /\ pc \in [Slots -> Labels]
  /\ job \in [Slots -> Events \cup {None}]
  /\ jobTry \in [Slots -> 0..MaxTries]
  /\ error \in [Slots -> Errors \cup {None}]
  /\ taken \in [Events -> [Targets -> Nat]]
  /\ \A s \in Slots : pc[s] # "free" => job[s] \in Events
  /\ \A s \in Slots : pc[s] \in {"failed", "bury"} => error[s] \in Errors

Init ==
  /\ rows = [e \in Events |-> EventRow("absent", 0, None)]
  /\ deadLetters = {}
  /\ queue = {} /\ inProgress = {}
  /\ tries = [e \in Events |-> 0]
  /\ pc = [s \in Slots |-> "free"]
  /\ job = [s \in Slots |-> None]
  /\ jobTry = [s \in Slots |-> 0]
  /\ error = [s \in Slots |-> None]
  /\ taken = [e \in Events |-> [t \in Targets |-> 0]]

-----------------------------------------------------------------------------
(* The effect of each call of the task on the server it goes to.  A call   *)
(* that raises or is cut off may have had its effect or not.               *)

MarkProcessing(e) ==
  /\ rows' = [rows EXCEPT ![e].status = "processing"]
  /\ UNCHANGED <<deadLetters, taken>>

MarkFailed(e, err, attempts) ==
  /\ rows' = [rows EXCEPT ![e] = EventRow("failed", attempts, err)]
  /\ UNCHANGED <<deadLetters, taken>>

MarkDispatched(e, attempts) ==
  /\ rows' = [rows EXCEPT ![e] = EventRow("dispatched", attempts, None)]
  /\ UNCHANGED <<deadLetters, taken>>

IsDeadLettered(e) == \E d \in deadLetters : d.event = e

\* The guard is the unique constraint on original_event_id; BuriesOnce says
\* that the task never runs into it.
InsertDeadLetter(e, err, retries) ==
  /\ ~IsDeadLettered(e)
  /\ deadLetters' = deadLetters \cup {DeadLetter(e, err, retries)}
  /\ UNCHANGED <<rows, taken>>

Deliver(e, took) ==
  /\ taken' = [taken EXCEPT ![e] =
       [t \in Targets |-> @[t] + IF t \in took THEN 1 ELSE 0]]
  /\ UNCHANGED tables

Goto(s, label) ==
  /\ pc' = [pc EXCEPT ![s] = label]
  /\ UNCHANGED <<job, jobTry, error>>

FailWith(s, err) ==
  /\ pc' = [pc EXCEPT ![s] = "failed"]
  /\ error' = [error EXCEPT ![s] = err]
  /\ UNCHANGED <<job, jobTry>>

\* An exception other than the task's own ends the run.
Escape(s) ==
  /\ pc' = [pc EXCEPT ![s] = "raise"]
  /\ error' = [error EXCEPT ![s] = None]
  /\ UNCHANGED <<job, jobTry>>

FreeSlot(s) ==
  /\ pc' = [pc EXCEPT ![s] = "free"]
  /\ job' = [job EXCEPT ![s] = None]
  /\ jobTry' = [jobTry EXCEPT ![s] = 0]
  /\ error' = [error EXCEPT ![s] = None]

-----------------------------------------------------------------------------
(* The route and arq around the task.                                      *)

\* receive_webhook commits the row, then pushes the job.
Receive(e) ==
  /\ rows[e].status = "absent"
  /\ rows' = [rows EXCEPT ![e].status = "received"]
  /\ queue' = queue \cup {e}
  /\ UNCHANGED <<deadLetters, inProgress, tries, slots, taken>>

Startable(s, e) ==
  /\ pc[s] = "free"
  /\ e \in queue \ inProgress

\* Mutant: WorkerSettings.max_tries is one more than MAX_TRIES.
StartOnceMore(s, e) ==
  /\ Startable(s, e)
  /\ tries[e] <= MaxTries
  /\ tries' = [tries EXCEPT ![e] = @ + 1]
  /\ inProgress' = inProgress \cup {e}
  /\ pc' = [pc EXCEPT ![s] = "processing"]
  /\ job' = [job EXCEPT ![s] = e]
  /\ jobTry' = [jobTry EXCEPT ![s] = tries[e] + 1]
  /\ UNCHANGED <<queue, error, tables, taken>>

\* Mutant: ctx["job_try"] is read but never counted up.
StartUncounted(s, e) ==
  /\ Startable(s, e)
  /\ tries[e] < MaxTries
  /\ inProgress' = inProgress \cup {e}
  /\ pc' = [pc EXCEPT ![s] = "processing"]
  /\ job' = [job EXCEPT ![s] = e]
  /\ jobTry' = [jobTry EXCEPT ![s] = tries[e] + 1]
  /\ UNCHANGED <<queue, tries, error, tables, taken>>

Start(s, e) ==
  /\ Startable(s, e)
  /\ tries[e] < MaxTries
  /\ tries' = [tries EXCEPT ![e] = @ + 1]
  /\ inProgress' = inProgress \cup {e}
  /\ pc' = [pc EXCEPT ![s] = "processing"]
  /\ job' = [job EXCEPT ![s] = e]
  /\ jobTry' = [jobTry EXCEPT ![s] = tries[e] + 1]
  /\ UNCHANGED <<queue, error, tables, taken>>

\* job_try > max_tries: arq finishes the job and process_webhook never runs.
Discard(s, e) ==
  /\ Startable(s, e)
  /\ tries[e] >= MaxTries
  /\ queue' = queue \ {e}
  /\ tries' = [tries EXCEPT ![e] = 0]
  /\ UNCHANGED <<inProgress, slots, tables, taken>>

FinishJob(s) ==
  /\ queue' = queue \ {job[s]}
  /\ inProgress' = inProgress \ {job[s]}
  /\ tries' = [tries EXCEPT ![job[s]] = 0]
  /\ FreeSlot(s)
  /\ UNCHANGED <<tables, taken>>

\* Mutant: the retry counter goes with the run, not with the job.
KeepJobForgetTries(s) ==
  /\ inProgress' = inProgress \ {job[s]}
  /\ tries' = [tries EXCEPT ![job[s]] = 0]
  /\ FreeSlot(s)
  /\ UNCHANGED queue

KeepJob(s) ==
  /\ inProgress' = inProgress \ {job[s]}
  /\ FreeSlot(s)
  /\ UNCHANGED <<queue, tries>>

TaskReturned(s) ==
  /\ pc[s] = "return"
  /\ FinishJob(s)

TaskRaised(s) ==
  /\ pc[s] = "raise"
  /\ FinishJob(s)

-----------------------------------------------------------------------------
(* process_webhook.                                                        *)

EnterTask(s) ==
  /\ pc[s] = "processing"
  /\ MarkProcessing(job[s])
  /\ Goto(s, "classify")
  /\ UNCHANGED arq

ClassifyLead(s) ==
  /\ pc[s] = "classify"
  /\ Goto(s, "dispatch")
  /\ UNCHANGED <<arq, tables, taken>>

\* LLMClassificationError
ClassifyFails(s) ==
  /\ pc[s] = "classify"
  /\ FailWith(s, "classification")
  /\ UNCHANGED <<arq, tables, taken>>

\* Mutant: no test for succeeded == 0.
DispatchUnchecked(s) ==
  /\ pc[s] = "dispatch"
  /\ \E took \in SUBSET Targets : Deliver(job[s], took)
  /\ Goto(s, "dispatched")
  /\ UNCHANGED arq

\* Any target that succeeds, or none configured, makes the dispatch good; a
\* target that took the event has not succeeded if its answer was lost.
Dispatch(s) ==
  /\ pc[s] = "dispatch"
  /\ \E took \in SUBSET Targets : \E succeeded \in SUBSET took :
       /\ Deliver(job[s], took)
       /\ IF Targets # {} /\ succeeded = {}
            THEN FailWith(s, "dispatch")
            ELSE Goto(s, "dispatched")
  /\ UNCHANGED arq

StoreDispatched(s) ==
  /\ pc[s] = "dispatched"
  /\ MarkDispatched(job[s], jobTry[s])
  /\ Goto(s, "return")
  /\ UNCHANGED arq

\* Mutant: job_try > MAX_TRIES.
StoreFailedOffByOne(s) ==
  /\ pc[s] = "failed"
  /\ MarkFailed(job[s], error[s], jobTry[s])
  /\ Goto(s, IF jobTry[s] > MaxTries THEN "bury" ELSE "raise")
  /\ UNCHANGED arq

\* Mutant: mark_failed does not commit.
StoreFailedUncommitted(s) ==
  /\ pc[s] = "failed"
  /\ UNCHANGED <<tables, taken>>
  /\ Goto(s, IF jobTry[s] >= MaxTries THEN "bury" ELSE "raise")
  /\ UNCHANGED arq

StoreFailed(s) ==
  /\ pc[s] = "failed"
  /\ MarkFailed(job[s], error[s], jobTry[s])
  /\ Goto(s, IF jobTry[s] >= MaxTries THEN "bury" ELSE "raise")
  /\ UNCHANGED arq

Bury(s) ==
  /\ pc[s] = "bury"
  /\ InsertDeadLetter(job[s], error[s], jobTry[s])
  /\ Goto(s, "return")
  /\ UNCHANGED arq

-----------------------------------------------------------------------------
(* The environment.                                                        *)

\* What the await at which the task is cut off may still have done.
CutOff(s) ==
  \/ UNCHANGED <<tables, taken>>
  \/ pc[s] = "processing" /\ MarkProcessing(job[s])
  \/ pc[s] = "dispatch"
     /\ \E took \in SUBSET Targets : Deliver(job[s], took)
  \/ pc[s] = "dispatched" /\ MarkDispatched(job[s], jobTry[s])
  \/ pc[s] = "failed" /\ MarkFailed(job[s], error[s], jobTry[s])
  \/ pc[s] = "bury" /\ InsertDeadLetter(job[s], error[s], jobTry[s])

\* A call to the database raises; dispatch never does.
CallFails(s) ==
  /\ "call_fails" \in Hazards
  /\ pc[s] \in InTask \ {"classify", "dispatch"}
  /\ CutOff(s)
  /\ Escape(s)
  /\ UNCHANGED arq

\* classify_lead raises anything but LLMClassificationError: its transient
\* errors once they are used up, and every error it does not retry.
LLMRaises(s) ==
  /\ "llm_raises" \in Hazards
  /\ pc[s] = "classify"
  /\ Escape(s)
  /\ UNCHANGED <<arq, tables, taken>>

\* job_timeout: arq cancels the task and sees a TimeoutError.
Timeout(s) ==
  /\ "timeout" \in Hazards
  /\ pc[s] \in InTask
  /\ CutOff(s)
  /\ Escape(s)
  /\ UNCHANGED arq

\* The worker is told to stop: the task is cancelled, the job stays queued.
Shutdown(s) ==
  /\ "shutdown" \in Hazards
  /\ pc[s] \in InTask
  /\ CutOff(s)
  /\ KeepJob(s)

\* The process dies; the in-progress key outlives it.
Crash(s) ==
  /\ "crash" \in Hazards
  /\ pc[s] # "free"
  /\ CutOff(s)
  /\ FreeSlot(s)
  /\ UNCHANGED arq

\* Mutant: the in-progress key may expire under a running job.
InProgressExpiresEarly(e) ==
  /\ e \in inProgress
  /\ inProgress' = inProgress \ {e}
  /\ UNCHANGED <<queue, tries, slots, tables, taken>>

InProgressExpires(e) ==
  /\ e \in inProgress
  /\ \A s \in Slots : job[s] # e
  /\ inProgress' = inProgress \ {e}
  /\ UNCHANGED <<queue, tries, slots, tables, taken>>

-----------------------------------------------------------------------------
Process(s) ==
  \/ EnterTask(s)
  \/ ClassifyLead(s) \/ ClassifyFails(s) \/ LLMRaises(s)
  \/ Dispatch(s)
  \/ StoreDispatched(s)
  \/ StoreFailed(s)
  \/ Bury(s)
  \/ CallFails(s)
  \/ TaskReturned(s) \/ TaskRaised(s)

\* All that happens behind the queue.
Work ==
  \/ \E e \in Events : InProgressExpires(e)
  \/ \E s \in Slots, e \in Events : Start(s, e) \/ Discard(s, e)
  \/ \E s \in Slots : Process(s) \/ Timeout(s) \/ Shutdown(s) \/ Crash(s)

Next == (\E e \in Events : Receive(e)) \/ Work

Spec == Init /\ [][Next]_vars

\* A running task is scheduled and its calls are answered, arq polls the
\* queue, and Redis expires keys.  Nothing is owed by clients or by faults.
Fairness ==
  /\ \A s \in Slots : WF_vars(Process(s))
  /\ \A e \in Events :
       /\ WF_vars(\E s \in Slots : Start(s, e) \/ Discard(s, e))
       /\ WF_vars(InProgressExpires(e))

FairSpec == Spec /\ Fairness
-----------------------------------------------------------------------------
(* Properties.                                                             *)

Dead(e) == IsDeadLettered(e)
Dispatched(e) == rows[e].status = "dispatched"

\* Recorded as failed, and arq has let go of its job.
Failed(e) == rows[e].status = "failed" /\ e \notin queue

\* No event is processed by two slots at once, also across crashes.
OneRunPerEvent ==
  \A s1, s2 \in Slots : job[s1] = job[s2] /\ job[s1] # None => s1 = s2

\* A dead letter and its event agree, for good: the event is failed, with the
\* last try and the error of the dead letter, whatever happened between the
\* commit of the one and the commit of the other, or afterwards.
DeadLetterIsFinal ==
  \A d \in deadLetters :
    /\ d.retries = MaxTries
    /\ rows[d.event] = EventRow("failed", d.retries, d.error)

\* The task never inserts a second dead letter for an event, so the unique
\* constraint cannot turn a recorded failure into an exception.
BuriesOnce ==
  \A s \in Slots : pc[s] = "bury" => ~IsDeadLettered(job[s])

\* An event is only called dispatched when a target took it, or when there is
\* no target.
DispatchedMeansDelivered ==
  \A e \in Events :
    Dispatched(e) /\ Targets # {} => \E t \in Targets : taken[e][t] > 0

\* dispatch_attempts never goes back while retries, crashes and late writes
\* rewrite the row.
AttemptsNeverDecrease ==
  [][\A e \in Events : rows'[e].attempts >= rows[e].attempts]_vars

\* A task returns only when it has recorded its outcome, and it raises an
\* error of its own only while that error and the try stand in the row and
\* another try is left: no failure is swallowed, and none of the last try
\* escapes without a dead letter.
NoFailureSwallowed ==
  \A s \in Slots :
    /\ pc[s] = "return" => Dispatched(job[s]) \/ Dead(job[s])
    /\ pc[s] = "raise" /\ error[s] # None =>
         /\ jobTry[s] < MaxTries
         /\ rows[job[s]] = EventRow("failed", jobTry[s], error[s])

\* However often the runs of an event are cut off and repeated, a target takes
\* it in no more than MAX_TRIES dispatches.  Within one dispatch it may take it
\* several times: an attempt whose answer is lost is repeated.
DispatchesBounded ==
  \A e \in Events, t \in Targets : taken[e][t] <= MaxTries

\* No worker stopped or dying: a failure is never tried again, so no failure
\* is ever dead-lettered, and no event goes into a second dispatch.
FirstTryIsLast ==
  /\ deadLetters = {}
  /\ \A e \in Events : rows[e].attempts <= 1
  /\ \A e \in Events, t \in Targets : taken[e][t] <= 1

\* Without faults, arq lets go of an event only when what came of it is in its
\* row: no accepted event is left at "received" or "processing" by a job that
\* is gone.
NothingLost ==
  \A e \in Events :
    rows[e].status # "absent" /\ e \notin queue
    => Dispatched(e) \/ Failed(e)

\* No job stays in the queue for ever, whatever fails.
QueueDrains ==
  \A e \in Events : e \in queue ~> e \notin queue

\* The fate of an event, as its row, its dead letter and its job tell it.
fateOf ==
  [e \in Events |->
     IF rows[e].status = "absent" THEN "absent"
     ELSE IF Dispatched(e) THEN "dispatched"
     ELSE IF Dead(e) THEN "dead"
     ELSE IF Failed(e) THEN "failed"
     ELSE "pending"]

Fate == INSTANCE EventFate WITH fate <- fateOf

\* Without faults the worker implements EventFate: every event is settled,
\* once.
FateIsSettled == Fate!FairSpec

\* Whatever cuts runs off, an event is accepted once, is called dispatched,
\* dead or failed only after it was pending, and no dead or failed event is
\* taken up again.
FateUnderFaults == Fate!InterruptedSpec

\* tasks.py: a failed dispatch is "a retryable failure so arq can have another
\* go": the queue lets go of a failed event only after its last try.
FailureIsRetried ==
  \A e \in Events :
    rows[e].status = "failed" /\ e \notin queue => rows[e].attempts = MaxTries

\* tasks.py: "Any classification or dispatch failure -> failed": a task that
\* ends with an exception leaves the event failed.
FailureIsRecorded ==
  \A s \in Slots : pc[s] = "raise" => rows[job[s]].status = "failed"

=============================================================================
