------------------------------ MODULE Received ------------------------------
(***************************************************************************)
(* The counter webhook_received_total over the intake.  The handler counts *)
(* the responses it builds itself, at the moment it builds them; the       *)
(* exception handler of main.py counts every WebhookError, once it has     *)
(* come out of the handler and its `finally`.                              *)
(*                                                                         *)
(* Abstractions.  A counter is kept as the increments each request made.   *)
(* The label `source` is left out: there is one source.  Requests that     *)
(* FastAPI refuses before the handler runs are counted nowhere.            *)
(***************************************************************************)
EXTENDS Ingest

VARIABLE counted  \* the series in which each request was counted

receivedVars == <<vars, counted>>

Series == {"accepted", "cached", "missing_key", "conflict", "unauthorized",
           "invalid"}

\* Mutant: a conflict has no entry, and falls back to "error".
SeriesWithoutConflict ==
  [status \in Statuses \ {202, 500} |->
     CASE status = 400 -> "missing_key"
       [] status = 401 -> "unauthorized"
       [] status = 409 -> "error"
       [] status = 422 -> "invalid"]

\* _RECEIVED_STATUS_BY_EXC, by the status of the exception; two exceptions
\* share a status and a series.
SeriesOf ==
  [status \in Statuses \ {202, 500} |->
     CASE status = 400 -> "missing_key"
       [] status = 401 -> "unauthorized"
       [] status = 409 -> "conflict"
       [] status = 422 -> "invalid"]

Count(r, series) ==
  counted' = [counted EXCEPT ![r] = @ \cup {series}]

ReceivedInit ==
  /\ Init
  /\ counted = [r \in Requests |-> {}]

-----------------------------------------------------------------------------
\* Mutant: the lookup under the lock does not count its hits.
ReplayCountedOnce(r) ==
  \/ LookupHit(r) /\ Count(r, "cached")
  \/ RecheckHit(r) /\ UNCHANGED counted

\* Mutant: the increment of the success path serves the replays as well.
ReplayAsAccepted(r) ==
  /\ LookupHit(r) \/ RecheckHit(r)
  /\ Count(r, "accepted")

Replay(r) ==
  /\ LookupHit(r) \/ RecheckHit(r)
  /\ Count(r, "cached")

Accept(r) ==
  /\ CacheAccepted(r)
  /\ Count(r, "accepted")

IsWebhookError(status) == status \in DOMAIN SeriesOf

\* A WebhookError leaves the handler: before the try block, or when `finally`
\* has released the lock.
Refuse(r) ==
  /\ RejectMissingKey(r) \/ LockHeld(r) \/ Unlock(r)
  /\ IsWebhookError(answer'[r].status)
  /\ Count(r, SeriesOf[answer'[r].status])

\* A request goes on, or ends with what is not a WebhookError; the response
\* of a success was counted when it was built.
Proceed(r) ==
  /\ \/ \E k \in Keys : Receive(r, k)
     \/ LookupMiss(r) \/ AcquireLock(r) \/ RecheckMiss(r)
     \/ VerifyPasses(r) \/ VerifyFails(r)
     \/ CreateReceived(r) \/ DuplicateKey(r) \/ EnqueueJob(r)
     \/ Unlock(r) /\ ~IsWebhookError(answer[r].status)
     \/ CallFails(r) \/ Crash(r)
  /\ UNCHANGED counted

Expire ==
  /\ \E k \in Keys : LockExpires(k) \/ CacheExpires(k)
  /\ UNCHANGED counted

ReceivedNext ==
  \/ \E r \in Requests :
       Replay(r) \/ Accept(r) \/ Refuse(r) \/ Proceed(r)
  \/ Expire

ReceivedSpec == ReceivedInit /\ [][ReceivedNext]_receivedVars

ReceivedFairSpec == ReceivedSpec /\ Fairness
-----------------------------------------------------------------------------
(* Properties.                                                             *)

ReceivedTypeOK == TypeOK /\ counted \in [Requests -> SUBSET Series]

\* The series a request must have been counted in, going by its response.  A
\* 500 may hide a success, never a refusal.
CountedLike(r) ==
  CASE answer[r].status = 202 ->
         counted[r] = {IF answer[r].event = r THEN "accepted" ELSE "cached"}
    [] answer[r].status = 500 -> counted[r] \subseteq {"accepted", "cached"}
    [] OTHER -> counted[r] = {SeriesOf[answer[r].status]}

\* Every request that got anything but a 500 was counted once, in the series
\* of the response it got, although success and refusal are counted at
\* different ends of `finally`.
CountedAsAnswered ==
  \A r \in Requests : pc[r] = "done" => CountedLike(r)

\* status="accepted" counts events and not responses: what it counts has its
\* own job, and no key is in it twice, across retries, races and expiries.
AcceptedSeriesCountsJobs ==
  \A r \in Requests : "accepted" \in counted[r] =>
    /\ Job(r, key[r]) \in jobs
    /\ \A o \in Requests :
         "accepted" \in counted[o] /\ key[o] = key[r] => o = r

=============================================================================
