------------------------------ MODULE Reenqueue ------------------------------
(***************************************************************************)
(* The intake with a history variable: which requests saw their enqueue    *)
(* fail.  It restricts nothing, and is there to state what the handler     *)
(* says of such a request: that a retry of it can enqueue.                 *)
(***************************************************************************)
EXTENDS MCIngest

VARIABLE enqueueFailed  \* requests whose call of enqueue_job raised

FailsToEnqueue(r) == pc[r] = "enqueue" /\ pc'[r] = "unlock"

ReenqueueInit == Init /\ enqueueFailed = {}

ReenqueueNext ==
  /\ Next
  /\ enqueueFailed' =
       enqueueFailed \cup {r \in Requests : FailsToEnqueue(r)}

ReenqueueSpec == ReenqueueInit /\ [][ReenqueueNext]_<<vars, enqueueFailed>>
-----------------------------------------------------------------------------
(* Properties.                                                             *)

\* webhooks.py: if the enqueue raises, nothing is cached, "so a retry can
\* re-enqueue": a retry of a request whose enqueue failed is not told of a
\* conflict while its key has no job and no other request works on one.
RetryCanReenqueue ==
  \A r \in Requests :
    /\ pc[r] = "unlock" /\ answer[r].status = 409
    /\ \E failed \in enqueueFailed : key[failed] = key[r]
    => (\E j \in jobs : j.key = key[r]) \/ InFlight(key[r], r)
=============================================================================
