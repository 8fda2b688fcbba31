-------------------------- MODULE IdempotentIntake --------------------------
(***************************************************************************)
(* What POST /webhooks promises the senders of an Idempotency-Key: of all  *)
(* the requests that carry it one is queued, for good, and a request is    *)
(* answered once, with the event of that one or with a refusal that names  *)
(* no event.  A request may stay without an answer: its process can die.   *)
(***************************************************************************)
CONSTANTS
  Requests, Keys, None,
  Accepted,  \* the status of an acknowledgement
  Refusals   \* all other statuses

VARIABLES
  key,    \* the key each request was sent with, once it has been sent
  event,  \* the event, named by its request, that is queued for each key
  reply   \* what each request was answered

vars == <<key, event, reply>>

Reply(status, e) == [status |-> status, event |-> e]
NoReply == Reply(0, None)

Init ==
  /\ key = [r \in Requests |-> None]
  /\ event = [k \in Keys |-> None]
  /\ reply = [r \in Requests |-> NoReply]

Send(r, k) ==
  /\ key[r] = None /\ reply[r] = NoReply
  /\ key' = [key EXCEPT ![r] = k]
  /\ UNCHANGED <<event, reply>>

Queue(r) ==
  /\ key[r] \in Keys /\ reply[r] = NoReply
  /\ event[key[r]] = None
  /\ event' = [event EXCEPT ![key[r]] = r]
  /\ UNCHANGED <<key, reply>>

Accept(r) ==
  /\ key[r] \in Keys /\ reply[r] = NoReply
  /\ event[key[r]] # None
  /\ reply' = [reply EXCEPT ![r] = Reply(Accepted, event[key[r]])]
  /\ UNCHANGED <<key, event>>

Refuse(r) ==
  /\ reply[r] = NoReply
  /\ \E status \in Refusals :
       reply' = [reply EXCEPT ![r] = Reply(status, None)]
  /\ UNCHANGED <<key, event>>

Next ==
  \E r \in Requests :
    \/ \E k \in Keys : Send(r, k)
    \/ Queue(r) \/ Accept(r) \/ Refuse(r)

Spec == Init /\ [][Next]_vars
=============================================================================
