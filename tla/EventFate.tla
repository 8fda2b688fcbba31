----------------------------- MODULE EventFate ------------------------------
(***************************************************************************)
(* What the router keeps to about an accepted event: it is settled once,   *)
(* by a dispatch, by a dead letter, or by a failure in its row for which   *)
(* no try will follow.  When runs are interrupted it may be dispatched     *)
(* again, but a dead letter or a failure is still the end.                 *)
(***************************************************************************)
CONSTANT Events
VARIABLE fate

Settled == {"dispatched", "dead", "failed"}

TypeOK == fate \in [Events -> {"absent", "pending"} \cup Settled]

Init == fate = [e \in Events |-> "absent"]

Accept(e) ==
  /\ fate[e] = "absent"
  /\ fate' = [fate EXCEPT ![e] = "pending"]

Settle(e) ==
  /\ fate[e] = "pending"
  /\ \E outcome \in Settled : fate' = [fate EXCEPT ![e] = outcome]

Next == \E e \in Events : Accept(e) \/ Settle(e)

Spec == Init /\ [][Next]_fate

FairSpec == Spec /\ \A e \in Events : WF_fate(Settle(e))

\* A run that is cut off after its event was dispatched leaves the job queued,
\* and the next run takes the event up again.
Reopen(e) ==
  /\ fate[e] = "dispatched"
  /\ fate' = [fate EXCEPT ![e] = "pending"]

InterruptedNext == Next \/ \E e \in Events : Reopen(e)

InterruptedSpec == Init /\ [][InterruptedNext]_fate
=============================================================================
