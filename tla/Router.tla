------------------------------- MODULE Router -------------------------------
(***************************************************************************)
(* The router from end to end: the intake of Ingest and the worker of      *)
(* Worker, which share the table webhook_events and the arq queue.  The    *)
(* event id a request mints is named by the request, in both.              *)
(*                                                                         *)
(* Abstractions.  `committed` has the id and the key of a row, `rows` the  *)
(* columns the worker writes; between the commit and the push nobody looks *)
(* at the latter, so they appear with the push.                            *)
(***************************************************************************)
EXTENDS Worker

CONSTANTS
  Keys,          \* Idempotency-Key values
  IntakeHazards  \* which faults and expiries meet the intake

VARIABLES
  requestPc, key, answer, cache, lock,  \* of Ingest
  committed,                            \* its table webhook_events
  jobs                                  \* every job it ever pushed

Intake == INSTANCE Ingest WITH
  Requests <- Events, Hazards <- IntakeHazards,
  pc <- requestPc, rows <- committed

ASSUME IntakeAssumption == Intake!ConstantsAssumption

intakeVars == <<requestPc, key, answer, cache, lock, committed, jobs>>
routerVars == <<vars, intakeVars>>

RouterInit == Init /\ Intake!Init

\* A pushed job is in the worker's queue and its row is at "received",
\* whatever the worker has made of the event by then.
HandOver ==
  \E j \in jobs' \ jobs :
    /\ rows' = [rows EXCEPT ![j.event].status = "received"]
    /\ queue' = queue \cup {j.event}
    /\ UNCHANGED <<deadLetters, inProgress, tries, slots, taken>>

TakeIn ==
  /\ Intake!Next
  /\ IF jobs' = jobs THEN UNCHANGED vars ELSE HandOver

WorkOff == Work /\ UNCHANGED intakeVars

RouterNext == TakeIn \/ WorkOff

RouterSpec == RouterInit /\ [][RouterNext]_routerVars

RouterFairSpec == RouterSpec /\ Fairness /\ Intake!Fairness
-----------------------------------------------------------------------------
(* Properties.                                                             *)

\* However often and through however many requests a client sends one
\* Idempotency-Key, its lead goes into one dispatch, and targets are only ever
\* sent that one event.
OneDispatchPerKey ==
  \A e1, e2 \in Events, t1, t2 \in Targets :
    /\ key[e1] = key[e2]
    /\ taken[e1][t1] > 0 /\ taken[e2][t2] > 0
    => e1 = e2 /\ taken[e1][t1] = 1

\* The in-progress key locks an event, the unique constraint makes it the only
\* event of its Idempotency-Key: no two slots ever work for one key together.
OneRunPerKey ==
  \A s1, s2 \in Slots :
    /\ pc[s1] # "free" /\ pc[s2] # "free"
    /\ key[job[s1]] = key[job[s2]]
    => s1 = s2

\* Whatever fails in the intake and in the worker, the targets are only ever
\* sent one event of an Idempotency-Key, in at most MAX_TRIES dispatches.
DispatchesPerKeyBounded ==
  \A e1, e2 \in Events, t1, t2 \in Targets :
    /\ key[e1] = key[e2]
    /\ taken[e1][t1] > 0 /\ taken[e2][t2] > 0
    => e1 = e2 /\ taken[e1][t1] <= MaxTries

\* An operator finds one dead letter per Idempotency-Key, and none of a key
\* whose lead is called dispatched.
OneDeadLetterPerKey ==
  \A d \in deadLetters :
    /\ \A other \in deadLetters : key[other.event] = key[d.event] => other = d
    /\ \A e \in Events : key[e] = key[d.event] => ~Dispatched(e)

\* No run ever looks for a row that the intake has not committed yet, and the
\* row it finds was stored for the Idempotency-Key of the request.
WorkHasItsRow ==
  \A s \in Slots :
    pc[s] # "free" => Intake!Row(job[s], key[job[s]]) \in committed

\* A client that was answered 202 can go away: the event in its response is
\* dispatched or its failure is on record, also if the response is a replay.
AcceptedIsSettled ==
  \A r, e \in Events :
    answer[r].status = 202 /\ answer[r].event = e
    ~> Dispatched(e) \/ Dead(e) \/ Failed(e)

\* The fate of an Idempotency-Key is that of the one event queued for it.
keyFateOf ==
  [k \in Keys |->
     IF \A j \in jobs : j.key # k THEN "absent"
     ELSE fateOf[(CHOOSE j \in jobs : j.key = k).event]]

KeyFate == INSTANCE EventFate WITH Events <- Keys, fate <- keyFateOf

\* What EventFate promises for events holds for keys: a key is taken in once
\* and settled once, however many requests race for it, fail or die.
KeyIsSettledOnce == KeyFate!FairSpec

=============================================================================
