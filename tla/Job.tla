-------------------------------- MODULE Job ---------------------------------
(***************************************************************************)
(* The time one run of process_webhook takes: classify_lead, and dispatch  *)
(* once it has an enrichment, on one clock.  The database calls around     *)
(* them take no time here.  arq ends the run at job_timeout; this module   *)
(* lets it go on, to say how long it would take.                           *)
(***************************************************************************)
EXTENDS Classify

CONSTANTS
  NumTargets, Budget, DispatchMaxWait, AttemptMax,  \* of dispatch
  JobTimeout                                        \* job_timeout, in ticks

ASSUME FanoutAssumption ==
  /\ NumTargets \in Nat
  /\ Budget \in Nat \ {0}
  /\ DispatchMaxWait \in Nat
  /\ AttemptMax \in Nat \ {0}

VARIABLES
  \* of dispatch
  phase, start, targetAt, targetTimer, targetAttempts, lastStatus, result

Fanout == INSTANCE Dispatch WITH
  MaxWait <- DispatchMaxWait,
  at <- targetAt, timer <- targetTimer, attempts <- targetAttempts

llmVars == <<provider, at, timer, attempts, outcome>>
fanoutVars ==
  <<phase, start, targetAt, targetTimer, targetAttempts, lastStatus, result>>
jobVars == <<vars, fanoutVars>>

JobInit == Init /\ Fanout!Init

ClassifyLead == Next /\ UNCHANGED fanoutVars

\* A classify_lead that raises ends the run.
DispatchEnriched ==
  /\ outcome = "enriched"
  /\ Fanout!Next
  /\ UNCHANGED llmVars

JobNext == ClassifyLead \/ DispatchEnriched

JobSpec == JobInit /\ [][JobNext]_jobVars

-----------------------------------------------------------------------------
(* Properties.                                                             *)

\* What a run can take: the two stages' own bounds, and nothing else.
JobBounded ==
  now < MaxAttempts * CallMax + (MaxAttempts - 1) * MaxWait
        + Budget + DispatchMaxWait + AttemptMax

\* tasks.py: job_timeout is "> dispatch budget (120s) + LLM (~10s) + slack": a
\* run that keeps to its own budgets is not cut off by job_timeout.
JobFitsTimeout == now <= JobTimeout
=============================================================================
