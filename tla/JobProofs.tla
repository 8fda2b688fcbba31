----------------------------- MODULE JobProofs ------------------------------
(***************************************************************************)
(* Theorems about Job, from those about its two stages: the invariant of   *)
(* classify_lead holds until dispatch is called, which fixes its start     *)
(* within what classify_lead may take; from then on that of dispatch does. *)
(***************************************************************************)
EXTENDS Job, ClassifyProofs, TLAPS

Fan == INSTANCE DispatchProofs WITH
  MaxWait <- DispatchMaxWait,
  at <- targetAt, timer <- targetTimer, attempts <- targetAttempts

JobPaced ==
  /\ Fan!Pacing
  /\ phase = "idle" => Paced
  /\ phase # "idle" =>
       /\ TypeOK
       /\ at = "done" /\ outcome = "enriched"
       /\ start <= Longest /\ timer <= Longest

\* dispatch's constants are what its own theorems ask for.
LEMMA FanoutConstants == Fan!ConstantsAssumption
BY ConstantsAssumption, FanoutAssumption DEF Fan!ConstantsAssumption

\* The two instances of Dispatch are one specification.
LEMMA SameFanout == (Fanout!Init => Fan!Init) /\ (Fanout!Next => Fan!Next)
BY DEF Fanout!Init, Fan!Init, Fanout!Next, Fan!Next, Fanout!Call, Fan!Call,
     Fanout!Gather, Fan!Gather, Fanout!Tick, Fan!Tick, Fanout!MayTick,
     Fan!MayTick, Fanout!Attempt, Fan!Attempt, Fanout!Succeed, Fan!Succeed,
     Fanout!Reject, Fan!Reject, Fanout!ServerError, Fan!ServerError,
     Fanout!TransportError, Fan!TransportError, Fanout!Unexpected,
     Fan!Unexpected, Fanout!Resend, Fan!Resend, Fanout!InFlight,
     Fan!InFlight, Fanout!FailAttempt, Fan!FailAttempt, Fanout!Finish,
     Fan!Finish, Fanout!Backoff, Fan!Backoff, Fanout!BudgetUsed,
     Fan!BudgetUsed, Fanout!Result, Fan!Result, Fanout!NoResult,
     Fan!NoResult, Fanout!Targets, Fan!Targets, Fanout!targetVars,
     Fan!targetVars

\* classify_lead at work leaves a dispatch that is not called in step.
LEMMA ClassifyKeepsFanout ==
  ASSUME Fan!Pacing, phase = "idle", UNCHANGED fanoutVars,
         now' \in Nat, now <= now'
  PROVE  Fan!Pacing'
<1>1. Fan!TypeOK'
  BY DEF fanoutVars, Fan!Pacing, Fan!TypeOK
<1>2. Fan!InStep'
  BY DEF fanoutVars, Fan!Pacing, Fan!TypeOK, Fan!InStep
<1>3. ASSUME NEW t \in Fan!Targets
      PROVE  Fan!OnTime(t)'
  BY DEF fanoutVars, Fan!Pacing, Fan!InStep, Fan!OnTime
<1> QED
  BY <1>1, <1>2, <1>3 DEF Fan!Pacing

\* The clock of classify_lead never runs backwards, and a call that has
\* ended does nothing more.
LEMMA ClassifyClock ==
  ASSUME Paced, Next
  PROVE  now' \in Nat /\ now <= now' /\ at # "done"
<1>1. now \in Nat
  BY DEF Paced, TypeOK
<1>2. CASE Tick
  BY <1>1, <1>2 DEF Tick
<1>3. CASE Call \/ Resend
  BY <1>1, <1>3 DEF Call, Resend, Send
<1>4. CASE Answer \/ Raise
  BY <1>1, <1>4 DEF Answer, Verdict, Raise, Finish, Sleep, InFlight
<1> QED
  BY <1>2, <1>3, <1>4 DEF Next, Work

LEMMA JobInvariant == JobSpec => []JobPaced
<1> USE ConstantsAssumption, FanoutAssumption, FanoutConstants
<1>1. JobInit => JobPaced
  <2> SUFFICES ASSUME JobInit
               PROVE  JobPaced
    OBVIOUS
  <2>1. Fan!Pacing
    BY SameFanout, Fan!InitPaced DEF JobInit
  <2>2. phase = "idle"
    BY DEF JobInit, Fanout!Init
  <2> QED
    BY <2>1, <2>2, InitPaced DEF JobInit, JobPaced
<1>2. JobPaced /\ [JobNext]_jobVars => JobPaced'
  <2> SUFFICES ASSUME JobPaced, [JobNext]_jobVars
               PROVE  JobPaced'
    OBVIOUS
  <2>1. CASE UNCHANGED jobVars
    <3>1. Fan!Pacing'
      <4>1. UNCHANGED Fan!vars
        BY <2>1 DEF jobVars, vars, fanoutVars, Fan!vars
      <4> QED
        BY <4>1, Fan!NextPaced DEF JobPaced
    <3>2. phase = "idle" => Paced'
      <4>1. UNCHANGED vars
        BY <2>1 DEF jobVars
      <4> QED
        BY <4>1, NextPaced DEF JobPaced
    <3> QED
      BY <2>1, <3>1, <3>2 DEF jobVars, vars, fanoutVars, JobPaced, TypeOK
  <2>2. CASE ClassifyLead
    <3>1. Next /\ UNCHANGED fanoutVars /\ phase' = phase
      BY <2>2 DEF ClassifyLead, fanoutVars
    <3>2. phase = "idle"
      BY <3>1 DEF JobPaced, Next, Call, Work, Answer, Raise, Resend, Tick,
           InFlight
    <3>3. Paced'
      BY <3>1, <3>2, NextPaced DEF JobPaced
    <3>4. Fan!Pacing'
      BY <3>1, <3>2, ClassifyClock, ClassifyKeepsFanout DEF JobPaced
    <3> QED
      BY <3>1, <3>2, <3>3, <3>4 DEF JobPaced
  <2>3. CASE DispatchEnriched
    <3>1. /\ outcome = "enriched" /\ Fan!Next
          /\ UNCHANGED <<provider, at, timer, attempts, outcome>>
      BY <2>3, SameFanout DEF DispatchEnriched, llmVars
    <3>2. Fan!Pacing'
      BY <3>1, Fan!NextPaced DEF JobPaced
    <3>3. /\ phase = "idle" =>
               now' = now /\ (phase' = "idle" \/ start' = now)
          /\ phase # "idle" => start' = start /\ phase' # "idle"
      BY <3>1, Fan!StartIsFixed DEF JobPaced
    <3>4. CASE phase = "idle"
      <4>1. now' = now /\ Paced /\ at = "done"
        BY <3>1, <3>3, <3>4 DEF JobPaced, Paced
      <4>2. Paced'
        BY <3>1, <4>1 DEF Paced, TypeOK, GivesUpOnlyWhenExhausted
      <4>3. now <= Longest /\ timer <= Longest /\ TypeOK
        BY <4>1 DEF Paced
      <4> QED
        BY <3>1, <3>2, <3>3, <3>4, <4>1, <4>2, <4>3 DEF JobPaced, Paced
    <3>5. CASE phase # "idle"
      <4>1. now' \in Nat
        BY <3>2 DEF Fan!Pacing, Fan!TypeOK
      <4> QED
        BY <3>1, <3>2, <3>3, <3>5, <4>1 DEF JobPaced, TypeOK
    <3> QED
      BY <3>4, <3>5
  <2> QED
    BY <2>1, <2>2, <2>3 DEF JobNext
<1> QED
  BY <1>1, <1>2, PTL DEF JobSpec

\* The state of classify_lead is well typed in every behaviour of a run.
THEOREM TypeCorrect == JobSpec => []TypeOK
<1>1. JobPaced => TypeOK
  BY DEF JobPaced, Paced
<1> QED
  BY <1>1, JobInvariant, PTL

\* A transient error of the provider ends the run only when classify_lead
\* has used every attempt.
THEOREM RunRetriesToTheLast == JobSpec => []GivesUpOnlyWhenExhausted
<1>1. JobPaced => GivesUpOnlyWhenExhausted
  BY VerdictIsNoException
     DEF JobPaced, Paced, TypeOK, GivesUpOnlyWhenExhausted
<1> QED
  BY <1>1, JobInvariant, PTL

\* In a run, too, classify_lead keeps to its bound.
THEOREM RunCallIsBounded == JobSpec => []CallBounded
<1>1. JobPaced => CallBounded
  BY PacedIsBounded DEF JobPaced, CallBounded, Longest
<1> QED
  BY <1>1, JobInvariant, PTL

\* A run takes less than what its two stages may take together.
THEOREM RunIsBounded == JobSpec => []JobBounded
<1> USE ConstantsAssumption, FanoutAssumption
<1>1. JobPaced => JobBounded
  <2> SUFFICES ASSUME JobPaced
               PROVE  now < Longest + Budget + DispatchMaxWait + AttemptMax
    BY DEF JobBounded, Longest
  <2>1. now \in Nat /\ start \in Nat /\ Longest \in Nat
    BY LastLap DEF JobPaced, Fan!Pacing, Fan!TypeOK
  <2>2. CASE phase = "idle"
    <3>1. now <= Longest
      BY <2>2, PacedIsBounded DEF JobPaced
    <3> QED
      BY <2>1, <3>1
  <2>3. CASE phase # "idle"
    <3>1. /\ start <= Longest
          /\ now < start + Budget + DispatchMaxWait + AttemptMax
      BY <2>3 DEF JobPaced, Fan!Pacing, Fan!InStep
    <3> QED
      BY <2>1, <3>1
  <2> QED
    BY <2>2, <2>3
<1> QED
  BY <1>1, JobInvariant, PTL

=============================================================================
