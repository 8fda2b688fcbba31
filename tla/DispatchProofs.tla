--------------------------- MODULE DispatchProofs ---------------------------
(***************************************************************************)
(* Theorems about Dispatch, for every number of targets, every budget,     *)
(* every longest wait and every longest attempt.                           *)
(***************************************************************************)
EXTENDS Dispatch, TLAPS

\* Where a coroutine stands in time, and when it has its result.
OnTime(t) ==
  /\ at[t] = "request" =>
       /\ timer[t] <= now /\ now <= timer[t] + AttemptMax
       /\ timer[t] < start + Budget + MaxWait
  /\ at[t] = "wait" =>
       /\ now <= timer[t]
       /\ timer[t] < start + Budget + MaxWait
  /\ at[t] = "done" <=> result[t] # NoResult

\* The call in step with its coroutines, and the clock within its bound.
InStep ==
  /\ start <= now
  /\ \A t \in Targets : phase = "idle" <=> at[t] = "idle"
  /\ phase = "returned" => \A t \in Targets : at[t] = "done"
  /\ phase # "idle" => now < start + Budget + MaxWait + AttemptMax

Pacing ==
  /\ TypeOK
  /\ InStep
  /\ \A t \in Targets : OnTime(t)

-----------------------------------------------------------------------------
\* What Pacing asks of a coroutine's step: the others stay, and it stands
\* where it may.
Steps(t) ==
  /\ UNCHANGED <<now, phase, start>>
  /\ \E a \in {"request", "wait", "done"} : at' = [at EXCEPT ![t] = a]
  /\ \E m \in Nat : timer' = [timer EXCEPT ![t] = m]
  /\ \E n \in Nat : attempts' = [attempts EXCEPT ![t] = n]
  /\ \E c \in {"none", "5xx"} : lastStatus' = [lastStatus EXCEPT ![t] = c]
  /\ \E r \in [success : BOOLEAN, status : Classes,
               attempts : Nat, error : ErrorKinds] :
       result' = [result EXCEPT ![t] = r]
  /\ OnTime(t)'

LEMMA StepsKeepPacing ==
  ASSUME Pacing, NEW t \in Targets, at[t] \in {"request", "wait"}, Steps(t)
  PROVE  Pacing'
<1>1. TypeOK'
  BY DEF Pacing, Steps, TypeOK
<1>2. \A u \in Targets \ {t} :
        /\ at'[u] = at[u] /\ timer'[u] = timer[u] /\ result'[u] = result[u]
  BY DEF Pacing, Steps, TypeOK
<1>3. at'[t] \in {"request", "wait", "done"}
  BY DEF Pacing, Steps, TypeOK
<1>4. phase = "sending"
  BY DEF Pacing, InStep, TypeOK
<1>5. InStep'
  BY <1>2, <1>3, <1>4 DEF Pacing, InStep, Steps
<1>6. \A u \in Targets : OnTime(u)'
  <2> SUFFICES ASSUME NEW u \in Targets \ {t}
               PROVE  OnTime(u)'
    BY DEF Steps
  <2> QED
    BY <1>2 DEF Pacing, Steps, OnTime
<1> QED
  BY <1>1, <1>5, <1>6 DEF Pacing

\* A coroutine finishes with a result.
LEMMA FinishSteps ==
  ASSUME Pacing, NEW t \in Targets,
         NEW r \in [success : BOOLEAN, status : Classes,
                    attempts : Nat, error : ErrorKinds],
         NEW c \in {"none", "5xx"}, lastStatus' = [lastStatus EXCEPT ![t] = c],
         r # NoResult, Finish(t, r)
  PROVE  Steps(t)
<1> USE ConstantsAssumption
<1>1. attempts' = [attempts EXCEPT ![t] = attempts[t]] /\ attempts[t] \in Nat
  BY DEF Finish, Pacing, TypeOK
<1>2. at'[t] = "done" /\ timer'[t] = now /\ result'[t] = r
  BY DEF Finish, Pacing, TypeOK
<1>3. now \in Nat /\ start \in Nat
  BY DEF Pacing, TypeOK
<1>4. OnTime(t)'
  BY <1>2, <1>3 DEF OnTime, Finish
<1> QED
  BY <1>1, <1>3, <1>4 DEF Steps, Finish

\* An attempt that fails within the budget is followed by a bounded wait.
LEMMA FailAttemptSteps ==
  ASSUME Pacing, NEW t \in Targets, at[t] = "request",
         NEW status \in {"none", "5xx"},
         NEW c \in {"none", "5xx"}, lastStatus' = [lastStatus EXCEPT ![t] = c],
         FailAttempt(t, status)
  PROVE  Steps(t)
<1> USE ConstantsAssumption
<1>1. now \in Nat /\ start \in Nat /\ attempts[t] \in Nat
  BY DEF Pacing, TypeOK
<1>2. CASE BudgetUsed
  <2> DEFINE r == Result(FALSE, status, attempts[t], "timeout_exceeded")
  <2>1. Finish(t, r)
    BY <1>2 DEF FailAttempt
  <2>2. r \in [success : BOOLEAN, status : Classes,
               attempts : Nat, error : ErrorKinds]
    BY <1>1 DEF Result, Classes, ErrorKinds
  <2>3. r # NoResult
    BY DEF NoResult, Result
  <2> QED
    BY <1>2, <2>1, <2>2, <2>3, FinishSteps
<1>3. CASE ~BudgetUsed
  <2>1. PICK w \in 0..MaxWait : timer' = [timer EXCEPT ![t] = now + w]
    BY <1>3 DEF FailAttempt, Backoff
  <2>2. /\ at' = [at EXCEPT ![t] = "wait"]
        /\ UNCHANGED <<now, phase, start, attempts, result>>
    BY <1>3 DEF FailAttempt
  <2>3. now - start < Budget
    BY <1>1, <1>3 DEF BudgetUsed
  <2>4. at'[t] = "wait" /\ timer'[t] = now + w /\ result'[t] = result[t]
    BY <2>1, <2>2 DEF Pacing, TypeOK
  <2>5. result[t] = NoResult /\ result[t].error = "none"
    BY DEF Pacing, OnTime, NoResult, Result
  <2>6. OnTime(t)'
    BY <1>1, <2>2, <2>3, <2>4, <2>5 DEF OnTime
  <2>7. /\ attempts' = [attempts EXCEPT ![t] = attempts[t]]
        /\ result' = [result EXCEPT ![t] = result[t]]
        /\ result[t] \in [success : BOOLEAN, status : Classes,
                          attempts : Nat, error : ErrorKinds]
    BY <2>2 DEF Pacing, TypeOK
  <2>8. now + w \in Nat
    BY <1>1
  <2>9. /\ \E m \in Nat : timer' = [timer EXCEPT ![t] = m]
        /\ \E n \in Nat : attempts' = [attempts EXCEPT ![t] = n]
        /\ \E r \in [success : BOOLEAN, status : Classes,
                     attempts : Nat, error : ErrorKinds] :
             result' = [result EXCEPT ![t] = r]
    BY <1>1, <2>1, <2>7, <2>8
  <2> QED
    BY <2>2, <2>6, <2>9 DEF Steps
<1> QED
  BY <1>2, <1>3

-----------------------------------------------------------------------------
LEMMA InitPaced == Init => Pacing
<1> USE ConstantsAssumption
<1> SUFFICES ASSUME Init
             PROVE  Pacing
  OBVIOUS
<1>1. TypeOK
  <2>1. NoResult \in [success : BOOLEAN, status : Classes,
                      attempts : Nat, error : ErrorKinds]
    BY DEF NoResult, Result, Classes, ErrorKinds
  <2> QED
    BY <2>1 DEF Init, TypeOK
<1>2. InStep
  BY DEF Init, InStep
<1>3. ASSUME NEW t \in Targets
      PROVE  OnTime(t)
  BY DEF Init, OnTime, NoResult, Result
<1> QED
  BY <1>1, <1>2, <1>3 DEF Pacing

LEMMA NextPaced == Pacing /\ [Next]_vars => Pacing'
<1> USE ConstantsAssumption
<1> SUFFICES ASSUME Pacing, [Next]_vars
             PROVE  Pacing'
  OBVIOUS
<1>1. CASE UNCHANGED vars
  BY <1>1 DEF vars, Pacing, TypeOK, InStep, OnTime
<1>2. CASE Call
  <2>1. TypeOK'
    BY <1>2 DEF Call, Pacing, TypeOK
  <2>2. now \in Nat
    BY DEF Pacing, TypeOK
  <2>3. InStep'
    BY <1>2, <2>2 DEF Call, InStep
  <2>4. ASSUME NEW t \in Targets
        PROVE  OnTime(t)'
    <3>1. result[t] = NoResult /\ result[t].error = "none"
      BY <1>2 DEF Call, Pacing, InStep, OnTime, NoResult, Result
    <3> QED
      BY <1>2, <2>2, <3>1 DEF Call, OnTime
  <2> QED
    BY <2>1, <2>3, <2>4 DEF Pacing
<1>3. CASE Gather
  BY <1>3 DEF Gather, targetVars, Pacing, TypeOK, InStep, OnTime
<1>4. CASE Tick
  <2>1. now \in Nat /\ start \in Nat /\ timer \in [Targets -> Nat]
    BY DEF Pacing, TypeOK
  <2>2. TypeOK'
    BY <1>4, <2>1 DEF Tick, targetVars, Pacing, TypeOK
  <2>3. PICK t \in Targets : at[t] # "done"
    BY <1>4 DEF Tick
  <2>4. at[t] \in {"request", "wait"}
    BY <1>4, <2>3 DEF Tick, Pacing, TypeOK, InStep
  <2>5. now + 1 < start + Budget + MaxWait + AttemptMax
    BY <1>4, <2>1, <2>4 DEF Tick, MayTick, Pacing, OnTime
  <2>6. InStep'
    BY <1>4, <2>1, <2>5 DEF Tick, targetVars, Pacing, InStep
  <2>7. ASSUME NEW u \in Targets
        PROVE  OnTime(u)'
    BY <1>4, <2>1 DEF Tick, targetVars, MayTick, Pacing, OnTime
  <2> QED
    BY <2>2, <2>6, <2>7 DEF Pacing
<1>5. ASSUME NEW t \in Targets, Attempt(t)
      PROVE  Pacing'
  <2> DEFINE Results == [success : BOOLEAN, status : Classes,
                         attempts : Nat, error : ErrorKinds]
  <2>1. /\ now \in Nat /\ start \in Nat /\ attempts[t] \in Nat
        /\ lastStatus[t] \in {"none", "5xx"}
        /\ lastStatus = [lastStatus EXCEPT ![t] = lastStatus[t]]
    BY DEF Pacing, TypeOK
  <2>2. CASE Succeed(t)
    <3> DEFINE r == Result(TRUE, "2xx", attempts[t], "none")
    <3>1. r \in Results /\ r # NoResult /\ r.error = "none"
      BY <2>1 DEF Result, NoResult, Classes, ErrorKinds
    <3>2. Steps(t)
      BY <2>1, <2>2, <3>1, FinishSteps DEF Succeed
    <3> QED
      BY <2>2, <3>2, StepsKeepPacing DEF Succeed, InFlight
  <2>3. CASE Reject(t)
    <3> DEFINE r == Result(FALSE, "other", attempts[t], "none")
    <3>1. r \in Results /\ r # NoResult /\ r.error = "none"
      BY <2>1 DEF Result, NoResult, Classes, ErrorKinds
    <3>2. Steps(t)
      BY <2>1, <2>3, <3>1, FinishSteps DEF Reject
    <3> QED
      BY <2>3, <3>2, StepsKeepPacing DEF Reject, InFlight
  <2>4. CASE ServerError(t)
    <3>1. Steps(t)
      BY <2>4, FailAttemptSteps DEF ServerError, InFlight
    <3> QED
      BY <2>4, <3>1, StepsKeepPacing DEF ServerError, InFlight
  <2>5. CASE TransportError(t)
    <3>1. Steps(t)
      BY <2>1, <2>5, FailAttemptSteps DEF TransportError, InFlight
    <3> QED
      BY <2>5, <3>1, StepsKeepPacing DEF TransportError, InFlight
  <2>6. CASE Unexpected(t)
    <3> DEFINE r == Result(FALSE, "none", 1, "unexpected")
    <3>1. r \in Results /\ r # NoResult
      BY DEF Result, NoResult, Classes, ErrorKinds
    <3>2. Steps(t)
      BY <2>1, <2>6, <3>1, FinishSteps DEF Unexpected
    <3> QED
      BY <2>6, <3>2, StepsKeepPacing DEF Unexpected, InFlight
  <2>7. CASE Resend(t)
    <3>1. /\ at[t] = "wait" /\ timer[t] = now
          /\ result[t] = NoResult /\ result[t].error = "none"
          /\ timer[t] < start + Budget + MaxWait
      BY <2>7 DEF Resend, Pacing, OnTime, NoResult, Result
    <3>2. at'[t] = "request" /\ timer'[t] = now
      BY <2>7 DEF Resend, Pacing, TypeOK
    <3>3. OnTime(t)'
      BY <2>1, <2>7, <3>1, <3>2 DEF Resend, OnTime
    <3>4. /\ result' = [result EXCEPT ![t] = result[t]]
          /\ result[t] \in Results
          /\ attempts' = [attempts EXCEPT ![t] = attempts[t] + 1]
      BY <2>7 DEF Resend, Pacing, TypeOK
    <3>5. attempts[t] + 1 \in Nat
      BY <2>1
    <3>6. Steps(t)
      <4>1. /\ UNCHANGED <<now, phase, start, lastStatus>>
            /\ at' = [at EXCEPT ![t] = "request"]
            /\ timer' = [timer EXCEPT ![t] = now]
        BY <2>7 DEF Resend
      <4> QED
        BY <2>1, <3>3, <3>4, <3>5, <4>1 DEF Steps
    <3> QED
      BY <3>1, <3>6, StepsKeepPacing
  <2> QED
    BY <1>5, <2>2, <2>3, <2>4, <2>5, <2>6, <2>7 DEF Attempt
<1> QED
  BY <1>1, <1>2, <1>3, <1>4, <1>5 DEF Next

\* The first step of a call fixes when it started; no later one moves that.
LEMMA StartIsFixed ==
  ASSUME Pacing, [Next]_vars
  PROVE  /\ phase = "idle" =>
              now' = now /\ (phase' = "idle" \/ start' = now)
         /\ phase # "idle" => start' = start /\ phase' # "idle"
<1>1. CASE UNCHANGED vars
  BY <1>1 DEF vars
<1>2. CASE Call
  BY <1>2 DEF Call
<1>3. CASE Gather
  BY <1>3 DEF Gather
<1>4. CASE Tick
  BY <1>4 DEF Tick
<1>5. ASSUME NEW t \in Targets, Attempt(t)
      PROVE  UNCHANGED <<now, phase, start>>
  BY <1>5 DEF Attempt, Succeed, Reject, ServerError, TransportError,
       Unexpected, Resend, FailAttempt, Finish
<1> QED
  BY <1>1, <1>2, <1>3, <1>4, <1>5 DEF Next

LEMMA PacingInvariant == Spec => []Pacing
BY InitPaced, NextPaced, PTL DEF Spec

\* The state is well typed in every behaviour.
THEOREM TypeCorrect == Spec => []TypeOK
<1>1. Pacing => TypeOK
  BY DEF Pacing
<1> QED
  BY <1>1, PacingInvariant, PTL

\* A call of dispatch lasts less than its budget, the longest sleep and the
\* longest attempt together.
THEOREM OverrunIsBounded == Spec => []OverrunBounded
<1>1. Pacing => OverrunBounded
  BY ConstantsAssumption DEF Pacing, TypeOK, InStep, OverrunBounded
<1> QED
  BY <1>1, PacingInvariant, PTL

\* dispatch returns with a result for every target, whatever ended its
\* coroutine.
THEOREM ReportsEveryTarget == Spec => []OneResultPerTarget
<1>1. Pacing => OneResultPerTarget
  BY DEF Pacing, InStep, OnTime, OneResultPerTarget
<1> QED
  BY <1>1, PacingInvariant, PTL

-----------------------------------------------------------------------------
\* Why a call returns.  A call that has not returned is never stuck: all
\* results are there to be gathered, or a coroutine has its answer or is at
\* the end of its sleep, or time may pass, whatever happened so far.
NeverStuck ==
  phase = "sending" =>
    \/ \A t \in Targets : at[t] = "done"
    \/ \E t \in Targets : InFlight(t) \/ (at[t] = "wait" /\ timer[t] = now)
    \/ /\ \E t \in Targets : at[t] # "done"
       /\ \A t \in Targets : MayTick(t)

\* The steps that a coroutine can take before time has to pass.
StepsLeft(t) ==
  CASE at[t] = "request" /\ timer[t] < now -> 3
    [] at[t] = "wait" -> 2
    [] at[t] = "request" /\ timer[t] = now -> 1
    [] OTHER -> 0

\* And no step is for nothing: the call returns, or time passes within the
\* bound of the call, or one coroutine has fewer steps left before time has
\* to pass and no other has more.  So the call has finitely many steps.
SpendsSteps ==
  phase = "sending" =>
    \/ phase' = "returned"
    \/ now' = now + 1 /\ now' - start < Budget + MaxWait + AttemptMax
    \/ \E t \in Targets :
         /\ StepsLeft(t)' < StepsLeft(t)
         /\ \A u \in Targets \ {t} : StepsLeft(u)' = StepsLeft(u)

\* A call of dispatch never waits for something that nobody will do.
THEOREM CallIsNeverStuck == Spec => []NeverStuck
<1>1. ASSUME Pacing, phase = "sending",
             NEW t \in Targets, ~MayTick(t)
      PROVE  InFlight(t) \/ (at[t] = "wait" /\ timer[t] = now)
  <2>1. now \in Nat /\ timer[t] \in Nat
    BY <1>1 DEF Pacing, TypeOK
  <2> QED
    BY <1>1, <2>1, ConstantsAssumption
       DEF MayTick, InFlight, Pacing, OnTime
<1>2. Pacing => NeverStuck
  BY <1>1 DEF NeverStuck
<1> QED
  BY <1>2, PacingInvariant, PTL

\* A coroutine that acts has fewer steps left and leaves the others alone.
LEMMA AttemptSpends ==
  ASSUME Pacing, NEW t \in Targets, Attempt(t)
  PROVE  /\ StepsLeft(t)' < StepsLeft(t)
         /\ \A u \in Targets \ {t} : StepsLeft(u)' = StepsLeft(u)
<1>1. /\ now \in Nat /\ now' = now
      /\ at \in [Targets -> {"idle", "request", "wait", "done"}]
      /\ timer \in [Targets -> Nat]
  BY DEF Pacing, TypeOK, Attempt, Succeed, Reject, ServerError,
         TransportError, Unexpected, Resend, FailAttempt, Finish
<1>2. \A u \in Targets \ {t} : at'[u] = at[u] /\ timer'[u] = timer[u]
  <2>1. /\ \E a : at' = [at EXCEPT ![t] = a]
        /\ \E i : timer' = [timer EXCEPT ![t] = i]
    BY DEF Attempt, Succeed, Reject, ServerError,
           TransportError, Unexpected, Resend, FailAttempt, Finish
  <2> QED
    BY <1>1, <2>1
<1>3. CASE InFlight(t)
  <2>1. at'[t] \in {"wait", "done"}
    BY <1>1, <1>3 DEF InFlight, Attempt, Succeed, Reject, ServerError,
         TransportError, Unexpected, Resend, FailAttempt, Finish
  <2> QED
    BY <1>1, <1>2, <1>3, <2>1 DEF InFlight, StepsLeft
<1>4. CASE ~InFlight(t)
  <2>1. at[t] = "wait" /\ at'[t] = "request" /\ timer'[t] = now'
    BY <1>1, <1>4 DEF Attempt, Succeed, Reject, ServerError,
         TransportError, Unexpected, Resend
  <2> QED
    BY <1>1, <1>2, <2>1 DEF StepsLeft
<1> QED
  BY <1>3, <1>4

\* Every step of a call brings its end nearer.
THEOREM CallSpendsItself == Spec => [][SpendsSteps]_vars
<1>1. ASSUME Pacing, Pacing', [Next]_vars
      PROVE  [SpendsSteps]_vars
  <2>1. CASE UNCHANGED vars
    BY <2>1
  <2>2. CASE Call
    BY <2>2 DEF Call, SpendsSteps
  <2>3. CASE Gather
    BY <2>3 DEF Gather, SpendsSteps
  <2>4. CASE Tick
    <3>1. now' = now + 1 /\ start' = start /\ phase' = phase
      BY <2>4 DEF Tick
    <3>2. /\ now' \in Nat /\ start \in Nat
          /\ phase # "idle" => now' < start + Budget + MaxWait + AttemptMax
      BY <1>1, <3>1 DEF Pacing, TypeOK, InStep
    <3> QED
      BY <3>1, <3>2, ConstantsAssumption DEF SpendsSteps
  <2>5. ASSUME NEW t \in Targets, Attempt(t)
        PROVE  SpendsSteps
    BY <1>1, <2>5, AttemptSpends DEF SpendsSteps
  <2> QED
    BY <1>1, <2>1, <2>2, <2>3, <2>4, <2>5 DEF Next
<1> QED
  BY <1>1, PacingInvariant, PTL DEF Spec

=============================================================================
