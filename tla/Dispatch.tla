------------------------------ MODULE Dispatch ------------------------------
(***************************************************************************)
(* One call of dispatch: the concurrent fan-out to the configured targets, *)
(* each with its tenacity loop, against a discrete clock.                  *)
(*                                                                         *)
(* External: tenacity asks `stop` after an attempt has failed and before   *)
(* it sleeps, with the time since the first attempt; wait_random_          *)
(* exponential sleeps a random time below the smaller of its maximum and   *)
(* 2^(attempt - 1) seconds; httpx's timeouts end an attempt.               *)
(*                                                                         *)
(* Abstractions.  The clock ticks once per SecondsPerTick, an attempt      *)
(* takes at least one tick, coroutines act without delay once they can.    *)
(* Status codes are classes.  A target is its index in dispatch_targets.   *)
(***************************************************************************)
EXTENDS Naturals

CONSTANTS
  NumTargets,      \* len(targets)
  Budget,          \* total_timeout_seconds, in ticks
  MaxWait,         \* max= of wait_random_exponential, in ticks
  AttemptMax,      \* the longest attempt httpx's timeouts permit, in ticks
  SecondsPerTick

ASSUME ConstantsAssumption ==
  /\ NumTargets \in Nat
  /\ Budget \in Nat \ {0}
  /\ MaxWait \in Nat
  /\ AttemptMax \in Nat \ {0}
  /\ SecondsPerTick \in Nat \ {0}

Targets == 1..NumTargets

VARIABLES
  now,         \* the clock
  phase,       \* dispatch: not called, sending, returned
  start,       \* when it was called
  at,          \* where each target's coroutine stands
  timer,       \* when it sent the request, will wake up, or finished
  attempts,    \* requests it has sent
  lastStatus,  \* last_status
  result       \* its DispatchResult

targetVars == <<at, timer, attempts, lastStatus, result>>
vars == <<now, phase, start, at, timer, attempts, lastStatus, result>>

Classes == {"none", "2xx", "other", "5xx"}
ErrorKinds == {"none", "timeout_exceeded", "unexpected"}

Result(success, status, n, error) ==
  [success |-> success, status |-> status, attempts |-> n, error |-> error]
NoResult == Result(FALSE, "none", 0, "none")

TypeOK ==
  /\ now \in Nat /\ start \in Nat
  /\ phase \in {"idle", "sending", "returned"}
  /\ at \in [Targets -> {"idle", "request", "wait", "done"}]
  /\ timer \in [Targets -> Nat]
  /\ attempts \in [Targets -> Nat]
  /\ lastStatus \in [Targets -> {"none", "5xx"}]
  /\ result \in [Targets -> [success : BOOLEAN, status : Classes,
                             attempts : Nat, error : ErrorKinds]]

Init ==
  /\ now = 0 /\ start = 0
  /\ phase = "idle"
  /\ at = [t \in Targets |-> "idle"]
  /\ timer = [t \in Targets |-> 0]
  /\ attempts = [t \in Targets |-> 0]
  /\ lastStatus = [t \in Targets |-> "none"]
  /\ result = [t \in Targets |-> NoResult]

-----------------------------------------------------------------------------
Call ==
  /\ phase = "idle"
  /\ phase' = "sending"
  /\ start' = now
  /\ at' = [t \in Targets |-> "request"]
  /\ timer' = [t \in Targets |-> now]
  /\ attempts' = [t \in Targets |-> 1]
  /\ UNCHANGED <<now, lastStatus, result>>

Finish(t, r) ==
  /\ at' = [at EXCEPT ![t] = "done"]
  /\ timer' = [timer EXCEPT ![t] = now]
  /\ result' = [result EXCEPT ![t] = r]
  /\ UNCHANGED <<now, phase, start, attempts>>

\* Mutant: the budget counts from the end of the longest wait.
BudgetAndWaitUsed == now - start > Budget + MaxWait

\* stop_after_delay is asked when an attempt has failed.
BudgetUsed == now - start >= Budget

Backoff(n) == {w \in 0..MaxWait : w * SecondsPerTick <= 2^(n - 1)}

\* A failed attempt: RetryError, or another attempt after a random wait.
FailAttempt(t, status) ==
  IF BudgetUsed
    THEN Finish(t, Result(FALSE, status, attempts[t], "timeout_exceeded"))
    ELSE /\ at' = [at EXCEPT ![t] = "wait"]
         /\ \E w \in Backoff(attempts[t]) :
              timer' = [timer EXCEPT ![t] = now + w]
         /\ UNCHANGED <<now, phase, start, attempts, result>>

InFlight(t) == at[t] = "request" /\ timer[t] < now

Succeed(t) ==
  /\ InFlight(t)
  /\ Finish(t, Result(TRUE, "2xx", attempts[t], "none"))
  /\ UNCHANGED lastStatus

\* Any answer that is neither 2xx nor 5xx is final as well.
Reject(t) ==
  /\ InFlight(t)
  /\ Finish(t, Result(FALSE, "other", attempts[t], "none"))
  /\ UNCHANGED lastStatus

ServerError(t) ==
  /\ InFlight(t)
  /\ lastStatus' = [lastStatus EXCEPT ![t] = "5xx"]
  /\ FailAttempt(t, "5xx")

TransportError(t) ==
  /\ InFlight(t)
  /\ FailAttempt(t, lastStatus[t])
  /\ UNCHANGED lastStatus

\* Mutant: gather without return_exceptions=True.
UnexpectedCancelsGather(t) ==
  /\ InFlight(t)
  /\ phase' = "returned"
  /\ UNCHANGED <<now, start, targetVars>>

\* An exception the retry loop does not name leaves the coroutine; gather
\* hands it to dispatch, which reports one attempt.
Unexpected(t) ==
  /\ InFlight(t)
  /\ Finish(t, Result(FALSE, "none", 1, "unexpected"))
  /\ UNCHANGED lastStatus

\* Mutant: the loop ends without a result when the sleep outlasts the budget.
ResendWithinBudget(t) ==
  /\ at[t] = "wait"
  /\ timer[t] = now
  /\ ~BudgetUsed
  /\ at' = [at EXCEPT ![t] = "request"]
  /\ timer' = [timer EXCEPT ![t] = now]
  /\ attempts' = [attempts EXCEPT ![t] = @ + 1]
  /\ UNCHANGED <<now, phase, start, lastStatus, result>>

Resend(t) ==
  /\ at[t] = "wait"
  /\ timer[t] = now
  /\ at' = [at EXCEPT ![t] = "request"]
  /\ timer' = [timer EXCEPT ![t] = now]
  /\ attempts' = [attempts EXCEPT ![t] = @ + 1]
  /\ UNCHANGED <<now, phase, start, lastStatus, result>>

Gather ==
  /\ phase = "sending"
  /\ \A t \in Targets : at[t] = "done"
  /\ phase' = "returned"
  /\ UNCHANGED <<now, start, targetVars>>

\* Time stops for an attempt that httpx ends and for a sleep that is over.
MayTick(t) ==
  /\ at[t] = "request" => now < timer[t] + AttemptMax
  /\ at[t] = "wait" => now < timer[t]

Tick ==
  /\ phase = "sending"
  /\ \E t \in Targets : at[t] # "done"
  /\ \A t \in Targets : MayTick(t)
  /\ now' = now + 1
  /\ UNCHANGED <<phase, start, targetVars>>

-----------------------------------------------------------------------------
Attempt(t) ==
  \/ Succeed(t) \/ Reject(t) \/ ServerError(t)
  \/ TransportError(t) \/ Unexpected(t)
  \/ Resend(t)

Next ==
  \/ Call \/ Gather \/ Tick
  \/ \E t \in Targets : Attempt(t)

Spec == Init /\ [][Next]_vars

\* Time passes and coroutines that can act do; nobody has to call dispatch.
FairSpec == Spec /\ WF_vars(Gather \/ Tick \/ \E t \in Targets : Attempt(t))
-----------------------------------------------------------------------------
(* Properties.                                                             *)

\* How far a dispatch can overrun its budget: by one sleep that was begun
\* within it and the attempt after that sleep.
OverrunBounded ==
  phase = "sending" => now - start < Budget + MaxWait + AttemptMax

\* dispatch returns one result per target, also when the coroutine of
\* another target dies of an exception nobody expected.
OneResultPerTarget ==
  phase = "returned" => \A t \in Targets : result[t] # NoResult

\* A dispatch that is called returns.
CallReturns == phase = "sending" ~> phase = "returned"

=============================================================================
