------------------------------ MODULE Classify ------------------------------
(***************************************************************************)
(* One call of classify_lead, of AnthropicLLMClient or GeminiLLMClient:    *)
(* the tenacity loop around one request to the provider, and the reading   *)
(* of its reply, against a discrete clock.                                 *)
(*                                                                         *)
(* External: tenacity asks its predicate about the exception of a failed   *)
(* attempt, then stops after MaxAttempts or sleeps; with reraise=True it   *)
(* ends by raising that exception.  CallMax bounds a request, the SDK's    *)
(* own retries included.                                                   *)
(*                                                                         *)
(* Abstractions.  A reply is the few facts the code tests; an exception is *)
(* its class.  The clock ticks once per SecondsPerTick; a request takes at *)
(* least one tick.                                                         *)
(***************************************************************************)
EXTENDS Naturals

CONSTANTS
  MaxAttempts,     \* stop_after_attempt(4)
  CallMax,         \* the longest request, in ticks
  MaxWait,         \* max= of wait_random_exponential, in ticks
  SecondsPerTick

ASSUME ConstantsAssumption ==
  /\ MaxAttempts \in Nat \ {0}
  /\ CallMax \in Nat \ {0}
  /\ MaxWait \in Nat
  /\ SecondsPerTick \in Nat \ {0}

Providers == {"anthropic", "gemini"}

VARIABLES
  now,       \* the clock
  provider,  \* settings.llm_provider
  at,        \* where the coroutine stands
  timer,     \* when it sent the request, will wake up, or finished
  attempts,  \* requests sent
  outcome    \* what the call ends with

vars == <<now, provider, at, timer, attempts, outcome>>

\* What a response of each provider says, as far as the client looks, and
\* when an EnrichmentResult comes out of it; if none does, the client raises
\* LLMClassificationError.
AnthropicReplies ==
  [stop_reason : {"tool_use", "other"},
   tool_block : {"valid", "invalid", "absent"}]

AnthropicUsable(reply) ==
  reply.stop_reason = "tool_use" /\ reply.tool_block = "valid"

GeminiReplies ==
  [finish_reason : {"none", "usable", "non_retryable"},
   parsed : BOOLEAN,
   text : {"valid", "invalid", "empty"}]

GeminiUsable(reply) ==
  /\ reply.finish_reason # "non_retryable"
  /\ reply.parsed \/ reply.text = "valid"

\* Exceptions of the request, and those each client's predicate retries.
Exceptions(p) ==
  {"connection", "timeout", "rate_limit", "server_error", "client_error"}
  \cup IF p = "gemini" THEN {"protocol"} ELSE {}

Transient(p) == Exceptions(p) \ {"client_error", "protocol"}

Outcomes == {"none", "enriched", "unusable"} \cup Exceptions("gemini")

TypeOK ==
  /\ now \in Nat
  /\ provider \in Providers
  /\ at \in {"idle", "request", "wait", "done"}
  /\ timer \in Nat
  /\ attempts \in 0..MaxAttempts
  /\ outcome \in Outcomes

Init ==
  /\ now = 0
  /\ provider \in Providers
  /\ at = "idle"
  /\ timer = 0
  /\ attempts = 0
  /\ outcome = "none"

-----------------------------------------------------------------------------
Send ==
  /\ at' = "request"
  /\ timer' = now
  /\ attempts' = attempts + 1
  /\ UNCHANGED <<now, provider, outcome>>

Call == at = "idle" /\ Send

Resend == at = "wait" /\ timer = now /\ Send

Finish(o) ==
  /\ at' = "done"
  /\ timer' = now
  /\ outcome' = o
  /\ UNCHANGED <<now, provider, attempts>>

InFlight == at = "request" /\ timer < now

Verdict(usable) == Finish(IF usable THEN "enriched" ELSE "unusable")

\* A reply is final, usable or not.
Answer ==
  /\ InFlight
  /\ \/ /\ provider = "anthropic"
        /\ \E reply \in AnthropicReplies : Verdict(AnthropicUsable(reply))
     \/ /\ provider = "gemini"
        /\ \E reply \in GeminiReplies : Verdict(GeminiUsable(reply))

Backoff(n) == {w \in 0..MaxWait : w * SecondsPerTick <= 2^(n - 1)}

\* Mutant: ClientError is never transient, not even with code 429.
MayRetryNo429(x) ==
  x \in Transient(provider) \ {"rate_limit"} /\ attempts < MaxAttempts

\* Mutant: one attempt more than stop_after_attempt allows.
MayRetryOnceMore(x) == x \in Transient(provider) /\ attempts <= MaxAttempts

MayRetry(x) == x \in Transient(provider) /\ attempts < MaxAttempts

Sleep ==
  /\ at' = "wait"
  /\ \E w \in Backoff(attempts) : timer' = now + w
  /\ UNCHANGED <<now, provider, attempts, outcome>>

Raise ==
  /\ InFlight
  /\ \E x \in Exceptions(provider) : IF MayRetry(x) THEN Sleep ELSE Finish(x)

Tick ==
  /\ at = "request" => now < timer + CallMax
  /\ at = "wait" => now < timer
  /\ at \in {"request", "wait"}
  /\ now' = now + 1
  /\ UNCHANGED <<provider, at, timer, attempts, outcome>>

Work == Answer \/ Raise \/ Resend \/ Tick

Next == Call \/ Work

Spec == Init /\ [][Next]_vars

FairSpec == Spec /\ WF_vars(Work)
-----------------------------------------------------------------------------
(* Properties.                                                             *)

\* A transient error reaches the task only when every attempt was used, and
\* is never taken for a verdict of the model.
GivesUpOnlyWhenExhausted ==
  outcome \in Transient(provider) => attempts = MaxAttempts

\* When classify_lead can still be at work: within all its requests and the
\* sleeps between them.
CallBounded ==
  timer <= MaxAttempts * CallMax + (MaxAttempts - 1) * MaxWait

=============================================================================
