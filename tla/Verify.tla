------------------------------- MODULE Verify -------------------------------
(***************************************************************************)
(* verify_hmac: the window around the timestamp of one signed delivery     *)
(* that arrives once, twice or late, on the sender's and on the receiver's *)
(* clock.                                                                  *)
(*                                                                         *)
(* Abstractions.  time.time() is read in ticks, any number of which make   *)
(* a second; a timestamp is cut to the second.  HMAC is ideal: a delivery  *)
(* is recognised when it was altered on the way.  A signature or a         *)
(* timestamp that is not ASCII, which raises a TypeError or a              *)
(* UnicodeEncodeError here, is left out.                                   *)
(***************************************************************************)
EXTENDS Integers

CONSTANTS
  TicksPerSecond,  \* how finely time.time() is read
  MaxAge,          \* max_age_seconds
  MaxDrift,        \* of the sender's clock either way, in ticks
  MaxTime          \* bound on the receiver's clock, in ticks

ASSUME VerifyAssumption ==
  /\ TicksPerSecond \in Nat \ {0}
  /\ MaxAge \in Nat
  /\ MaxDrift \in Nat
  /\ MaxTime \in Nat

VARIABLES
  now,            \* the receiver's clock
  drift,          \* how far the sender's clock is ahead
  sentAt,         \* when the delivery was signed, -1 before
  timestamp,      \* its X-Timestamp
  verdict,        \* of the last arrival
  firstAccepted   \* when the delivery was first accepted, -1 before

verifyVars == <<now, drift, sentAt, timestamp, verdict, firstAccepted>>

ToSecond(t) == t - (t % TicksPerSecond)
Window == TicksPerSecond * MaxAge

VerifyInit ==
  /\ now = 0
  /\ drift \in -MaxDrift..MaxDrift
  /\ sentAt = -1 /\ timestamp = 0
  /\ verdict = "none"
  /\ firstAccepted = -1

Sign ==
  /\ sentAt = -1
  /\ sentAt' = now
  /\ timestamp' = ToSecond(now + drift)
  /\ UNCHANGED <<now, drift, verdict, firstAccepted>>

\* Mutant: abs(skew) >= max_age_seconds.
ExpiredAtBoundary(skew) == skew >= Window \/ skew <= -Window

\* Mutant: only old timestamps are refused.
ExpiredIfOld(skew) == skew > Window

Expired(skew) == skew > Window \/ skew < -Window

\* The checks in their order: the form of the timestamp, its window, the
\* signature.
Verdict(wellFormed, intact) ==
  CASE ~wellFormed -> "invalid"
    [] wellFormed /\ Expired(now - timestamp) -> "expired"
    [] wellFormed /\ ~Expired(now - timestamp) /\ ~intact -> "invalid"
    [] OTHER -> "valid"

Arrive(wellFormed, intact) ==
  /\ sentAt # -1
  /\ verdict' = Verdict(wellFormed, intact)
  /\ firstAccepted' =
       IF verdict' = "valid" /\ firstAccepted = -1 THEN now ELSE firstAccepted
  /\ UNCHANGED <<now, drift, sentAt, timestamp>>

Tick ==
  /\ now < MaxTime
  /\ now' = now + 1
  /\ verdict' = "none"
  /\ UNCHANGED <<drift, sentAt, timestamp, firstAccepted>>

-----------------------------------------------------------------------------
(* Properties.                                                             *)

\* The cut of the timestamp costs a sender no more than a second: a delivery
\* that is under way for max_age_seconds less one on the two clocks is not
\* refused for its age, nor is one from a clock that is ahead by the whole
\* window.  In the last second it may be refused.
PunctualIsNotExpired ==
  verdict = "expired" =>
    now - (sentAt + drift) \notin -Window..(Window - TicksPerSecond)

\* Replay protection: whatever its timestamp, one signed delivery can be
\* accepted over no more than twice max_age_seconds.
AcceptedWithinTwoWindows ==
  verdict = "valid" => now - firstAccepted <= 2 * Window
=============================================================================
