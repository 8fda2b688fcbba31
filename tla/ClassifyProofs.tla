--------------------------- MODULE ClassifyProofs ---------------------------
(***************************************************************************)
(* Theorems about Classify, for every number of attempts, every longest    *)
(* request and every longest wait.                                         *)
(***************************************************************************)
EXTENDS Classify, TLAPS

\* n requests and the waits after them, and all a call may take.
Laps(n) == n * (CallMax + MaxWait)
Longest == MaxAttempts * CallMax + (MaxAttempts - 1) * MaxWait

\* No laps take no time.
LEMMA NoLaps == Laps(0) = 0
BY ConstantsAssumption DEF Laps

\* One more attempt is one lap more.
LEMMA NextLap ==
  ASSUME NEW n \in Nat
  PROVE  Laps(n) \in Nat /\ Laps(n + 1) = Laps(n) + CallMax + MaxWait
BY ConstantsAssumption DEF Laps

\* The last request of a call ends within what the call may take.
LEMMA LastLap ==
  ASSUME NEW n \in 0..(MaxAttempts - 1)
  PROVE  Longest \in Nat /\ Laps(n) + CallMax <= Longest
<1> USE ConstantsAssumption
<1> DEFINE k == MaxAttempts - 1
           rest == k - n
<1>1. k \in Nat /\ rest \in Nat /\ n \in Nat /\ k = n + rest
  OBVIOUS
<1>2. MaxAttempts * CallMax = k * CallMax + CallMax
  OBVIOUS
<1>3. k * (CallMax + MaxWait) = k * CallMax + k * MaxWait
  OBVIOUS
<1>4. k * (CallMax + MaxWait)
        = n * (CallMax + MaxWait) + rest * (CallMax + MaxWait)
  BY <1>1
<1>5. /\ rest * (CallMax + MaxWait) \in Nat /\ n * (CallMax + MaxWait) \in Nat
      /\ k * CallMax \in Nat /\ k * MaxWait \in Nat
  BY <1>1
<1> HIDE DEF k, rest
<1>6. Longest = k * CallMax + CallMax + k * MaxWait
  BY <1>2 DEF Longest, k
<1> QED
  BY <1>3, <1>4, <1>5, <1>6 DEF Laps

-----------------------------------------------------------------------------
\* Where the coroutine stands in time, counted in attempts; and that a
\* transient error only ends the call after the last.
Paced ==
  /\ TypeOK
  /\ at = "idle" => now = 0 /\ timer = 0 /\ attempts = 0
  /\ at # "idle" => attempts >= 1
  /\ at = "request" =>
       /\ timer <= now /\ now <= timer + CallMax
       /\ timer <= Laps(attempts - 1)
  /\ at = "wait" =>
       /\ attempts < MaxAttempts
       /\ now <= timer /\ timer <= Laps(attempts)
  /\ at = "done" => now = timer /\ timer <= Longest
  /\ outcome # "none" <=> at = "done"
  /\ GivesUpOnlyWhenExhausted

\* No provider's exceptions include a verdict.
LEMMA VerdictIsNoException ==
  ASSUME NEW p \in Providers
  PROVE  /\ Exceptions(p) \subseteq Outcomes \ {"none", "enriched", "unusable"}
         /\ Transient(p) \subseteq Exceptions(p)
BY DEF Providers, Exceptions, Transient, Outcomes

\* A request that ends, ends within what a call may take.
LEMMA RequestEnds ==
  ASSUME Paced, at = "request"
  PROVE  /\ now \in Nat /\ now <= Laps(attempts - 1) + CallMax
         /\ now <= Longest
<1> USE ConstantsAssumption
<1>1. attempts - 1 \in 0..(MaxAttempts - 1) /\ now \in Nat /\ timer \in Nat
  BY DEF Paced, TypeOK
<1>2. /\ Laps(attempts - 1) \in Nat /\ Longest \in Nat
      /\ Laps(attempts - 1) + CallMax <= Longest
  BY <1>1, LastLap, NextLap
<1>3. now <= timer + CallMax /\ timer <= Laps(attempts - 1)
  BY DEF Paced
<1> QED
  BY <1>1, <1>2, <1>3

LEMMA InitPaced == Init => Paced
BY ConstantsAssumption, NoLaps, VerdictIsNoException
   DEF Init, Paced, TypeOK, Outcomes, GivesUpOnlyWhenExhausted

LEMMA NextPaced == Paced /\ [Next]_vars => Paced'
<1> USE ConstantsAssumption
<1> SUFFICES ASSUME Paced, [Next]_vars
             PROVE  Paced'
  OBVIOUS
<1>1. CASE UNCHANGED vars
  BY <1>1 DEF vars, Paced, TypeOK, GivesUpOnlyWhenExhausted
<1>2. CASE Call
  <2>1. /\ at' = "request" /\ timer' = now /\ attempts' = 1 /\ now = 0
        /\ UNCHANGED <<now, provider, outcome>> /\ outcome = "none"
    BY <1>2 DEF Call, Send, Paced
  <2>2. TypeOK'
    BY <2>1 DEF Paced, TypeOK
  <2>3. timer' <= Laps(attempts' - 1)
    BY <2>1, NoLaps
  <2>4. GivesUpOnlyWhenExhausted'
    BY <2>1, VerdictIsNoException
       DEF Paced, TypeOK, GivesUpOnlyWhenExhausted
  <2> QED
    BY <2>1, <2>2, <2>3, <2>4 DEF Paced
<1>3. CASE Resend
  <2>1. /\ at' = "request" /\ timer' = now /\ attempts' = attempts + 1
        /\ UNCHANGED <<now, provider, outcome>> /\ outcome = "none"
        /\ timer = now /\ timer <= Laps(attempts) /\ attempts < MaxAttempts
        /\ attempts >= 1
    BY <1>3 DEF Resend, Send, Paced
  <2>2. now \in Nat /\ attempts \in Nat
    BY DEF Paced, TypeOK
  <2>3. TypeOK'
    BY <2>1, <2>2 DEF Paced, TypeOK
  <2>4. attempts' - 1 = attempts
    BY <2>1, <2>2
  <2>5. GivesUpOnlyWhenExhausted'
    BY <2>1, VerdictIsNoException
       DEF Paced, TypeOK, GivesUpOnlyWhenExhausted
  <2> QED
    BY <2>1, <2>2, <2>3, <2>4, <2>5 DEF Paced
<1>4. ASSUME NEW o \in Outcomes \ {"none"}, Finish(o), InFlight,
             o \in Transient(provider) => attempts = MaxAttempts
      PROVE  Paced'
  <2>1. /\ at' = "done" /\ timer' = now /\ outcome' = o
        /\ UNCHANGED <<now, provider, attempts>>
        /\ at = "request"
    BY <1>4 DEF Finish, InFlight
  <2>2. now <= Longest
    BY <2>1, RequestEnds
  <2>3. TypeOK'
    BY <2>1 DEF Paced, TypeOK
  <2>4. GivesUpOnlyWhenExhausted'
    BY <1>4, <2>1 DEF GivesUpOnlyWhenExhausted
  <2> QED
    BY <2>1, <2>2, <2>3, <2>4 DEF Paced
<1>5. CASE Answer
  <2>1. PICK usable \in BOOLEAN : Verdict(usable)
    BY <1>5 DEF Answer, AnthropicUsable, GeminiUsable
  <2>2. PICK o \in {"enriched", "unusable"} : Finish(o)
    BY <2>1 DEF Verdict
  <2>3. o \in Outcomes \ {"none"} /\ o \notin Transient(provider)
    BY VerdictIsNoException DEF Outcomes, Paced, TypeOK
  <2> QED
    BY <1>4, <1>5, <2>2, <2>3 DEF Answer
<1>6. CASE Raise
  <2>1. PICK x \in Exceptions(provider) :
          IF MayRetry(x) THEN Sleep ELSE Finish(x)
    BY <1>6 DEF Raise
  <2>2. InFlight /\ at = "request"
    BY <1>6 DEF Raise, InFlight
  <2>3. x \in Outcomes \ {"none"}
    BY VerdictIsNoException DEF Paced, TypeOK
  <2>4. CASE MayRetry(x)
    <3>1. PICK w \in 0..MaxWait : timer' = now + w
      BY <2>1, <2>4 DEF Sleep, Backoff
    <3>2. /\ at' = "wait"
          /\ UNCHANGED <<now, provider, attempts, outcome>>
          /\ outcome = "none" /\ attempts >= 1 /\ attempts < MaxAttempts
      BY <2>1, <2>2, <2>4 DEF Sleep, MayRetry, Paced
    <3>3. now \in Nat /\ attempts - 1 \in Nat /\ attempts \in Nat
      BY <3>2 DEF Paced, TypeOK
    <3>4. /\ Laps(attempts - 1) \in Nat
          /\ Laps(attempts) = Laps(attempts - 1) + CallMax + MaxWait
      <4>1. Laps((attempts - 1) + 1) = Laps(attempts)
        BY <3>3
      <4> QED
        BY <3>3, <4>1, NextLap
    <3>5. now <= Laps(attempts - 1) + CallMax
      BY <2>2, RequestEnds
    <3>6. timer' \in Nat /\ now' <= timer' /\ timer' <= Laps(attempts')
      BY <3>1, <3>2, <3>3, <3>4, <3>5
    <3>7. TypeOK'
      BY <3>2, <3>6 DEF Paced, TypeOK
    <3>8. GivesUpOnlyWhenExhausted'
      BY <3>2, VerdictIsNoException
         DEF Paced, TypeOK, GivesUpOnlyWhenExhausted
    <3> QED
      BY <3>2, <3>6, <3>7, <3>8 DEF Paced
  <2>5. CASE ~MayRetry(x)
    <3>1. Finish(x)
      BY <2>1, <2>5
    <3>2. x \in Transient(provider) => attempts = MaxAttempts
      BY <2>5 DEF MayRetry, Paced, TypeOK
    <3> QED
      BY <1>4, <2>2, <2>3, <3>1, <3>2
  <2> QED
    BY <2>4, <2>5
<1>7. CASE Tick
  BY <1>7 DEF Tick, Paced, TypeOK, GivesUpOnlyWhenExhausted
<1> QED
  BY <1>1, <1>2, <1>3, <1>5, <1>6, <1>7 DEF Next, Work

\* The bound of the call follows wherever the coroutine stands.
LEMMA PacedIsBounded == Paced => now <= Longest /\ CallBounded
<1> USE ConstantsAssumption
<1> SUFFICES ASSUME Paced
             PROVE  now <= Longest /\ timer <= Longest
  BY DEF CallBounded, Longest
<1>1. /\ now \in Nat /\ timer \in Nat /\ attempts \in Nat
      /\ Longest \in Nat
  BY LastLap DEF Paced, TypeOK
<1>2. CASE at = "idle"
  BY <1>1, <1>2 DEF Paced
<1>3. CASE at = "request"
  BY <1>1, <1>3, RequestEnds DEF Paced
<1>4. CASE at = "wait"
  <2>1. /\ attempts \in 0..(MaxAttempts - 1)
        /\ now <= timer /\ timer <= Laps(attempts)
    BY <1>1, <1>4 DEF Paced
  <2>2. /\ Laps(attempts) \in Nat
        /\ Laps(attempts) + CallMax <= Longest
    BY <2>1, LastLap, NextLap
  <2> QED
    BY <1>1, <2>1, <2>2
<1>5. CASE at = "done"
  BY <1>1, <1>5 DEF Paced
<1> QED
  BY <1>2, <1>3, <1>4, <1>5 DEF Paced, TypeOK

LEMMA PacedInvariant == Spec => []Paced
BY InitPaced, NextPaced, PTL DEF Spec

\* classify_lead lets a transient error through only after
\* stop_after_attempt's last attempt.
THEOREM RetriesToTheLast == Spec => []GivesUpOnlyWhenExhausted
<1>1. Paced => GivesUpOnlyWhenExhausted
  BY DEF Paced
<1> QED
  BY <1>1, PacedInvariant, PTL

\* classify_lead ends within all its requests and the sleeps between them.
THEOREM CallIsBounded == Spec => []CallBounded
BY PacedInvariant, PacedIsBounded, PTL

=============================================================================
