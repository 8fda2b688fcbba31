---------------------------- MODULE Application -----------------------------
(***************************************************************************)
(* What a process does besides the intake and the worker task: it starts   *)
(* and stops (Lifespan), and while the application serves, it answers      *)
(* GET /readyz and looks at the timestamps of deliveries (Verify).         *)
(*                                                                         *)
(* Abstractions.  A backend that is up answers; /readyz asks it once.  Of  *)
(* the connection pools only that of the engine is modelled: its one idle  *)
(* connection does not outlive a restart of Postgres.  GET /healthz has no *)
(* state and always answers 200.                                           *)
(***************************************************************************)
EXTENDS Lifespan, Verify

VARIABLES
  up,        \* backends that answer
  pooled,    \* the engine's idle connection: none, live or stale
  probe,     \* the check GET /readyz stands at
  answered,  \* backends whose check returned True
  response,  \* of the last probe
  always,    \* backends that were up all the time since the probe began
  sometime   \* backends that were up at some time since then

readyVars == <<up, pooled, probe, answered, response, always, sometime>>
applicationVars == <<processVars, verifyVars, readyVars>>

Backends == {"redis", "postgres"}

ApplicationTypeOK ==
  /\ kind \in Kinds /\ phase \in Phases
  /\ todo \in Seq(Resources)
  /\ open \subseteq Resources /\ visible \subseteq Resources
  /\ started \in BOOLEAN /\ failed \subseteq visible
  /\ now \in 0..MaxTime /\ drift \in -MaxDrift..MaxDrift
  /\ sentAt \in -1..now /\ timestamp \in Int
  /\ verdict \in {"none", "valid", "invalid", "expired"}
  /\ firstAccepted \in -1..now
  /\ up \subseteq Backends /\ pooled \in {"none", "live", "stale"}
  /\ probe \in {"idle", "redis", "database"}
  /\ answered \subseteq Backends /\ response \in {0, 200, 503}
  /\ always \subseteq up /\ up \subseteq sometime

ApplicationInit ==
  /\ LifespanInit /\ VerifyInit
  /\ up \in SUBSET Backends
  /\ pooled = "none" /\ probe = "idle"
  /\ answered = {} /\ response = 0
  /\ always = up /\ sometime = up

-----------------------------------------------------------------------------
(* GET /readyz: its two dependencies one after the other, then the answer. *)

BeginProbe ==
  /\ probe = "idle"
  /\ probe' = "redis"
  /\ response' = 0
  /\ always' = up /\ sometime' = up
  /\ UNCHANGED <<up, pooled, answered>>

CheckRedis ==
  /\ probe = "redis"
  /\ answered' = up \cap {"redis"}
  /\ probe' = "database"
  /\ UNCHANGED <<up, pooled, response, always, sometime>>

Answer(ready) ==
  /\ response' = IF ready THEN 200 ELSE 503
  /\ probe' = "idle"
  /\ answered' = {}

\* Mutant: one backend that answers is enough.
CheckDatabaseOrRedis ==
  /\ probe = "database"
  /\ Answer("redis" \in answered \/ "postgres" \in up)
  /\ pooled' = IF "postgres" \in up THEN "live" ELSE "none"
  /\ UNCHANGED <<up, always, sometime>>

\* Mutant: no pool_pre_ping.
CheckDatabaseOnPooled ==
  /\ probe = "database"
  /\ Answer("redis" \in answered /\ "postgres" \in up /\ pooled # "stale")
  /\ pooled' = IF "postgres" \in up /\ pooled # "stale"
                 THEN "live" ELSE "none"
  /\ UNCHANGED <<up, always, sometime>>

\* SELECT 1, on a connection that pool_pre_ping found alive, or on a new one.
CheckDatabase ==
  /\ probe = "database"
  /\ Answer("redis" \in answered /\ "postgres" \in up)
  /\ pooled' = IF "postgres" \in up THEN "live" ELSE "none"
  /\ UNCHANGED <<up, always, sometime>>

BackendFails(b) ==
  /\ b \in up
  /\ up' = up \ {b}
  /\ always' = always \ {b}
  /\ pooled' = IF b = "postgres" /\ pooled = "live" THEN "stale" ELSE pooled
  /\ UNCHANGED <<probe, answered, response, sometime>>

BackendRecovers(b) ==
  /\ b \notin up
  /\ up' = up \cup {b}
  /\ sometime' = sometime \cup {b}
  /\ UNCHANGED <<pooled, probe, answered, response, always>>

-----------------------------------------------------------------------------
StartOrStop ==
  /\ \/ Open \/ Serve \/ OpenFails
     \/ Stop /\ probe = "idle"
     \/ Close \/ CloseFails \/ End
  /\ UNCHANGED <<verifyVars, readyVars>>

ProbeBackends ==
  /\ kind = "application" /\ phase = "serving"
  /\ \/ BeginProbe \/ CheckRedis \/ CheckDatabase
     \/ \E b \in Backends : BackendFails(b) \/ BackendRecovers(b)
  /\ UNCHANGED <<processVars, verifyVars>>

VerifyDeliveries ==
  /\ kind = "application" /\ phase = "serving"
  /\ \/ Sign \/ Tick
     \/ \E wellFormed, intact \in BOOLEAN : Arrive(wellFormed, intact)
  /\ UNCHANGED <<processVars, readyVars>>

ApplicationNext == StartOrStop \/ ProbeBackends \/ VerifyDeliveries

ApplicationSpec == ApplicationInit /\ [][ApplicationNext]_applicationVars
-----------------------------------------------------------------------------
(* Properties.                                                             *)

\* /readyz: "200 only when Redis and Postgres respond.  Otherwise 503."  The
\* two are asked at different moments, so this is about the whole probe: 503
\* if one of them was down throughout, 200 if none was down in between, also
\* when Postgres has restarted under the pool before.
ReadyTellsTheTruth ==
  /\ response = 200 => sometime = Backends
  /\ response = 503 => always # Backends

=============================================================================
