-------------------------- MODULE ApplicationProofs --------------------------
(***************************************************************************)
(* Theorems about Application: about the closes of both programs, about    *)
(* /readyz, and about the window of verify_hmac for every max_age_seconds  *)
(* and every drift.                                                        *)
(***************************************************************************)
EXTENDS Application, TLAPS

StartOrStopStep ==
  Open \/ Serve \/ OpenFails \/ Stop \/ Close \/ CloseFails \/ End

\* The three parts of the state change one at a time.
LEMMA OnePartMoves ==
  ASSUME [ApplicationNext]_applicationVars
  PROVE  \/ UNCHANGED applicationVars
         \/ StartOrStopStep /\ UNCHANGED <<verifyVars, readyVars>>
         \/ /\ \/ BeginProbe \/ CheckRedis \/ CheckDatabase
               \/ \E b \in Backends : BackendFails(b) \/ BackendRecovers(b)
            /\ UNCHANGED <<processVars, verifyVars>>
         \/ /\ \/ Sign \/ Tick
               \/ \E wellFormed, intact \in BOOLEAN :
                    Arrive(wellFormed, intact)
            /\ UNCHANGED <<processVars, readyVars>>
BY DEF ApplicationNext, StartOrStop, ProbeBackends, VerifyDeliveries,
   StartOrStopStep

-----------------------------------------------------------------------------
(* The window.  A delivery that was accepted was inside it, so two such    *)
(* moments are on either side of the timestamp at most.                    *)

InWindow ==
  /\ now \in Nat /\ drift \in Int /\ sentAt \in Int /\ timestamp \in Int
  /\ firstAccepted \in -1..now
  /\ sentAt # -1 => timestamp = ToSecond(sentAt + drift)
  /\ firstAccepted # -1 => ~Expired(firstAccepted - timestamp)
  /\ sentAt = -1 => verdict = "none" /\ firstAccepted = -1
  /\ verdict = "expired" => Expired(now - timestamp)
  /\ verdict = "valid" => firstAccepted # -1 /\ ~Expired(now - timestamp)

\* The cut takes less than a second off.
LEMMA CutsLessThanASecond ==
  ASSUME NEW t \in Int
  PROVE  /\ ToSecond(t) \in Int
         /\ t - ToSecond(t) \in 0..(TicksPerSecond - 1)
<1>1. t % TicksPerSecond \in 0..(TicksPerSecond - 1)
  BY VerifyAssumption
<1> QED
  BY <1>1, VerifyAssumption DEF ToSecond

LEMMA WindowIsInteger == Window \in Int
BY VerifyAssumption DEF Window

LEMMA InWindowInvariant == ApplicationSpec => []InWindow
<1> USE VerifyAssumption
<1>1. ApplicationInit => InWindow
  BY DEF ApplicationInit, VerifyInit, InWindow
<1>2. InWindow /\ [ApplicationNext]_applicationVars => InWindow'
  <2> SUFFICES ASSUME InWindow, [ApplicationNext]_applicationVars
               PROVE  InWindow'
    OBVIOUS
  <2>1. CASE UNCHANGED verifyVars
    BY <2>1 DEF InWindow, verifyVars, Expired
  <2>2. CASE Sign
    BY <2>2, CutsLessThanASecond DEF InWindow, Sign, Expired
  <2>3. CASE Tick
    BY <2>3 DEF InWindow, Tick, Expired
  <2>4. ASSUME NEW w \in BOOLEAN, NEW i \in BOOLEAN, Arrive(w, i)
        PROVE  InWindow'
    <3>1. /\ verdict' = "expired" => Expired(now - timestamp)
          /\ verdict' = "valid" => ~Expired(now - timestamp)
      BY <2>4 DEF Arrive, Verdict
    <3>2. /\ UNCHANGED <<now, drift, sentAt, timestamp>>
          /\ sentAt # -1
          /\ firstAccepted' = IF verdict' = "valid" /\ firstAccepted = -1
                                THEN now ELSE firstAccepted
      BY <2>4 DEF Arrive
    <3> QED
      BY <3>1, <3>2 DEF InWindow, Expired
  <2> QED
    BY <2>1, <2>2, <2>3, <2>4, OnePartMoves DEF applicationVars
<1> QED
  BY <1>1, <1>2, PTL DEF ApplicationSpec

\* However finely the clocks are read, verify_hmac refuses no delivery for its
\* age that is on its way for max_age_seconds less one or shorter, nor one
\* from a clock that is ahead by max_age_seconds or less.
THEOREM ExpiresNothingPunctual == ApplicationSpec => []PunctualIsNotExpired
<1>1. InWindow => PunctualIsNotExpired
  <2> SUFFICES ASSUME InWindow, verdict = "expired",
                      now - (sentAt + drift)
                        \in -Window..(Window - TicksPerSecond)
               PROVE  FALSE
    BY DEF PunctualIsNotExpired
  <2> DEFINE lead == sentAt + drift
             lost == lead - ToSecond(lead)
  <2>1. /\ now \in Int /\ lead \in Int /\ TicksPerSecond \in Int
        /\ timestamp = ToSecond(lead)
        /\ Expired(now - timestamp)
    BY VerifyAssumption DEF InWindow
  <2>2. lost \in 0..(TicksPerSecond - 1) /\ ToSecond(lead) \in Int
    BY <2>1, CutsLessThanASecond
  <2>3. now - timestamp = (now - lead) + lost
    BY <2>1, <2>2
  <2> HIDE DEF lost, lead
  <2>4. now - lead \in -Window..(Window - TicksPerSecond)
    BY DEF lead
  <2> QED
    BY <2>1, <2>2, <2>3, <2>4, WindowIsInteger DEF Expired
<1> QED
  BY <1>1, InWindowInvariant, PTL

\* The window is closed on both sides, which bounds the replays of a delivery
\* whatever timestamp its sender's clock gave it.
THEOREM AcceptsWithinTwoWindows ==
  ApplicationSpec => []AcceptedWithinTwoWindows
<1>1. InWindow => AcceptedWithinTwoWindows
  BY WindowIsInteger DEF InWindow, AcceptedWithinTwoWindows, Expired
<1> QED
  BY <1>1, InWindowInvariant, PTL

-----------------------------------------------------------------------------
(* The probe.  What check_redis returned is still known to be right when   *)
(* check_database returns, of the time in between.                         *)

Probed ==
  /\ always \subseteq up /\ up \subseteq sometime
  /\ sometime \subseteq Backends
  /\ probe = "database" =>
       IF "redis" \in answered
         THEN "redis" \in sometime ELSE "redis" \notin always
  /\ ReadyTellsTheTruth

LEMMA ProbedInvariant == ApplicationSpec => []Probed
<1>1. ApplicationInit => Probed
  BY DEF ApplicationInit, Probed, ReadyTellsTheTruth
<1>2. Probed /\ [ApplicationNext]_applicationVars => Probed'
  <2> SUFFICES ASSUME Probed, [ApplicationNext]_applicationVars
               PROVE  Probed'
    OBVIOUS
  <2> USE DEF Probed, ReadyTellsTheTruth, Backends
  <2>1. CASE UNCHANGED readyVars
    BY <2>1 DEF readyVars
  <2>2. CASE BeginProbe
    BY <2>2 DEF BeginProbe
  <2>3. CASE CheckRedis
    BY <2>3 DEF CheckRedis
  <2>4. CASE CheckDatabase
    <3>1. UNCHANGED <<up, always, sometime>> /\ probe' = "idle"
      BY <2>4 DEF CheckDatabase, Answer
    <3>2. CASE "redis" \in answered /\ "postgres" \in up
      <4>1. response' = 200
        BY <2>4, <3>2 DEF CheckDatabase, Answer
      <4>2. sometime = Backends
        BY <2>4, <3>2 DEF CheckDatabase
      <4> QED
        BY <3>1, <4>1, <4>2
    <3>3. CASE ~("redis" \in answered /\ "postgres" \in up)
      <4>1. response' = 503
        BY <2>4, <3>3 DEF CheckDatabase, Answer
      <4>2. always # Backends
        BY <2>4, <3>3 DEF CheckDatabase
      <4> QED
        BY <3>1, <4>1, <4>2
    <3> QED
      BY <3>2, <3>3
  <2>5. ASSUME NEW b \in Backends, BackendFails(b) \/ BackendRecovers(b)
        PROVE  Probed'
    BY <2>5 DEF BackendFails, BackendRecovers
  <2> QED
    BY <2>1, <2>2, <2>3, <2>4, <2>5, OnePartMoves DEF applicationVars
<1> QED
  BY <1>1, <1>2, PTL DEF ApplicationSpec

\* /readyz is right about the time it took, whatever goes up and down while
\* it asks, and Postgres may have restarted before.
THEOREM ProbesTellTheTruth == ApplicationSpec => []ReadyTellsTheTruth
<1>1. Probed => ReadyTellsTheTruth
  BY DEF Probed
<1> QED
  BY <1>1, ProbedInvariant, PTL

-----------------------------------------------------------------------------
(* Start and stop.                                                         *)

\* What is still to be opened, or to be closed.
Left == {todo[i] : i \in 1..Len(todo)}

\* Where the startup code is: the resources opened so far, and those of them
\* its shutdown code will see.
Starting(opened, seen, rest) ==
  /\ todo = rest /\ open = opened /\ visible = seen

OpenedSoFar ==
  IF kind = "application"
    THEN \/ Starting({}, {}, Opens["application"])
         \/ Starting({"redis"}, {"redis"}, <<"arq_pool", "db_engine">>)
         \/ Starting({"redis", "arq_pool"}, {"redis", "arq_pool"},
                     <<"db_engine">>)
         \/ Starting({"redis", "arq_pool", "db_engine"},
                     {"redis", "arq_pool", "db_engine"}, <<>>)
    ELSE \/ Starting({}, {}, Opens["worker"])
         \/ Starting({"arq_pool"}, {"arq_pool"},
                     <<"db_engine", "llm", "http">>)
         \/ Starting({"arq_pool", "db_engine"}, {"arq_pool"},
                     <<"llm", "http">>)
         \/ Starting({"arq_pool", "db_engine", "llm"}, {"arq_pool", "llm"},
                     <<"http">>)
         \/ Starting({"arq_pool", "db_engine", "llm", "http"},
                     {"arq_pool", "db_engine", "llm", "http"}, <<>>)

\* What is open and not to be closed any more has an excuse.
Excused ==
  IF kind = "application"
    THEN started /\ open \subseteq visible /\ open \subseteq Left \cup failed
    ELSE failed = {} =>
           /\ open \subseteq visible \cup {"db_engine"}
           /\ started => open \subseteq visible
           /\ open \subseteq Left \cup {"db_engine"}
           /\ started => open \subseteq Left

Lived ==
  /\ kind \in Kinds /\ phase \in Phases /\ started \in BOOLEAN
  /\ todo \in Seq(Resources)
  /\ phase = "starting" => OpenedSoFar /\ failed = {} /\ started = FALSE
  /\ phase = "serving" =>
       /\ OpenedSoFar /\ failed = {} /\ started = TRUE /\ todo = <<>>
  /\ phase = "stopping" => Excused
  /\ ClosesAreIndependent /\ WorkerLeavesEngineAtMost

LEMMA HeadOrTail ==
  ASSUME todo \in Seq(Resources), todo # <<>>, todo' = Tail(todo)
  PROVE  /\ Left \subseteq Left' \cup {Head(todo)}
         /\ todo' \in Seq(Resources) /\ Head(todo) \in Resources
<1>1. /\ Len(todo) \in Nat \ {0} /\ Len(todo') = Len(todo) - 1
      /\ Head(todo) = todo[1]
      /\ \A i \in 1..Len(todo') : todo'[i] = todo[i + 1]
  OBVIOUS
<1>2. ASSUME NEW i \in 1..Len(todo), i # 1
      PROVE  todo[i] \in Left'
  <2>1. i - 1 \in 1..Len(todo') /\ todo'[i - 1] = todo[i]
    BY <1>1, <1>2
  <2> QED
    BY <2>1 DEF Left
<1>3. todo' \in Seq(Resources) /\ Head(todo) \in Resources
  OBVIOUS
<1> QED
  BY <1>1, <1>2, <1>3 DEF Left

LEMMA Unwinding ==
  ASSUME NEW a, NEW b, NEW c, NEW d
  PROVE  /\ Head(<<a>>) = a /\ Tail(<<a>>) = <<>>
         /\ Head(<<a, b>>) = a /\ Tail(<<a, b>>) = <<b>>
         /\ Head(<<a, b, c>>) = a /\ Tail(<<a, b, c>>) = <<b, c>>
         /\ Head(<<a, b, c, d>>) = a /\ Tail(<<a, b, c, d>>) = <<b, c, d>>
OBVIOUS

LEMMA Members ==
  ASSUME NEW a, NEW b, NEW c, NEW d
  PROVE  /\ {<<a, b, c>>[i] : i \in 1..Len(<<a, b, c>>)} = {a, b, c}
         /\ {<<a, b, c, d>>[i] : i \in 1..Len(<<a, b, c, d>>)} = {a, b, c, d}
<1>1. Len(<<a, b, c>>) = 3 /\ Len(<<a, b, c, d>>) = 4
  OBVIOUS
<1>2. 1..3 = {1, 2, 3} /\ 1..4 = {1, 2, 3, 4}
  OBVIOUS
<1> QED
  BY <1>1, <1>2

LEMMA Lists ==
  /\ Opens["application"] \in Seq(Resources)
  /\ Opens["worker"] \in Seq(Resources)
  /\ Closes["application"] \in Seq(Resources)
  /\ Closes["worker"] \in Seq(Resources)
<1>1. ASSUME NEW a \in Resources, NEW b \in Resources, NEW c \in Resources,
             NEW d \in Resources
      PROVE  /\ <<a, b, c>> \in Seq(Resources)
             /\ <<a, b, c, d>> \in Seq(Resources)
  OBVIOUS
<1>2. Resources = {"redis", "arq_pool", "db_engine", "llm", "http"}
  BY DEF Resources
<1> QED
  BY <1>1, <1>2 DEF Opens, Closes

\* When nothing is left to be opened, all that was opened is in sight.
LEMMA AllOpened ==
  ASSUME OpenedSoFar, todo = <<>>, kind \in Kinds
  PROVE  /\ open \subseteq visible
         /\ open = IF kind = "worker"
                     THEN {"http", "llm", "db_engine", "arq_pool"}
                     ELSE {"arq_pool", "redis", "db_engine"}
<1>1. \A a, b, c, d : /\ Len(<<a>>) = 1 /\ Len(<<a, b>>) = 2
                      /\ Len(<<a, b, c>>) = 3 /\ Len(<<a, b, c, d>>) = 4
  OBVIOUS
<1>2. Len(todo) = 0
  OBVIOUS
<1>3. CASE kind = "application"
  BY <1>1, <1>2, <1>3 DEF OpenedSoFar, Starting, Opens
<1>4. CASE kind = "worker"
  BY <1>1, <1>2, <1>4 DEF OpenedSoFar, Starting, Opens
<1> QED
  BY <1>3, <1>4 DEF Kinds

LEMMA OpenSteps ==
  ASSUME Lived, Open
  PROVE  OpenedSoFar'
<1> USE Unwinding DEF OpenedSoFar, Starting, Open, VisibleAfter, Opens
<1>0. OpenedSoFar /\ kind' = kind /\ todo # <<>>
  BY DEF Lived
<1>1. CASE kind = "application"
  <2>1. CASE Starting({}, {}, Opens["application"])
    BY <1>0, <1>1, <2>1
  <2>2. CASE Starting({"redis"}, {"redis"}, <<"arq_pool", "db_engine">>)
    BY <1>0, <1>1, <2>2
  <2>3. CASE Starting({"redis", "arq_pool"}, {"redis", "arq_pool"},
                      <<"db_engine">>)
    BY <1>0, <1>1, <2>3
  <2> QED
    BY <1>0, <1>1, <2>1, <2>2, <2>3
<1>2. CASE kind = "worker"
  <2>1. CASE Starting({}, {}, Opens["worker"])
    BY <1>0, <1>2, <2>1
  <2>2. CASE Starting({"arq_pool"}, {"arq_pool"},
                      <<"db_engine", "llm", "http">>)
    BY <1>0, <1>2, <2>2
  <2>3. CASE Starting({"arq_pool", "db_engine"}, {"arq_pool"},
                      <<"llm", "http">>)
    BY <1>0, <1>2, <2>3
  <2>4. CASE Starting({"arq_pool", "db_engine", "llm"}, {"arq_pool", "llm"},
                      <<"http">>)
    BY <1>0, <1>2, <2>4
  <2> QED
    BY <1>0, <1>2, <2>1, <2>2, <2>3, <2>4
<1> QED
  BY <1>1, <1>2 DEF Lived, Kinds

LEMMA LivedInvariant == ApplicationSpec => []Lived
<1>1. ApplicationInit => Lived
  <2> SUFFICES ASSUME ApplicationInit
               PROVE  Lived
    OBVIOUS
  <2>1. todo \in Seq(Resources)
    BY Lists DEF ApplicationInit, LifespanInit, Kinds
  <2> QED
    BY <2>1 DEF ApplicationInit, LifespanInit, Lived, OpenedSoFar, Starting,
       Kinds, Phases, ClosesAreIndependent, WorkerLeavesEngineAtMost
<1>2. Lived /\ [ApplicationNext]_applicationVars => Lived'
  <2> SUFFICES ASSUME Lived, [ApplicationNext]_applicationVars
               PROVE  Lived'
    OBVIOUS
  <2>1. CASE UNCHANGED processVars
    BY <2>1 DEF Lived, processVars, OpenedSoFar, Starting, Excused, Left,
       ClosesAreIndependent, WorkerLeavesEngineAtMost
  <2> USE DEF ClosesAreIndependent, WorkerLeavesEngineAtMost, Phases
  <2>2. CASE Open
    <3>1. OpenedSoFar' /\ todo' \in Seq(Resources)
      BY <2>2, OpenSteps, HeadOrTail DEF Lived, Open
    <3> QED
      BY <2>2, <3>1 DEF Lived, Open
  <2>3. CASE Serve
    <3>1. OpenedSoFar'
      BY <2>3 DEF Lived, Serve, OpenedSoFar, Starting
    <3> QED
      BY <2>3, <3>1 DEF Lived, Serve
  <2>4. CASE OpenFails
    <3>1. CASE kind = "worker" /\ open # {}
      <4>1. /\ todo' \in Seq(Resources)
            /\ Left' = {"http", "llm", "db_engine", "arq_pool"}
        <5>1. todo' = Closes["worker"]
          BY <2>4, <3>1 DEF OpenFails
        <5>2. todo' = <<"http", "llm", "db_engine", "arq_pool">>
          BY <5>1 DEF Closes
        <5> QED
          BY <5>1, <5>2, Lists, Members DEF Left
      <4>2. /\ open \subseteq visible \cup {"db_engine"}
            /\ open \subseteq Left'
        BY <2>4, <3>1, <4>1 DEF Lived, OpenFails, OpenedSoFar, Starting
      <4> QED
        BY <2>4, <3>1, <4>1, <4>2 DEF Lived, OpenFails, Excused
    <3>2. CASE ~(kind = "worker" /\ open # {})
      <4>1. /\ todo' = <<>> /\ phase' = "stopped"
            /\ UNCHANGED <<kind, open, started, failed>>
            /\ started = FALSE /\ kind \in Kinds
        BY <2>4, <3>2 DEF Lived, OpenFails
      <4>2. kind = "worker" => open = {}
        BY <3>2
      <4>3. todo' \in Seq(Resources)
        BY <4>1
      <4> QED
        BY <4>1, <4>2, <4>3 DEF Lived
    <3> QED
      BY <3>1, <3>2
  <2>5. CASE Stop
    <3>1. /\ todo' \in Seq(Resources)
          /\ Left' = IF kind = "worker"
                       THEN {"http", "llm", "db_engine", "arq_pool"}
                       ELSE {"arq_pool", "redis", "db_engine"}
      <4>1. CASE kind = "worker"
        BY <2>5, <4>1, Lists, Members DEF Stop, Closes, Left
      <4>2. CASE kind = "application"
        BY <2>5, <4>2, Lists, Members DEF Stop, Closes, Left
      <4> QED
        BY <4>1, <4>2 DEF Lived, Kinds
    <3>2. open \subseteq visible /\ open \subseteq Left'
      BY <2>5, <3>1, AllOpened DEF Lived, Stop
    <3> QED
      BY <2>5, <3>1, <3>2 DEF Lived, Stop, Excused
  <2>6. CASE Close
    <3>1. /\ Left \subseteq Left' \cup {Head(todo)}
          /\ todo' \in Seq(Resources)
      BY <2>6, HeadOrTail DEF Lived, Close
    <3>2. Excused'
      BY <2>6, <3>1 DEF Lived, Close, Excused
    <3> QED
      BY <2>6, <3>1, <3>2 DEF Lived, Close
  <2>7. CASE CloseFails
    <3>1. CASE kind = "application"
      <4>1. /\ Left \subseteq Left' \cup {Head(todo)}
            /\ todo' \in Seq(Resources)
        BY <2>7, <3>1, HeadOrTail DEF Lived, CloseFails
      <4>2. Excused'
        BY <2>7, <3>1, <4>1 DEF Lived, CloseFails, Excused
      <4> QED
        BY <2>7, <4>1, <4>2 DEF Lived, CloseFails
    <3>2. CASE kind # "application"
      BY <2>7, <3>2 DEF Lived, CloseFails, Excused
    <3> QED
      BY <3>1, <3>2
  <2>8. CASE End
    <3>1. Left = {}
      BY <2>8 DEF End, Left
    <3> QED
      BY <2>8, <3>1 DEF Lived, End, Excused
  <2> QED
    BY <2>1, <2>2, <2>3, <2>4, <2>5, <2>6, <2>7, <2>8, OnePartMoves
       DEF StartOrStopStep, applicationVars
<1> QED
  BY <1>1, <1>2, PTL DEF ApplicationSpec

\* Closing each client in a try block of its own pays off: an application that
\* ran leaks nothing but what its own close did not release.
THEOREM ClosesIndependently == ApplicationSpec => []ClosesAreIndependent
<1>1. Lived => ClosesAreIndependent
  BY DEF Lived
<1> QED
  BY <1>1, LivedInvariant, PTL

\* The guards of _on_shutdown fit what _on_startup has got to: only the
\* engine can be missed.
THEOREM LeavesEngineAtMost == ApplicationSpec => []WorkerLeavesEngineAtMost
<1>1. Lived => WorkerLeavesEngineAtMost
  BY DEF Lived
<1> QED
  BY <1>1, LivedInvariant, PTL

-----------------------------------------------------------------------------
ClockTyped ==
  /\ now \in 0..MaxTime /\ drift \in -MaxDrift..MaxDrift
  /\ sentAt \in -1..now /\ firstAccepted \in -1..now
  /\ timestamp \in Int
  /\ verdict \in {"none", "valid", "invalid", "expired"}

\* The state is well typed in every behaviour.
THEOREM ApplicationTypeCorrect == ApplicationSpec => []ApplicationTypeOK
<1> USE VerifyAssumption
<1>1. ApplicationInit => ApplicationTypeOK
  <2> SUFFICES ASSUME ApplicationInit
               PROVE  ApplicationTypeOK
    OBVIOUS
  <2>1. todo \in Seq(Resources)
    BY Lists DEF ApplicationInit, LifespanInit, Kinds
  <2>2. ClockTyped
    BY DEF ApplicationInit, VerifyInit, ClockTyped
  <2> QED
    BY <2>1, <2>2 DEF ApplicationInit, LifespanInit, ClockTyped,
       ApplicationTypeOK, Kinds, Phases
<1>2. Lived /\ Lived' /\ ApplicationTypeOK
      /\ [ApplicationNext]_applicationVars => ApplicationTypeOK'
  <2> SUFFICES ASSUME Lived, Lived', ApplicationTypeOK,
                      [ApplicationNext]_applicationVars
               PROVE  ApplicationTypeOK'
    OBVIOUS
  <2> USE DEF ApplicationTypeOK
  <2>1. CASE UNCHANGED applicationVars
    BY <2>1 DEF applicationVars, processVars, verifyVars, readyVars
  <2>2. CASE StartOrStopStep /\ UNCHANGED <<verifyVars, readyVars>>
    <3>1. UNCHANGED <<now, drift, sentAt, timestamp, verdict, firstAccepted,
                      up, pooled, probe, answered, response, always, sometime>>
      BY <2>2 DEF verifyVars, readyVars
    <3>2. /\ kind' \in Kinds /\ phase' \in Phases /\ started' \in BOOLEAN
          /\ todo' \in Seq(Resources)
      BY DEF Lived
    <3>3. todo # <<>> => Head(todo) \in Resources
      OBVIOUS
    <3>4. /\ open' \subseteq Resources /\ visible' \subseteq Resources
          /\ failed' \subseteq visible'
      <4>1. CASE Open
        BY <3>3, <4>1 DEF Open, VisibleAfter, Resources
      <4>2. CASE Serve \/ OpenFails \/ Stop \/ End
        BY <4>2 DEF Serve, OpenFails, Stop, End
      <4>3. CASE Close
        BY <4>3 DEF Close
      <4>4. CASE CloseFails
        BY <4>4 DEF CloseFails
      <4> QED
        BY <2>2, <4>1, <4>2, <4>3, <4>4 DEF StartOrStopStep
    <3> QED
      BY <3>1, <3>2, <3>4
  <2>3. ASSUME UNCHANGED <<processVars, verifyVars>>,
               \/ BeginProbe \/ CheckRedis \/ CheckDatabase
               \/ \E b \in Backends : BackendFails(b) \/ BackendRecovers(b)
        PROVE  ApplicationTypeOK'
    <3>1. UNCHANGED <<kind, phase, todo, open, visible, started, failed, now,
                      drift, sentAt, timestamp, verdict, firstAccepted>>
      BY <2>3 DEF processVars, verifyVars
    <3>2. /\ up' \subseteq Backends /\ pooled' \in {"none", "live", "stale"}
          /\ probe' \in {"idle", "redis", "database"}
          /\ answered' \subseteq Backends /\ response' \in {0, 200, 503}
          /\ always' \subseteq up' /\ up' \subseteq sometime'
      <4>1. CASE BeginProbe \/ CheckRedis
        BY <4>1 DEF BeginProbe, CheckRedis
      <4>2. CASE CheckDatabase
        <5>1. /\ response' \in {200, 503} /\ probe' = "idle"
              /\ answered' = {} /\ pooled' \in {"none", "live"}
          BY <4>2 DEF CheckDatabase, Answer
        <5> QED
          BY <4>2, <5>1 DEF CheckDatabase
      <4>3. CASE \E b \in Backends : BackendFails(b) \/ BackendRecovers(b)
        BY <4>3 DEF BackendFails, BackendRecovers
      <4> QED
        BY <2>3, <4>1, <4>2, <4>3
    <3> QED
      BY <3>1, <3>2
  <2>4. ASSUME UNCHANGED <<processVars, readyVars>>,
               \/ Sign \/ Tick
               \/ \E wellFormed, intact \in BOOLEAN :
                    Arrive(wellFormed, intact)
        PROVE  ApplicationTypeOK'
    <3>1. UNCHANGED <<kind, phase, todo, open, visible, started, failed, up,
                      pooled, probe, answered, response, always, sometime>>
      BY <2>4 DEF processVars, readyVars
    <3>2. ClockTyped'
      <4> USE DEF ClockTyped
      <4>1. CASE Sign
        BY <4>1, CutsLessThanASecond DEF Sign
      <4>2. CASE Tick
        BY <4>2 DEF Tick
      <4>3. ASSUME NEW w \in BOOLEAN, NEW i \in BOOLEAN, Arrive(w, i)
            PROVE  ClockTyped'
        BY <4>3 DEF Arrive, Verdict
      <4> QED
        BY <2>4, <4>1, <4>2, <4>3
    <3>3. /\ kind' \in Kinds /\ phase' \in Phases
          /\ todo' \in Seq(Resources) /\ started' \in BOOLEAN
      BY DEF Lived
    <3>4. /\ up' = up /\ pooled' = pooled /\ probe' = probe
          /\ answered' = answered /\ response' = response
          /\ always' = always /\ sometime' = sometime
          /\ open' = open /\ visible' = visible /\ failed' = failed
      BY <3>1
    <3>5. /\ open' \subseteq Resources /\ visible' \subseteq Resources
          /\ failed' \subseteq visible'
      BY <3>4
    <3>6. /\ up' \subseteq Backends /\ pooled' \in {"none", "live", "stale"}
          /\ probe' \in {"idle", "redis", "database"}
          /\ answered' \subseteq Backends /\ response' \in {0, 200, 503}
          /\ always' \subseteq up' /\ up' \subseteq sometime'
      BY <3>4
    <3> QED
      BY <3>2, <3>3, <3>5, <3>6 DEF ClockTyped
  <2> QED
    BY <2>1, <2>2, <2>3, <2>4, OnePartMoves
<1> QED
  BY <1>1, <1>2, LivedInvariant, PTL DEF ApplicationSpec
=============================================================================
