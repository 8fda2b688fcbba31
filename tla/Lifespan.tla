------------------------------ MODULE Lifespan ------------------------------
(***************************************************************************)
(* The life of one process, of the application (_lifespan of main.py) or   *)
(* of the worker (_on_startup and _on_shutdown of tasks.py, called by      *)
(* arq): what it opens one after another, what its shutdown code can see   *)
(* of that, and what it closes.                                            *)
(*                                                                         *)
(* External: arq opens a pool of its own before on_startup, calls          *)
(* on_shutdown also when on_startup has raised, and closes the pool after  *)
(* it unless on_shutdown raises too; it runs no job in between.            *)
(*                                                                         *)
(* Abstractions.  That the shutdown code itself is cancelled is left out:  *)
(* a close raises an Exception, or not.                                    *)
(***************************************************************************)
EXTENDS Sequences

CONSTANT Faults  \* which of the FaultKinds the environment may produce

FaultKinds == {"start_fails", "close_fails"}

ASSUME FaultsAssumption == Faults \subseteq FaultKinds

VARIABLES
  kind,     \* which of the two programs the process runs
  phase,    \* how far it is
  todo,     \* what is still to be opened, or to be closed, in this order
  open,     \* resources opened and not released
  visible,  \* resources the shutdown code has a reference to
  started,  \* has the startup code come to its end
  failed    \* resources whose close raised

processVars == <<kind, phase, todo, open, visible, started, failed>>

Kinds == {"application", "worker"}
Phases == {"starting", "serving", "stopping", "stopped"}
Resources == {"redis", "arq_pool", "db_engine", "llm", "http"}

Opens ==
  [application |-> <<"redis", "arq_pool", "db_engine">>,
   worker |-> <<"arq_pool", "db_engine", "llm", "http">>]

Closes ==
  [application |-> <<"arq_pool", "redis", "db_engine">>,
   worker |-> <<"http", "llm", "db_engine", "arq_pool">>]

LifespanInit ==
  /\ kind \in Kinds
  /\ phase = "starting"
  /\ todo = Opens[kind]
  /\ open = {} /\ visible = {} /\ failed = {}
  /\ started = FALSE

-----------------------------------------------------------------------------
\* Mutant: the engine is never put into ctx.
VisibleWithoutEngine(r) == (visible \cup {r}) \ {"db_engine"}

\* The application's shutdown code begins with the try block, in front of
\* which everything is in scope; the worker's finds in ctx what was put there,
\* the engine last.
VisibleAfter(r) ==
  CASE kind = "worker" /\ r = "db_engine" -> visible
    [] kind = "worker" /\ r = "http" -> visible \cup {"http", "db_engine"}
    [] OTHER -> visible \cup {r}

Open ==
  /\ phase = "starting" /\ todo # <<>>
  /\ open' = open \cup {Head(todo)}
  /\ visible' = VisibleAfter(Head(todo))
  /\ todo' = Tail(todo)
  /\ UNCHANGED <<kind, phase, started, failed>>

Serve ==
  /\ phase = "starting" /\ todo = <<>>
  /\ phase' = "serving"
  /\ started' = TRUE
  /\ UNCHANGED <<kind, todo, open, visible, failed>>

\* An application that cannot start ends in front of its try block; a worker
\* whose on_startup raised is shut down by arq, once arq has its pool.
OpenFails ==
  /\ "start_fails" \in Faults
  /\ phase = "starting" /\ todo # <<>>
  /\ IF kind = "worker" /\ open # {}
       THEN phase' = "stopping" /\ todo' = Closes[kind]
       ELSE phase' = "stopped" /\ todo' = <<>>
  /\ UNCHANGED <<kind, open, visible, started, failed>>

\* The process is told to stop; requests and jobs have ended before.
Stop ==
  /\ phase = "serving"
  /\ phase' = "stopping"
  /\ todo' = Closes[kind]
  /\ UNCHANGED <<kind, open, visible, started, failed>>

\* ctx.get: what is not there is passed over.
Close ==
  /\ phase = "stopping" /\ todo # <<>>
  /\ open' = IF Head(todo) \in visible THEN open \ {Head(todo)} ELSE open
  /\ todo' = Tail(todo)
  /\ UNCHANGED <<kind, phase, visible, started, failed>>

\* Mutant: one try block around the three closes of the application.
CloseFailsAndEnds ==
  /\ "close_fails" \in Faults
  /\ phase = "stopping" /\ todo # <<>> /\ Head(todo) \in visible
  /\ failed' = failed \cup {Head(todo)}
  /\ open' \in {open, open \ {Head(todo)}}
  /\ todo' = <<>>
  /\ UNCHANGED <<kind, phase, visible, started>>

\* Mutant: no `is not None` before a close.
CloseFailsOnNone ==
  /\ "close_fails" \in Faults
  /\ phase = "stopping" /\ todo # <<>>
  /\ failed' = failed \cup {Head(todo)}
  /\ open' \in {open, open \ {Head(todo)}}
  /\ todo' = IF kind = "application" THEN Tail(todo) ELSE <<>>
  /\ UNCHANGED <<kind, phase, visible, started>>

\* A close that raises may have released its resource or not.  The application
\* logs it and closes the others; _on_shutdown ends.
CloseFails ==
  /\ "close_fails" \in Faults
  /\ phase = "stopping" /\ todo # <<>> /\ Head(todo) \in visible
  /\ failed' = failed \cup {Head(todo)}
  /\ open' \in {open, open \ {Head(todo)}}
  /\ todo' = IF kind = "application" THEN Tail(todo) ELSE <<>>
  /\ UNCHANGED <<kind, phase, visible, started>>

End ==
  /\ phase = "stopping" /\ todo = <<>>
  /\ phase' = "stopped"
  /\ UNCHANGED <<kind, todo, open, visible, started, failed>>

-----------------------------------------------------------------------------
(* Properties.                                                             *)

\* main.py: "Close each independently so a failure on one doesn't leak the
\* others": all an application that ran leaves open is what its own close did
\* not release.
ClosesAreIndependent ==
  kind = "application" /\ phase = "stopped" /\ started => open \subseteq failed

\* Unless a close raises, a worker that ran leaves nothing open, and one whose
\* startup failed only the engine, which on_startup puts into ctx last.
WorkerLeavesEngineAtMost ==
  kind = "worker" /\ phase = "stopped" /\ failed = {} =>
    IF started THEN open = {} ELSE open \subseteq {"db_engine"}
=============================================================================
