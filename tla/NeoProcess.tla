------------------------------ MODULE NeoProcess ------------------------------
(***************************************************************************)
(* A Neo process: runNeoProcess, the runtime whose durable host it opens   *)
(* and closes, the shutdown a signal starts beside it, the readiness file  *)
(* and the exit disposition.  neo[p] holds the locals of a process: main   *)
(* names the await runNeoProcess is at, shutdown the one performShutdown   *)
(* is at; what each does between two awaits is one step.  Processes are    *)
(* instances: a restart is another process with the same files.            *)
(***************************************************************************)
EXTENDS DurableHost, Naturals
CONSTANTS
    None,
    MaxAttempts    \* NEO_SHUTDOWN_CLOSE_MAX_ATTEMPTS

\* Failure classes.
FailureClasses == {"RUNTIME_FATAL", "SHUTDOWN_TIMEOUT", "PROCESS_LOCK_HELD", "STARTUP", "CONFIGURATION"}

ASSUME NeoAssumption == None \notin Processes \cup FailureClasses /\ MaxAttempts \in Nat \ {0}

VARIABLES
    neo,
    ready    \* the process that ready.json names

neoVars == <<opening, held, neo, ready>>

Mains ==
    { "absent", "remove-stale", "starting", "capturing", "remove-unidentified", "publishing", "published",
      "ready", "remove-again", "joining", "returned", "ended", "crashed" }
Gone == {"ended", "crashed"}
Shutdowns == {"none", "removing", "closing", "sleeping", "stopped", "timed-out"}
Lifecycles == {"new", "starting", "running", "stopping", "stopped", "failed"}

\* The class that wins comes first; None when nothing failed.
Precedence == <<"RUNTIME_FATAL", "SHUTDOWN_TIMEOUT", "PROCESS_LOCK_HELD", "STARTUP", "CONFIGURATION", None>>
Rank(class) == CHOOSE i \in 1 .. 6 : Precedence[i] = class

\* The disposition is read when main returns: what is recorded later is lost.
LastFailureWins(n, class) == IF n.main = "returned" THEN n ELSE [n EXCEPT !.exit = class]    \* mutant
RecordFailure(n, class) ==
    IF n.main # "returned" /\ Rank(class) < Rank(n.exit) THEN [n EXCEPT !.exit = class] ELSE n

FailureClass(opened) ==
    CASE opened = "unavailable" -> "CONFIGURATION"
      [] opened = "lock-held" -> "PROCESS_LOCK_HELD"
      [] OTHER -> "STARTUP"

NoProcess ==
    [ main |-> "absent", shutdown |-> "none", attempts |-> 0, requested |-> FALSE, fatal |-> FALSE,
      lifecycle |-> "new", latch |-> FALSE, owner |-> FALSE, exit |-> None ]

NeoInit ==
    /\ HostInit
    /\ neo = [p \in Processes |-> NoProcess]
    /\ ready = None

Becomes(p, n) == neo' = [neo EXCEPT ![p] = n]
GoTo(n, main) == [n EXCEPT !.main = main]
Main(p) == neo[p].main

----------------------------------------------------------------------------
\* The runtime: closeOwnerIfPresent, and runClose when no start is pending.
\* Nothing is left when it succeeds.
ClosesOwner(p, rest) ==
    \/ neo[p].owner /\ CloseOwner(p, rest)
    \/ ~neo[p].owner /\ rest = {} /\ UNCHANGED held

AfterClose(lifecycle, fatal, rest) ==
    IF lifecycle \in {"new", "stopped"} THEN "stopped"
    ELSE IF fatal \/ lifecycle = "failed" THEN "failed"
    ELSE IF rest = {} THEN "stopped" ELSE "stopping"

ForgetsFailedOwner(n, fatal, rest) ==    \* mutant
    [ n EXCEPT !.owner = @ /\ rest # {} /\ ~fatal, !.lifecycle = AfterClose(@, fatal, rest) ]
Closed(n, fatal, rest) ==
    [ n EXCEPT !.owner = @ /\ rest # {}, !.lifecycle = AfterClose(@, fatal, rest) ]

\* Main's own close is tried once and its result is not looked at.
ClosesAndReturns(p, n) ==
    \E rest \in AfterClosers(held[p]) :
      ClosesOwner(p, rest) /\ Becomes(p, GoTo(Closed(n, FALSE, rest), "returned"))

----------------------------------------------------------------------------
\* runNeoProcess.  Arguments, configuration and keep-alive come first (a call for
\* help starts nothing and is left out); the signal handlers are installed with the
\* step to remove-stale.
Launch(p) ==
    /\ Main(p) = "absent"
    /\ \/ Becomes(p, GoTo(NoProcess, "remove-stale"))
       \/ \E class \in {"CONFIGURATION", "RUNTIME_FATAL"} :
            Becomes(p, GoTo(RecordFailure(NoProcess, class), "returned"))
    /\ UNCHANGED <<opening, held, ready>>

\* A shutdown that came first has left nothing to start.
RemoveStale(p) ==
    /\ Main(p) = "remove-stale"
    /\ ready' = None
    /\ UNCHANGED held
    /\ \/ /\ neo[p].lifecycle = "new"
          /\ StartOpening(p)
          /\ Becomes(p, [GoTo(neo[p], "starting") EXCEPT !.lifecycle = "starting"])
       \/ /\ neo[p].lifecycle # "new"
          /\ Becomes(p, GoTo(neo[p], "remove-again"))
          /\ UNCHANGED opening

StartOpens(p) ==
    /\ Main(p) = "starting" /\ OpenStep(p)
    /\ UNCHANGED <<neo, ready>>

StartFails(p) ==
    /\ Main(p) = "starting" /\ opening[p] \in OpenFailures
    /\ LET failed == [neo[p] EXCEPT !.lifecycle = "failed"]
       IN \/ failed.requested /\ Becomes(p, GoTo(failed, "remove-again"))
          \/ /\ ~failed.requested
             /\ Becomes(p, GoTo(RecordFailure(failed, FailureClass(opening[p])), "remove-again"))
    /\ UNCHANGED <<opening, held, ready>>

\* The close that waits for the start has latched it: the start closes its host.
StartIsAborted(p) ==
    /\ Main(p) = "starting" /\ opening[p] = "open" /\ neo[p].latch
    /\ \E rest \in AfterClosers(held[p]) :
         /\ CloseOwner(p, rest)
         /\ Becomes(p, [GoTo(neo[p], "remove-again") EXCEPT
              !.owner = (rest # {}), !.lifecycle = IF rest = {} THEN "stopped" ELSE "stopping"])
    /\ UNCHANGED <<opening, ready>>

StartSucceeds(p) ==
    /\ Main(p) = "starting" /\ opening[p] = "open" /\ ~neo[p].latch
    /\ LET n == [neo[p] EXCEPT !.owner = TRUE, !.lifecycle = "running"]
       IN Becomes(p, GoTo(n, IF n.requested THEN "joining" ELSE "capturing"))
    /\ UNCHANGED <<opening, held, ready>>

\* captureSelf.
Capture(p) ==
    /\ Main(p) = "capturing"
    /\ \/ Becomes(p, GoTo(neo[p], "publishing"))
       \/ Becomes(p, GoTo(RecordFailure(neo[p], "STARTUP"), "remove-unidentified"))
    /\ UNCHANGED <<opening, held, ready>>

RemoveUnidentified(p) ==
    /\ Main(p) = "remove-unidentified"
    /\ ready' = None
    /\ ClosesAndReturns(p, neo[p])
    /\ UNCHANGED opening

PublishFails(p) ==
    /\ Main(p) = "publishing"
    /\ ClosesAndReturns(p, RecordFailure(neo[p], "STARTUP"))
    /\ UNCHANGED <<opening, ready>>

\* The rename takes effect before main hears of it.
PublishRenames(p) ==
    /\ Main(p) = "publishing"
    /\ ready' = p
    /\ Becomes(p, GoTo(neo[p], "published"))
    /\ UNCHANGED <<opening, held>>

PublishesRegardless(p) ==    \* mutant
    /\ Main(p) = "published"
    /\ Becomes(p, GoTo(neo[p], "ready"))
    /\ UNCHANGED <<opening, held, ready>>
PublishReturns(p) ==
    /\ Main(p) = "published"
    /\ Becomes(p, GoTo(neo[p], IF neo[p].requested THEN "remove-again" ELSE "ready"))
    /\ UNCHANGED <<opening, held, ready>>

ReadyEnds(p) ==
    /\ Main(p) = "ready" /\ neo[p].requested
    /\ Becomes(p, GoTo(neo[p], "joining"))
    /\ UNCHANGED <<opening, held, ready>>

\* A start that failed, or a publication that a shutdown has overtaken.
RemoveAgain(p) ==
    /\ Main(p) = "remove-again"
    /\ ready' = None
    /\ Becomes(p, GoTo(neo[p], IF neo[p].shutdown = "none" THEN "returned" ELSE "joining"))
    /\ UNCHANGED <<opening, held>>

JoinsOnSuccess(p) ==    \* mutant
    /\ Main(p) = "joining" /\ neo[p].shutdown = "stopped"
    /\ Becomes(p, GoTo(neo[p], "returned"))
    /\ UNCHANGED <<opening, held, ready>>
Join(p) ==
    /\ Main(p) = "joining" /\ neo[p].shutdown \in {"stopped", "timed-out"}
    /\ Becomes(p, GoTo(neo[p], "returned"))
    /\ UNCHANGED <<opening, held, ready>>

----------------------------------------------------------------------------
\* The first signal or uncaught error; later ones find shutdownRequested.
Signal(p, fatal) ==
    /\ Main(p) \notin {"absent", "returned"} \cup Gone /\ ~neo[p].requested
    /\ LET n == [neo[p] EXCEPT !.requested = TRUE, !.fatal = fatal, !.shutdown = "removing"]
       IN Becomes(p, IF fatal THEN RecordFailure(n, "RUNTIME_FATAL") ELSE n)
    /\ UNCHANGED <<opening, held, ready>>

\* closeRuntimeWithRetry: what follows an attempt.
Attempted(n, rest) ==
    CASE rest = {} -> [n EXCEPT !.shutdown = "stopped"]
      [] rest # {} /\ n.attempts < MaxAttempts -> [n EXCEPT !.shutdown = "sleeping"]
      [] OTHER -> RecordFailure([n EXCEPT !.shutdown = "timed-out"], "SHUTDOWN_TIMEOUT")

\* A close during the start waits for it; any other is done in one step.
Attempt(p, n) ==
    \/ /\ n.lifecycle = "starting"
       /\ Becomes(p, [n EXCEPT !.shutdown = "closing", !.latch = TRUE])
       /\ UNCHANGED held
    \/ /\ n.lifecycle # "starting"
       /\ \E rest \in AfterClosers(held[p]) :
            ClosesOwner(p, rest) /\ Becomes(p, Attempted(Closed(n, n.fatal, rest), rest))

ShutdownRemoves(p) ==
    /\ neo[p].shutdown = "removing"
    /\ ready' = None
    /\ Attempt(p, [neo[p] EXCEPT !.attempts = 1])
    /\ UNCHANGED opening

CloseResumes(p) ==
    /\ neo[p].shutdown = "closing" /\ neo[p].lifecycle # "starting"
    /\ Attempt(p, neo[p])
    /\ UNCHANGED <<opening, ready>>

SleepEnds(p) ==
    /\ neo[p].shutdown = "sleeping"
    /\ Attempt(p, [neo[p] EXCEPT !.attempts = @ + 1])
    /\ UNCHANGED <<opening, ready>>

----------------------------------------------------------------------------
\* A process that is gone holds nothing: the kernel closes its descriptors.
Leaves(p, how) ==
    /\ Becomes(p, GoTo(NoProcess, how))
    /\ opening' = [opening EXCEPT ![p] = "none"]
    /\ held' = [held EXCEPT ![p] = {}]
    /\ UNCHANGED ready

\* The exit code is set, not forced: a shutdown nobody waits for still ends first.
ProcessEnds(p) ==
    /\ Main(p) = "returned" /\ neo[p].shutdown \notin {"removing", "closing", "sleeping"}
    /\ Leaves(p, "ended")

\* SIGKILL, a power failure, or a signal after the handlers are gone.
Crash(p) == Main(p) \notin {"absent"} \cup Gone /\ Leaves(p, "crashed")

MainStep(p) ==
    \/ RemoveStale(p) \/ StartOpens(p) \/ StartFails(p) \/ StartIsAborted(p) \/ StartSucceeds(p)
    \/ Capture(p) \/ RemoveUnidentified(p) \/ PublishFails(p) \/ PublishRenames(p) \/ PublishReturns(p)
    \/ ReadyEnds(p) \/ RemoveAgain(p) \/ Join(p) \/ ProcessEnds(p)
ShutdownStep(p) == ShutdownRemoves(p) \/ CloseResumes(p) \/ SleepEnds(p)

NeoNext ==
    \E p \in Processes :
      \/ Launch(p) \/ MainStep(p) \/ ShutdownStep(p) \/ Crash(p)
      \/ \E fatal \in BOOLEAN : Signal(p, fatal)

NeoSpec == NeoInit /\ [][NeoNext]_neoVars

\* Files, procfs and the sleep answer; nobody has to launch, signal or kill.
FairNeoSpec ==
    NeoSpec /\ \A p \in Processes : WF_neoVars(MainStep(p)) /\ WF_neoVars(ShutdownStep(p))

----------------------------------------------------------------------------
NeoStates ==
    [ main : Mains, shutdown : Shutdowns, attempts : 0 .. MaxAttempts, requested : BOOLEAN,
      fatal : BOOLEAN, lifecycle : Lifecycles, latch : BOOLEAN, owner : BOOLEAN,
      exit : FailureClasses \cup {None} ]

NeoTypeOK ==
    /\ HostTypeOK
    /\ neo \in [Processes -> NeoStates]
    /\ ready \in Processes \cup {None}

\* ready.json never names a process that has returned, and names one that runs
\* without its host open only while that process is shutting down.
ReadinessIsTrue ==
    \A p \in Processes : ready = p /\ Main(p) # "crashed" =>
      /\ Main(p) \notin {"returned", "ended"}
      /\ neo[p].requested \/ (neo[p].lifecycle = "running" /\ held[p] = Resources)

\* A host that was opened belongs to the runtime until everything is released,
\* through failed closes, fatal ones among them; no shutdown counts as stopped before.
NoHostIsForgotten ==
    \A p \in Processes : opening[p] = "open" /\ Main(p) # "starting" /\ held[p] # {} =>
      neo[p].owner /\ neo[p].shutdown # "stopped"

\* The store has one process, and that process knows it until the store is given back.
StoreHasItsOwner == OneProcessHasTheStore /\ NoHostIsForgotten

\* A process succeeds only if it was asked to stop and has waited for its shutdown;
\* a fatal error is never hidden by what fails after it.
ExitCodeIsHonest ==
    \A p \in Processes : Main(p) = "returned" =>
      /\ neo[p].exit = None => neo[p].requested /\ neo[p].shutdown = "stopped"
      /\ neo[p].fatal => neo[p].exit = "RUNTIME_FATAL"

\* A process that is launched becomes ready or ends, and ends once it is asked to:
\* in the end none is on its way.
Settled(p) == Main(p) \in {"absent"} \cup Gone \/ (Main(p) = "ready" /\ ~neo[p].requested)
ProcessSettles == <>[](\A p \in Processes : Settled(p))

----------------------------------------------------------------------------
(* The status command beside the Neo processes: it reads ready.json, then    *)
(* the boot id and the process the file names, with an await between any two *)
(* of them, once or until a deadline.  A process is identified by its        *)
(* number, its start in clock ticks and its boot: once it is gone its number *)
(* may be free, a zombie's or another process's, and after a reboot another  *)
(* process may have its number and its ticks.  The file is one this version  *)
(* wrote; its exit code follows from the reason.                             *)

VARIABLES
    earlier,    \* the processes of the boot before this one
    status      \* the locals of readNeoStatus, and what its answer is measured by

statusVars == <<earlier, status>>

\* subject is the process of the document, start what its stat line was found to
\* say of the start, served whether the file told the truth when it was read.
NoQuestion ==
    [ at |-> "idle", waits |-> FALSE, subject |-> None, served |-> FALSE, start |-> None, reason |-> None ]

StatusInit == earlier = {} /\ status = NoQuestion

\* A process that runs, and with its host open unless it is shutting down.
Serves(p) == Main(p) \notin Gone /\ (neo[p].requested \/ held[p] = Resources)

At(place) == status.at = place
GoesTo(place) == status' = [status EXCEPT !.at = place]

\* Reasons that end a wait at once.
Invalid == {"readiness-invalid"}

\* What evaluateReadiness found; a wait sleeps on every other reason.
Conclude(reason) ==
    status' = IF reason \in Invalid \cup {"ready"} \/ ~status.waits
              THEN [status EXCEPT !.at = "answered", !.reason = reason]
              ELSE [NoQuestion EXCEPT !.at = "polling", !.waits = TRUE]

----------------------------------------------------------------------------
Ask(waits) ==
    /\ At("idle")
    /\ status' = [status EXCEPT !.at = IF waits THEN "polling" ELSE "looking", !.waits = waits]

\* Between two rounds of waitForReady, the deadline may pass.
Poll == At("polling") /\ GoesTo("looking")
TimeOut ==
    /\ At("polling")
    /\ status' = [status EXCEPT !.at = "answered", !.reason = "readiness-timeout"]

\* readNeoReadinessFile: lstat, then open; the file may be gone or another by then,
\* and what was opened stays what it was.
Look ==
    /\ At("looking")
    /\ \/ ready = None /\ Conclude("readiness-absent")
       \/ ready # None /\ GoesTo("opening")
       \/ Conclude("readiness-invalid")

Open ==
    /\ At("opening")
    /\ \/ ready = None /\ Conclude("readiness-absent")
       \/ /\ ready # None
          /\ status' = [status EXCEPT !.at = "booting", !.subject = ready, !.served = Serves(ready)]
       \/ Conclude("readiness-invalid")

\* verifyNeoReadinessProcessIdentity; a probe may fail at each of its reads.
Unavailable == Conclude("process-identity-unavailable")

SameBoot(p) == p \notin earlier

ReadCurrentBootId ==
    /\ At("booting")
    /\ \/ SameBoot(status.subject) /\ GoesTo("observing")
       \/ ~SameBoot(status.subject) /\ Conclude("process-boot-mismatch")
       \/ Unavailable

\* The start of the process that has the number of p when p is gone.
Strangers(p) == IF p \in earlier THEN {"same", "other"} ELSE {"other"}

ReadStat ==
    LET Finds(start) == status' = [status EXCEPT !.at = "confirming", !.start = start]
    IN /\ At("observing")
       /\ \/ Main(status.subject) \notin Gone /\ Finds("same")
          \/ /\ Main(status.subject) \in Gone
             /\ \/ Conclude("process-absent")
                \/ Conclude("process-zombie")
                \/ \E start \in Strangers(status.subject) : Finds(start)
          \/ Unavailable

NumberOnly == "ready"    \* mutant
Verified ==
    CASE status.start # "same" -> "process-identity-mismatch"
      [] ~SameBoot(status.subject) -> "process-boot-mismatch"
      [] OTHER -> "ready"

\* The boot id is read again before the comparison; the process may be gone by now.
Confirm == At("confirming") /\ (Conclude(Verified) \/ Unavailable)

----------------------------------------------------------------------------
\* The machine starts anew when no process is left, and the question with it; the
\* file stays.  Bound: one reboot.
Reboot ==
    /\ earlier = {} /\ \A p \in Processes : Main(p) \in Gone \cup {"absent"}
    /\ \E p \in Processes : Main(p) \in Gone
    /\ earlier' = {p \in Processes : Main(p) \in Gone}
    /\ status' = NoQuestion

StatusStep ==
    \/ \E waits \in BOOLEAN : Ask(waits)
    \/ Poll \/ TimeOut \/ Look \/ Open \/ ReadCurrentBootId \/ ReadStat \/ Confirm

StatusNext ==
    \/ NeoNext /\ UNCHANGED statusVars
    \/ StatusStep /\ UNCHANGED <<neoVars, earlier>>
    \/ Reboot /\ UNCHANGED neoVars

StatusSpec == NeoInit /\ StatusInit /\ [][StatusNext]_<<neoVars, statusVars>>

----------------------------------------------------------------------------
\* The file, the boot, the process and the answer are read at four moments, and a
\* process may end, be replaced or lose its file between any two.  An answer that
\* it is ready is about a process that ran, with its host open or already shutting
\* down, when its file was read, even if a stranger has its number or a reboot lies
\* between; an answer that the file's process is gone is given of none that runs.
StatusIsTrue ==
    At("answered") =>
      /\ status.reason = "ready" => status.served
      /\ status.reason \in {"process-absent", "process-zombie", "process-identity-mismatch",
                            "process-boot-mismatch"} => Main(status.subject) \in Gone
===============================================================================
