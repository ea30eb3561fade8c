-------------------------- MODULE NeoProcessProofs --------------------------
(***************************************************************************)
(* Theorems about the Neo process, for any number of instances on one      *)
(* storage root and any number of attempts to close.  ProcessInv says of   *)
(* one process, whatever the others do, how main, its shutdown, the host   *)
(* it opens and the readiness file stand to each other; only the lock is   *)
(* shared.                                                                 *)
(***************************************************************************)
EXTENDS NeoProcess, TLAPS

HostInv(opened, taken) ==
    /\ opened \in {"none", Root} => taken = {}
    /\ opened = Lock => taken = {Root}
    /\ opened = Memory => taken = {Root, Lock}
    /\ Memory \in taken => Lock \in taken
    /\ Lock \in taken => Root \in taken

RunInv(n, opened, taken) ==
    /\ n.lifecycle = "starting" <=> n.main = "starting"
    /\ n.lifecycle = "new" => n.shutdown \in {"none", "removing"}
    /\ n.shutdown = "sleeping" => n.attempts < MaxAttempts
    /\ n.shutdown = "closing" => n.attempts > 0
    /\ n.main \in {"absent", "remove-stale"} => opened = "none"
    /\ n.main = "remove-stale" /\ n.lifecycle # "new" => n.requested
    /\ n.main = "starting" => n.shutdown \in {"none", "removing", "closing"}
    /\ n.main = "starting" /\ opened = "open" => taken = Resources
    /\ opened \in {Root, Lock, Memory} => n.main = "starting"
    /\ n.owner => opened = "open" /\ n.main # "starting"
    /\ opened = "open" /\ n.main # "starting" /\ taken # {} => n.owner /\ n.shutdown # "stopped"

ExitInv(n) ==
    /\ n.requested <=> n.shutdown # "none"
    /\ n.latch => n.requested
    /\ n.fatal => n.exit = "RUNTIME_FATAL"
    /\ n.main = "remove-again" => n.requested \/ n.exit # None
    /\ n.main = "remove-unidentified" => n.exit # None
    /\ n.shutdown = "timed-out" => n.exit # None
    /\ n.main = "returned" /\ n.exit = None => n.shutdown = "stopped"

ReadyInv(n, taken, named) ==
    /\ n.main \in {"capturing", "publishing", "published", "ready"} /\ ~n.requested =>
         n.lifecycle = "running" /\ taken = Resources
    /\ named =>
         \/ n.main \in {"published", "crashed"}
         \/ n.main = "remove-again" /\ n.requested
         \/ n.main = "ready" /\ n.shutdown \in {"none", "removing"}
         \/ n.main = "joining" /\ n.shutdown = "removing"

ProcessInv(n, opened, taken, named) ==
    HostInv(opened, taken) /\ RunInv(n, opened, taken) /\ ExitInv(n) /\ ReadyInv(n, taken, named)

LockIsExclusive == \A p, q \in Processes : p # q => Lock \notin held[p] \cap held[q]

NeoInv ==
    /\ NeoTypeOK
    /\ \A p \in Processes : ProcessInv(neo[p], opening[p], held[p], ready = p)
    /\ LockIsExclusive

\* What a step of one process amounts to for all of them.
Moves(p) ==
    /\ neo' = [neo EXCEPT ![p] = neo'[p]] /\ neo'[p] \in NeoStates
    /\ opening' = [opening EXCEPT ![p] = opening'[p]] /\ opening'[p] \in Openings
    /\ held' = [held EXCEPT ![p] = held'[p]] /\ held'[p] \in SUBSET Resources
    /\ ready' \in {ready, None, p}
    /\ Lock \in held'[p] => Lock \in held[p] \/ LockIsFree
    /\ ProcessInv(neo'[p], opening'[p], held'[p], ready' = p)

\* The others keep what holds of them.
LEMMA MovesKeep ==
    ASSUME NeoInv, NEW p \in Processes, Moves(p)
    PROVE  NeoInv'
<1>1. NeoTypeOK'
  BY NeoAssumption DEF NeoInv, NeoTypeOK, HostTypeOK, Moves
<1>2. ASSUME NEW q \in Processes
      PROVE  ProcessInv(neo'[q], opening'[q], held'[q], ready' = q)
  <2>1. CASE q = p
    BY <2>1 DEF Moves
  <2>2. CASE q # p
    <3>1. neo'[q] = neo[q] /\ opening'[q] = opening[q] /\ held'[q] = held[q]
      BY <2>2 DEF Moves, NeoInv, NeoTypeOK, HostTypeOK
    <3>2. ready' = q => ready = q
      BY <2>2, NeoAssumption DEF Moves
    <3>3. ProcessInv(neo[q], opening[q], held[q], ready = q)
      BY DEF NeoInv
    <3> QED
      BY <3>1, <3>2, <3>3 DEF ProcessInv, ReadyInv
  <2> QED
    BY <2>1, <2>2
<1>3. LockIsExclusive'
  BY DEF NeoInv, NeoTypeOK, HostTypeOK, Moves, LockIsExclusive, LockIsFree
<1> QED
  BY <1>1, <1>2, <1>3 DEF NeoInv

\* What the closers leave of what was taken in order.
LEMMA ClosersKeepOrder ==
    ASSUME NEW taken \in SUBSET Resources, Memory \in taken => Lock \in taken, Lock \in taken => Root \in taken,
           NEW rest \in AfterClosers(taken)
    PROVE  /\ rest \subseteq taken
           /\ Memory \in rest => Lock \in rest
           /\ Lock \in rest => Root \in rest
BY DEF AfterClosers, Resources, Root, Lock, Memory

\* The disposition keeps a failure once it has one, a fatal one for good, and
\* takes one as long as main has not returned.
LEMMA RecordFailureHolds ==
    ASSUME NEW n \in NeoStates, NEW class \in FailureClasses
    PROVE  /\ RecordFailure(n, class) = [n EXCEPT !.exit = RecordFailure(n, class).exit]
           /\ RecordFailure(n, class).exit \in {n.exit, class}
           /\ n.exit = "RUNTIME_FATAL" => RecordFailure(n, class).exit = "RUNTIME_FATAL"
           /\ n.main # "returned" => RecordFailure(n, class).exit # None
           /\ n.main # "returned" /\ class = "RUNTIME_FATAL" => RecordFailure(n, class).exit = "RUNTIME_FATAL"
<1>1. ASSUME NEW other \in FailureClasses \cup {None}
      PROVE  Rank(other) \in 1 .. 6 /\ Precedence[Rank(other)] = other
  <2>1. \E i \in 1 .. 6 : Precedence[i] = other
    <3>1. /\ Precedence[1] = "RUNTIME_FATAL" /\ Precedence[2] = "SHUTDOWN_TIMEOUT"
          /\ Precedence[3] = "PROCESS_LOCK_HELD" /\ Precedence[4] = "STARTUP"
          /\ Precedence[5] = "CONFIGURATION" /\ Precedence[6] = None
      BY DEF Precedence
    <3>2. /\ 1 \in 1 .. 6 /\ 2 \in 1 .. 6 /\ 3 \in 1 .. 6 /\ 4 \in 1 .. 6 /\ 5 \in 1 .. 6 /\ 6 \in 1 .. 6
      OBVIOUS
    <3> QED
      BY <3>1, <3>2 DEF FailureClasses
  <2> QED
    BY <2>1 DEF Rank
<1>2. /\ Precedence[1] = "RUNTIME_FATAL" /\ Precedence[6] = None
      /\ \A i \in 2 .. 6 : Precedence[i] # "RUNTIME_FATAL"
      /\ \A i \in 1 .. 5 : Precedence[i] # None
  <2>1. /\ Precedence[1] = "RUNTIME_FATAL" /\ Precedence[2] = "SHUTDOWN_TIMEOUT"
        /\ Precedence[3] = "PROCESS_LOCK_HELD" /\ Precedence[4] = "STARTUP"
        /\ Precedence[5] = "CONFIGURATION" /\ Precedence[6] = None
    BY DEF Precedence
  <2> QED
    BY <2>1, NeoAssumption DEF FailureClasses
<1>3. ASSUME NEW other \in FailureClasses \cup {None}
      PROVE  /\ other = "RUNTIME_FATAL" <=> Rank(other) = 1
             /\ other = None <=> Rank(other) = 6
  BY <1>1, <1>2, NeoAssumption
<1>4. n.exit \in FailureClasses \cup {None}
  BY DEF NeoStates
<1>5. /\ Rank(n.exit) \in 1 .. 6 /\ Rank(class) \in 1 .. 6
      /\ n.exit = "RUNTIME_FATAL" <=> Rank(n.exit) = 1
      /\ n.exit = None <=> Rank(n.exit) = 6
      /\ class = "RUNTIME_FATAL" <=> Rank(class) = 1
      /\ class # None /\ Rank(class) # 6
  BY <1>1, <1>3, <1>4, NeoAssumption
<1> HIDE DEF FailureClasses
<1> QED
  BY <1>4, <1>5 DEF RecordFailure, NeoStates

LEMMA StepOf ==
    ASSUME NeoInv, NEW p \in Processes
    PROVE  /\ neo[p] \in NeoStates /\ opening[p] \in Openings /\ held[p] \in SUBSET Resources
           /\ ProcessInv(neo[p], opening[p], held[p], ready = p)
           /\ ready # p <=> ~(ready = p)
           /\ \A n : Becomes(p, n) => neo' = [neo EXCEPT ![p] = neo'[p]] /\ neo'[p] = n
           /\ UNCHANGED opening => opening' = [opening EXCEPT ![p] = opening'[p]]
           /\ UNCHANGED held => held' = [held EXCEPT ![p] = held'[p]]
BY DEF NeoInv, NeoTypeOK, HostTypeOK, Becomes

----------------------------------------------------------------------------
\* The steps of main that leave the host alone.
LEMMA NeoMoves ==
    ASSUME NeoInv, NEW p \in Processes, NEW next \in NeoStates, Becomes(p, next), UNCHANGED <<opening, held>>,
           ready' \in {ready, None, p}, RunInv(next, opening[p], held[p]), ExitInv(next),
           ReadyInv(next, held[p], ready' = p)
    PROVE  Moves(p)
BY StepOf DEF Moves, ProcessInv

LEMMA Before ==
    ASSUME NeoInv, NEW p \in Processes
    PROVE  /\ neo[p] \in NeoStates /\ opening[p] \in Openings /\ held[p] \in SUBSET Resources
           /\ HostInv(opening[p], held[p]) /\ RunInv(neo[p], opening[p], held[p]) /\ ExitInv(neo[p])
           /\ ReadyInv(neo[p], held[p], ready = p)
BY StepOf DEF ProcessInv

LEMMA LaunchMoves ==
    ASSUME NeoInv, NEW p \in Processes, Launch(p)
    PROVE  Moves(p)
<1>1. NoProcess \in NeoStates
  BY NeoAssumption DEF NoProcess, NeoStates, Mains, Shutdowns, Lifecycles
<1>2. NoProcess.exit = None /\ NoProcess.main = "absent"
  BY DEF NoProcess
<1>6. opening[p] = "none" /\ held[p] = {} /\ ready # p
  BY Before DEF Launch, Main, RunInv, HostInv, ReadyInv
<1>3. ASSUME NEW exit \in FailureClasses \cup {None}, NEW main \in {"remove-stale", "returned"},
             main = "returned" => exit # None,
             Becomes(p, [NoProcess EXCEPT !.exit = exit, !.main = main])
      PROVE  Moves(p)
  <2> DEFINE next == [NoProcess EXCEPT !.exit = exit, !.main = main]
  <2>1. next \in NeoStates
    BY <1>1, <1>3 DEF NeoStates, Mains
  <2>2. /\ next.main = main /\ next.shutdown = "none" /\ ~next.requested /\ ~next.fatal
        /\ next.lifecycle = "new" /\ ~next.latch /\ ~next.owner /\ next.exit = exit
    BY DEF NoProcess
  <2> HIDE DEF next
  <2>3. RunInv(next, opening[p], held[p])
    BY <1>6, <1>3, <2>2 DEF RunInv, Root, Lock, Memory
  <2>4. ExitInv(next)
    BY <1>3, <2>2 DEF ExitInv
  <2>5. ReadyInv(next, held[p], ready = p)
    BY <1>6, <1>3, <2>2 DEF ReadyInv
  <2> QED
    BY <1>3, <2>1, <2>3, <2>4, <2>5, NeoMoves DEF Launch, next
<1>4. CASE Becomes(p, GoTo(NoProcess, "remove-stale"))
  <2>1. GoTo(NoProcess, "remove-stale") = [NoProcess EXCEPT !.exit = None, !.main = "remove-stale"]
    BY <1>1, <1>2 DEF GoTo, NeoStates
  <2>2. Becomes(p, [NoProcess EXCEPT !.exit = None, !.main = "remove-stale"])
    BY <1>4, <2>1
  <2> QED
    BY <1>3, <2>2
<1>5. ASSUME NEW class \in {"CONFIGURATION", "RUNTIME_FATAL"},
             Becomes(p, GoTo(RecordFailure(NoProcess, class), "returned"))
      PROVE  Moves(p)
  <2> DEFINE exit == RecordFailure(NoProcess, class).exit
  <2>1. RecordFailure(NoProcess, class) = [NoProcess EXCEPT !.exit = exit] /\ exit \in FailureClasses
    BY <1>1, <1>2, RecordFailureHolds DEF FailureClasses
  <2> HIDE DEF exit
  <2>2. GoTo(RecordFailure(NoProcess, class), "returned") = [NoProcess EXCEPT !.exit = exit, !.main = "returned"]
    BY <1>1, <2>1 DEF GoTo, NeoStates
  <2> QED
    BY <1>3, <1>5, <2>1, <2>2, NeoAssumption
<1> QED
  BY <1>4, <1>5 DEF Launch

LEMMA CaptureMoves ==
    ASSUME NeoInv, NEW p \in Processes, Capture(p)
    PROVE  Moves(p)
<1> DEFINE n == neo[p]
<1>1. n \in NeoStates /\ n.main = "capturing"
  BY Before DEF Capture, Main
<1>2. CASE Becomes(p, GoTo(n, "publishing"))
  <2> DEFINE next == [n EXCEPT !.main = "publishing"]
  <2>1. next \in NeoStates /\ Becomes(p, next)
    BY <1>1, <1>2 DEF GoTo, NeoStates, Mains
  <2>2. RunInv(next, opening[p], held[p]) /\ ExitInv(next) /\ ReadyInv(next, held[p], ready = p)
    BY <1>1, Before DEF RunInv, ExitInv, ReadyInv, NeoStates
  <2> QED
    BY <1>1, <2>1, <2>2, NeoMoves DEF Capture
<1>3. CASE Becomes(p, GoTo(RecordFailure(n, "STARTUP"), "remove-unidentified"))
  <2> DEFINE exit == RecordFailure(n, "STARTUP").exit
  <2>1. /\ RecordFailure(n, "STARTUP") = [n EXCEPT !.exit = exit] /\ exit \in {n.exit, "STARTUP"}
        /\ exit # None /\ (n.exit = "RUNTIME_FATAL" => exit = "RUNTIME_FATAL")
    BY <1>1, RecordFailureHolds DEF FailureClasses
  <2> HIDE DEF exit
  <2> DEFINE next == [n EXCEPT !.exit = exit, !.main = "remove-unidentified"]
  <2>2. next \in NeoStates /\ Becomes(p, next)
    BY <1>1, <1>3, <2>1 DEF GoTo, NeoStates, Mains, FailureClasses
  <2>3. RunInv(next, opening[p], held[p]) /\ ExitInv(next) /\ ReadyInv(next, held[p], ready = p)
    BY <1>1, <2>1, Before DEF RunInv, ExitInv, ReadyInv, NeoStates
  <2> QED
    BY <1>1, <2>2, <2>3, NeoMoves DEF Capture
<1> QED
  BY <1>2, <1>3 DEF Capture

LEMMA PublishMoves ==
    ASSUME NeoInv, NEW p \in Processes, PublishRenames(p) \/ PublishReturns(p)
    PROVE  Moves(p)
<1> DEFINE n == neo[p]
<1>1. n \in NeoStates
  BY Before
<1>2. CASE PublishRenames(p)
  <2> DEFINE next == [n EXCEPT !.main = "published"]
  <2>1. next \in NeoStates /\ Becomes(p, next) /\ n.main = "publishing"
    BY <1>1, <1>2 DEF GoTo, NeoStates, Mains, PublishRenames, Main
  <2>2. RunInv(next, opening[p], held[p]) /\ ExitInv(next) /\ ReadyInv(next, held[p], TRUE)
    BY <1>1, <2>1, Before DEF RunInv, ExitInv, ReadyInv, NeoStates
  <2> QED
    BY <1>2, <2>1, <2>2, NeoMoves DEF PublishRenames
<1>3. CASE PublishReturns(p)
  <2> DEFINE next == [n EXCEPT !.main = IF n.requested THEN "remove-again" ELSE "ready"]
  <2>1. next \in NeoStates /\ Becomes(p, next) /\ n.main = "published"
    BY <1>1, <1>3 DEF GoTo, NeoStates, Mains, PublishReturns, Main
  <2>2. RunInv(next, opening[p], held[p]) /\ ExitInv(next)
    BY <1>1, <2>1, Before DEF RunInv, ExitInv, NeoStates
  <2>3. ReadyInv(next, held[p], ready = p)
    BY <1>1, <2>1, Before DEF ReadyInv, ExitInv, NeoStates
  <2> QED
    BY <1>3, <2>1, <2>2, <2>3, NeoMoves DEF PublishReturns
<1> QED
  BY <1>2, <1>3

LEMMA WaitMoves ==
    ASSUME NeoInv, NEW p \in Processes, ReadyEnds(p) \/ RemoveAgain(p) \/ Join(p)
    PROVE  Moves(p)
<1> DEFINE n == neo[p]
<1>1. n \in NeoStates
  BY Before
<1>2. CASE ReadyEnds(p)
  <2> DEFINE next == [n EXCEPT !.main = "joining"]
  <2>1. next \in NeoStates /\ Becomes(p, next) /\ n.main = "ready" /\ n.requested
    BY <1>1, <1>2 DEF GoTo, NeoStates, Mains, ReadyEnds, Main
  <2>2. RunInv(next, opening[p], held[p]) /\ ExitInv(next) /\ ReadyInv(next, held[p], ready = p)
    BY <1>1, <2>1, Before DEF RunInv, ExitInv, ReadyInv, NeoStates
  <2> QED
    BY <1>2, <2>1, <2>2, NeoMoves DEF ReadyEnds
<1>3. CASE RemoveAgain(p)
  <2> DEFINE next == [n EXCEPT !.main = IF n.shutdown = "none" THEN "returned" ELSE "joining"]
  <2>1. next \in NeoStates /\ Becomes(p, next) /\ n.main = "remove-again"
    BY <1>1, <1>3 DEF GoTo, NeoStates, Mains, RemoveAgain, Main
  <2>2. RunInv(next, opening[p], held[p]) /\ ExitInv(next) /\ ReadyInv(next, held[p], FALSE)
    BY <1>1, <2>1, Before DEF RunInv, ExitInv, ReadyInv, NeoStates
  <2>3. ready' = None /\ (ready' = p) = FALSE
    BY <1>3, NeoAssumption DEF RemoveAgain
  <2> QED
    BY <1>3, <2>1, <2>2, <2>3, NeoMoves DEF RemoveAgain
<1>4. CASE Join(p)
  <2> DEFINE next == [n EXCEPT !.main = "returned"]
  <2>1. next \in NeoStates /\ Becomes(p, next) /\ n.main = "joining" /\ n.shutdown \in {"stopped", "timed-out"}
    BY <1>1, <1>4 DEF GoTo, NeoStates, Mains, Join, Main
  <2>2. RunInv(next, opening[p], held[p]) /\ ExitInv(next) /\ ReadyInv(next, held[p], ready = p)
    BY <1>1, <2>1, Before DEF RunInv, ExitInv, ReadyInv, NeoStates
  <2> QED
    BY <1>4, <2>1, <2>2, NeoMoves DEF Join
<1> QED
  BY <1>2, <1>3, <1>4

\* The first signal or uncaught error.
LEMMA SignalMoves ==
    ASSUME NeoInv, NEW p \in Processes, NEW fatal \in BOOLEAN, Signal(p, fatal)
    PROVE  Moves(p)
<1> DEFINE n == neo[p]
           asked == [n EXCEPT !.requested = TRUE, !.fatal = fatal, !.shutdown = "removing"]
<1>1. /\ n \in NeoStates /\ n.main \notin {"absent", "returned", "ended", "crashed"} /\ ~n.requested
  BY Before DEF Signal, Main, Gone
<1>7. Becomes(p, IF fatal THEN RecordFailure(asked, "RUNTIME_FATAL") ELSE asked)
  BY Zenon DEF Signal
<1>8. asked \in NeoStates /\ asked.main = n.main /\ asked.exit = n.exit
  BY <1>1 DEF NeoStates, Shutdowns
<1> DEFINE exit == IF fatal THEN RecordFailure(asked, "RUNTIME_FATAL").exit ELSE n.exit
           next == [n EXCEPT !.requested = TRUE, !.fatal = fatal, !.shutdown = "removing", !.exit = exit]
<1>2. /\ (IF fatal THEN RecordFailure(asked, "RUNTIME_FATAL") ELSE asked) = next
      /\ exit \in FailureClasses \cup {None}
      /\ IF fatal THEN exit = "RUNTIME_FATAL" ELSE exit = n.exit
  <2>1. CASE fatal
    <3> DEFINE recorded == RecordFailure(asked, "RUNTIME_FATAL")
    <3>1. recorded = [asked EXCEPT !.exit = recorded.exit] /\ recorded.exit = "RUNTIME_FATAL"
      BY <1>1, <1>8, RecordFailureHolds DEF FailureClasses
    <3> HIDE DEF recorded
    <3> QED
      BY <1>1, <1>8, <2>1, <3>1 DEF FailureClasses, NeoStates, recorded
  <2>2. CASE ~fatal
    BY <1>1, <2>2 DEF NeoStates
  <2> QED
    BY <2>1, <2>2
<1> HIDE DEF exit
<1>3. next \in NeoStates /\ Becomes(p, next)
  BY <1>1, <1>2, <1>7 DEF NeoStates, Shutdowns
<1> HIDE DEF asked
<1>4. RunInv(next, opening[p], held[p])
  BY <1>1, Before DEF RunInv, ExitInv, NeoStates
<1>6. ExitInv(next)
  BY <1>1, <1>2, Before, NeoAssumption DEF ExitInv, NeoStates, FailureClasses
<1>5. ReadyInv(next, held[p], ready = p)
  BY <1>1, Before DEF ReadyInv, ExitInv, NeoStates
<1> QED
  BY <1>3, <1>4, <1>5, <1>6, NeoMoves DEF Signal

----------------------------------------------------------------------------
\* The steps that open the host.
LEMMA HostMoves ==
    ASSUME NeoInv, NEW p \in Processes, NEW next \in NeoStates, NEW opened \in Openings, NEW taken \in SUBSET Resources,
           neo' = [neo EXCEPT ![p] = next], opening' = [opening EXCEPT ![p] = opened],
           held' = [held EXCEPT ![p] = taken], ready' \in {ready, None, p},
           Lock \in taken => Lock \in held[p] \/ LockIsFree,
           HostInv(opened, taken), RunInv(next, opened, taken), ExitInv(next), ReadyInv(next, taken, ready' = p)
    PROVE  Moves(p)
<1>1. neo'[p] = next /\ opening'[p] = opened /\ held'[p] = taken
  BY DEF NeoInv, NeoTypeOK, HostTypeOK
<1> QED
  BY <1>1 DEF Moves, ProcessInv

LEMMA OpenEndsMoves ==
    ASSUME NeoInv, NEW p \in Processes, neo[p].main = "starting",
           NEW outcome \in {Lock, Memory, "open", "lock-held", "failed"}, NEW rest \in SUBSET Resources,
           OpenEnds(p, outcome, rest), UNCHANGED <<neo, ready>>, HostInv(outcome, rest),
           outcome = "open" => rest = Resources, Lock \in rest => Lock \in held[p] \/ LockIsFree
    PROVE  Moves(p)
<1> DEFINE n == neo[p]
<1>1. neo' = [neo EXCEPT ![p] = n] /\ outcome \in Openings
  BY DEF NeoInv, NeoTypeOK, Openings, Lock, Memory
<1>2. opening' = [opening EXCEPT ![p] = outcome] /\ held' = [held EXCEPT ![p] = rest]
  BY DEF OpenEnds
<1>3. n \in NeoStates /\ ExitInv(n) /\ RunInv(n, outcome, rest) /\ ReadyInv(n, rest, ready = p)
  BY Before DEF RunInv, ReadyInv, Root, Lock, Memory
<1> HIDE DEF n
<1> QED
  BY <1>1, <1>2, <1>3, HostMoves

LEMMA StartOpensMoves ==
    ASSUME NeoInv, NEW p \in Processes, StartOpens(p)
    PROVE  Moves(p)
<1>1. neo[p].main = "starting" /\ UNCHANGED <<neo, ready>> /\ HostInv(opening[p], held[p])
  BY Before DEF StartOpens, Main
<1>2. CASE OpenRoot(p)
  <2>1. ASSUME NEW outcome \in {Lock, "failed"}, NEW rest \in {{}, {Root}}, OpenEnds(p, outcome, rest),
               outcome = Lock => rest = {Root}
        PROVE  Moves(p)
    <3>1. rest \in SUBSET Resources /\ Lock \notin rest /\ HostInv(outcome, rest)
      BY <2>1 DEF HostInv, Resources, Root, Lock, Memory
    <3> QED
      BY <1>1, <2>1, <3>1, OpenEndsMoves DEF Lock
  <2> QED
    BY <1>2, <2>1 DEF OpenRoot, Lock
<1>3. CASE AcquireLock(p)
  <2>1. held[p] = {Root}
    BY <1>1, <1>3 DEF AcquireLock, HostInv
  <2>2. CASE LockIsFree /\ OpenEnds(p, Memory, held[p] \cup {Lock})
    <3>1. held[p] \cup {Lock} \in SUBSET Resources /\ HostInv(Memory, held[p] \cup {Lock})
      BY <2>1 DEF HostInv, Resources, Root, Lock, Memory
    <3> QED
      BY <1>1, <2>2, <3>1, OpenEndsMoves DEF Memory
  <2>3. ASSUME NEW outcome \in {"lock-held", "failed"}, NEW rest \in AfterClosers({Root}), OpenEnds(p, outcome, rest)
        PROVE  Moves(p)
    <3>1. rest \in SUBSET Resources /\ Lock \notin rest /\ HostInv(outcome, rest)
      BY <2>3 DEF HostInv, AfterClosers, Resources, Root, Lock, Memory
    <3> QED
      BY <1>1, <2>3, <3>1, OpenEndsMoves
  <2>4. {} \in AfterClosers({Root})
    BY DEF AfterClosers
  <2> QED
    BY <1>3, <2>1, <2>2, <2>3, <2>4 DEF AcquireLock
<1>4. CASE OpenMemory(p)
  <2>1. held[p] = {Root, Lock}
    BY <1>1, <1>4 DEF OpenMemory, HostInv
  <2>2. ASSUME NEW outcome \in {"open", "failed"}, NEW rest \in AfterClosers(Resources), OpenEnds(p, outcome, rest),
               outcome = "open" => rest = Resources
        PROVE  Moves(p)
    <3>1. rest \in SUBSET Resources /\ Lock \in held[p] /\ HostInv(outcome, rest)
      BY <2>1, <2>2 DEF HostInv, AfterClosers, Resources, Root, Lock, Memory
    <3> QED
      BY <1>1, <2>2, <3>1, OpenEndsMoves
  <2>3. Resources \in AfterClosers(Resources)
    BY DEF AfterClosers
  <2> QED
    BY <1>4, <2>2, <2>3 DEF OpenMemory
<1> QED
  BY <1>2, <1>3, <1>4 DEF StartOpens, OpenStep

LEMMA RemoveStaleMoves ==
    ASSUME NeoInv, NEW p \in Processes, RemoveStale(p)
    PROVE  Moves(p)
<1> DEFINE n == neo[p]
<1>1. n \in NeoStates /\ n.main = "remove-stale" /\ opening[p] = "none" /\ held[p] = {}
  BY Before DEF RemoveStale, Main, RunInv, HostInv
<1>2. ready' = None /\ (ready' = p) = FALSE
  BY NeoAssumption DEF RemoveStale
<1>3. CASE n.lifecycle = "new" /\ StartOpening(p) /\ Becomes(p, [GoTo(n, "starting") EXCEPT !.lifecycle = "starting"])
  <2> DEFINE next == [n EXCEPT !.main = "starting", !.lifecycle = "starting"]
  <2>1. next \in NeoStates /\ neo' = [neo EXCEPT ![p] = next]
    BY <1>1, <1>3 DEF GoTo, NeoStates, Mains, Lifecycles, Becomes
  <2>2. PICK opened \in {Root, "unavailable"} : opening' = [opening EXCEPT ![p] = opened]
    BY <1>3 DEF StartOpening
  <2>3. held' = [held EXCEPT ![p] = {}]
    BY <1>1 DEF RemoveStale, NeoInv, NeoTypeOK, HostTypeOK
  <2>4. opened \in Openings /\ HostInv(opened, {}) /\ RunInv(next, opened, {})
    BY <1>1, <1>3, Before DEF Openings, HostInv, RunInv, NeoStates, Root, Lock, Memory
  <2>5. ExitInv(next) /\ ReadyInv(next, {}, FALSE)
    BY <1>1, Before DEF ExitInv, ReadyInv, NeoStates
  <2> HIDE DEF next
  <2> QED
    BY <1>2, <2>1, <2>2, <2>3, <2>4, <2>5, HostMoves
<1>4. CASE n.lifecycle # "new" /\ Becomes(p, GoTo(n, "remove-again")) /\ UNCHANGED opening
  <2> DEFINE next == [n EXCEPT !.main = "remove-again"]
  <2>1. next \in NeoStates /\ Becomes(p, next)
    BY <1>1, <1>4 DEF GoTo, NeoStates, Mains
  <2>2. RunInv(next, opening[p], held[p]) /\ ExitInv(next) /\ ReadyInv(next, held[p], FALSE)
    BY <1>1, <1>4, Before DEF RunInv, ExitInv, ReadyInv, NeoStates, Root, Lock, Memory
  <2> QED
    BY <1>2, <1>4, <2>1, <2>2, NeoMoves DEF RemoveStale
<1> QED
  BY <1>3, <1>4 DEF RemoveStale

----------------------------------------------------------------------------
\* The steps that close it.
LEMMA ClosesOwnerHolds ==
    ASSUME NeoInv, NEW p \in Processes, neo[p].main # "starting", NEW rest \in AfterClosers(held[p]), ClosesOwner(p, rest)
    PROVE  \E taken \in SUBSET held[p] :
             /\ held' = [held EXCEPT ![p] = taken]
             /\ HostInv(opening[p], taken)
             /\ neo[p].owner => taken = rest
             /\ ~neo[p].owner => taken = held[p] /\ rest = {}
             /\ opening[p] = "open" => taken = rest
<1>1. /\ HostInv(opening[p], held[p]) /\ RunInv(neo[p], opening[p], held[p])
      /\ held[p] \in SUBSET Resources
  BY Before
<1>2. CASE neo[p].owner
  <2>1. held' = [held EXCEPT ![p] = rest]
    BY <1>2 DEF ClosesOwner, CloseOwner
  <2>2. opening[p] = "open"
    BY <1>1, <1>2 DEF RunInv
  <2>3. rest \subseteq held[p] /\ HostInv(opening[p], rest)
    BY <1>1, <2>2, ClosersKeepOrder DEF HostInv, Root, Lock, Memory
  <2> QED
    BY <1>2, <2>1, <2>3
<1>3. CASE ~neo[p].owner
  <2>1. held' = [held EXCEPT ![p] = held[p]] /\ rest = {}
    BY <1>3 DEF ClosesOwner, NeoInv, NeoTypeOK, HostTypeOK
  <2>2. opening[p] = "open" => held[p] = {}
    BY <1>1, <1>3 DEF RunInv
  <2> QED
    BY <1>1, <1>3, <2>1, <2>2
<1> QED
  BY <1>2, <1>3

LEMMA ClosedIs ==
    ASSUME NEW n \in NeoStates, NEW fatal \in BOOLEAN, NEW rest
    PROVE  \E lifecycle \in {"stopped", "stopping", "failed"} :
             Closed(n, fatal, rest) = [n EXCEPT !.owner = n.owner /\ rest # {}, !.lifecycle = lifecycle]
<1>1. AfterClose(n.lifecycle, fatal, rest) \in {"stopped", "stopping", "failed"}
  BY DEF AfterClose
<1> QED
  BY <1>1 DEF Closed

LEMMA ReturnsMoves ==
    ASSUME NeoInv, NEW p \in Processes, neo[p].main \in {"remove-unidentified", "publishing"},
           NEW exit \in FailureClasses, neo[p].exit = "RUNTIME_FATAL" => exit = "RUNTIME_FATAL",
           ClosesAndReturns(p, [neo[p] EXCEPT !.exit = exit]), UNCHANGED opening, ready' \in {ready, None}
    PROVE  Moves(p)
<1> DEFINE n == neo[p]
           failed == [n EXCEPT !.exit = exit]
<1>1. n \in NeoStates /\ failed \in NeoStates
  BY Before DEF NeoStates
<1>2. PICK rest \in AfterClosers(held[p]) :
        ClosesOwner(p, rest) /\ Becomes(p, GoTo(Closed(failed, FALSE, rest), "returned"))
  BY DEF ClosesAndReturns
<1>3. PICK lifecycle \in {"stopped", "stopping", "failed"} :
        Closed(failed, FALSE, rest) = [failed EXCEPT !.owner = failed.owner /\ rest # {}, !.lifecycle = lifecycle]
  BY <1>1, ClosedIs
<1>4. PICK taken \in SUBSET held[p] :
        /\ held' = [held EXCEPT ![p] = taken] /\ HostInv(opening[p], taken)
        /\ n.owner => taken = rest
        /\ ~n.owner => taken = held[p] /\ rest = {}
        /\ opening[p] = "open" => taken = rest
  BY <1>2, ClosesOwnerHolds
<1> DEFINE next == [n EXCEPT !.exit = exit, !.owner = n.owner /\ rest # {}, !.lifecycle = lifecycle, !.main = "returned"]
<1>5. next \in NeoStates /\ neo' = [neo EXCEPT ![p] = next]
  <2>1. next \in NeoStates
    BY <1>1 DEF NeoStates, Mains, Lifecycles
  <2>2. GoTo(Closed(failed, FALSE, rest), "returned") = next
    BY <1>1, <1>3 DEF GoTo, NeoStates
  <2> QED
    BY <1>2, <2>1, <2>2 DEF Becomes
<1>6. RunInv(next, opening[p], taken)
  BY <1>1, <1>4, Before DEF RunInv, NeoStates
<1>7. ExitInv(next)
  BY <1>1, Before, NeoAssumption DEF ExitInv, NeoStates
<1>8. ready' # p /\ (ready' = p) = FALSE
  BY Before, NeoAssumption DEF ReadyInv
<1>9. ReadyInv(next, taken, FALSE)
  BY <1>1 DEF ReadyInv, NeoStates
<1>10. opening' = [opening EXCEPT ![p] = opening[p]] /\ opening[p] \in Openings /\ taken \in SUBSET Resources
  BY <1>4, StepOf
<1> HIDE DEF next
<1> QED
  BY <1>4, <1>5, <1>6, <1>7, <1>8, <1>9, <1>10, HostMoves

LEMMA FailureMoves ==
    ASSUME NeoInv, NEW p \in Processes, RemoveUnidentified(p) \/ PublishFails(p)
    PROVE  Moves(p)
<1> DEFINE n == neo[p]
<1>1. n \in NeoStates
  BY Before
<1>2. CASE RemoveUnidentified(p)
  <2>1. n.main = "remove-unidentified" /\ n.exit \in FailureClasses
    BY <1>1, <1>2, Before DEF RemoveUnidentified, Main, ExitInv, NeoStates
  <2>2. n = [n EXCEPT !.exit = n.exit]
    BY <1>1 DEF NeoStates
  <2> QED
    BY <1>2, <2>1, <2>2, ReturnsMoves DEF RemoveUnidentified
<1>3. CASE PublishFails(p)
  <2>1. n.main = "publishing" /\ ClosesAndReturns(p, RecordFailure(n, "STARTUP")) /\ UNCHANGED <<opening, ready>>
    BY <1>3 DEF PublishFails, Main
  <2> DEFINE exit == RecordFailure(n, "STARTUP").exit
  <2>2. /\ RecordFailure(n, "STARTUP") = [n EXCEPT !.exit = exit] /\ exit \in FailureClasses
        /\ n.exit = "RUNTIME_FATAL" => exit = "RUNTIME_FATAL"
    <3>1. "STARTUP" \in FailureClasses /\ n.exit \in FailureClasses \cup {None}
      BY <1>1 DEF FailureClasses, NeoStates
    <3> QED
      BY <1>1, <2>1, <3>1, RecordFailureHolds
  <2> HIDE DEF exit
  <2> QED
    BY <2>1, <2>2, ReturnsMoves
<1> QED
  BY <1>2, <1>3

LEMMA AttemptMoves ==
    ASSUME NeoInv, NEW p \in Processes, NEW attempts \in 1 .. MaxAttempts,
           neo[p].shutdown \in {"removing", "closing", "sleeping"}, Attempt(p, [neo[p] EXCEPT !.attempts = attempts]),
           UNCHANGED opening, ready' \in {ready, None}, neo[p].shutdown = "removing" => ready' = None
    PROVE  Moves(p)
<1> DEFINE n == neo[p]
           tried == [n EXCEPT !.attempts = attempts]
<1>1. n \in NeoStates /\ tried \in NeoStates /\ tried.lifecycle = n.lifecycle /\ tried.fatal = n.fatal
  BY Before, NeoAssumption DEF NeoStates
<1>2. n.requested /\ opening[p] \in Openings /\ opening' = [opening EXCEPT ![p] = opening[p]]
  BY StepOf, Before DEF ExitInv
<1>3. ready' = p => ready = p /\ n.shutdown # "removing"
  BY NeoAssumption
<1>4. CASE n.lifecycle = "starting"
  <2> DEFINE next == [n EXCEPT !.attempts = attempts, !.shutdown = "closing", !.latch = TRUE]
  <2>1. next \in NeoStates /\ Becomes(p, next) /\ UNCHANGED held
    BY <1>1, <1>4 DEF Attempt, NeoStates, Shutdowns
  <2>2. RunInv(next, opening[p], held[p])
    BY <1>1, <1>4, Before DEF RunInv, NeoStates
  <2>3. ExitInv(next)
    BY <1>1, <1>2, Before DEF ExitInv, RunInv, NeoStates
  <2>4. ReadyInv(next, held[p], ready' = p)
    BY <1>1, <1>2, <1>3, <1>4, Before DEF ReadyInv, RunInv, NeoStates
  <2> HIDE DEF next
  <2> QED
    BY <2>1, <2>2, <2>3, <2>4, NeoMoves
<1>5. CASE n.lifecycle # "starting"
  <2>1. PICK rest \in AfterClosers(held[p]) :
          ClosesOwner(p, rest) /\ Becomes(p, Attempted(Closed(tried, n.fatal, rest), rest))
    BY <1>1, <1>5 DEF Attempt
  <2>2. PICK lifecycle \in {"stopped", "stopping", "failed"} :
          Closed(tried, n.fatal, rest) = [tried EXCEPT !.owner = tried.owner /\ rest # {}, !.lifecycle = lifecycle]
    <3>1. AfterClose(tried.lifecycle, n.fatal, rest) \in {"stopped", "stopping", "failed"}
      BY DEF AfterClose
    <3> HIDE DEF n, tried
    <3> QED
      BY <3>1 DEF Closed
  <2>3. n.main # "starting"
    BY <1>5, Before DEF RunInv
  <2>4. PICK taken \in SUBSET held[p] :
          /\ held' = [held EXCEPT ![p] = taken] /\ HostInv(opening[p], taken)
          /\ n.owner => taken = rest
          /\ ~n.owner => taken = held[p] /\ rest = {}
          /\ opening[p] = "open" => taken = rest
    BY <2>1, <2>3, ClosesOwnerHolds
  <2> DEFINE closed == [n EXCEPT !.attempts = attempts, !.owner = n.owner /\ rest # {}, !.lifecycle = lifecycle]
  <2>5. closed \in NeoStates /\ Closed(tried, n.fatal, rest) = closed
    BY <1>1, <2>2 DEF NeoStates, Lifecycles
  <2>6. PICK shutdown \in {"stopped", "sleeping", "timed-out"}, exit \in FailureClasses \cup {None} :
          /\ Attempted(closed, rest) = [closed EXCEPT !.shutdown = shutdown, !.exit = exit]
          /\ shutdown = "stopped" => rest = {} /\ exit = n.exit
          /\ shutdown = "sleeping" => attempts < MaxAttempts /\ exit = n.exit
          /\ shutdown = "timed-out" =>
               /\ n.exit = "RUNTIME_FATAL" => exit = "RUNTIME_FATAL"
               /\ n.main = "returned" => exit = n.exit
               /\ n.main # "returned" => exit # None
    <3>1. closed.main = n.main /\ closed.exit = n.exit /\ closed.attempts = attempts /\ n.exit \in FailureClasses \cup {None}
      BY <1>1 DEF NeoStates
    <3> HIDE DEF closed
    <3>2. CASE rest = {}
      <4>1. Attempted(closed, rest) = [closed EXCEPT !.shutdown = "stopped", !.exit = n.exit]
        BY <2>5, <3>1, <3>2 DEF Attempted, NeoStates
      <4> QED
        BY <3>1, <3>2, <4>1
    <3>3. CASE rest # {} /\ attempts < MaxAttempts
      <4>1. Attempted(closed, rest) = [closed EXCEPT !.shutdown = "sleeping", !.exit = n.exit]
        BY <2>5, <3>1, <3>3 DEF Attempted, NeoStates
      <4> QED
        BY <3>1, <3>3, <4>1
    <3>4. CASE rest # {} /\ ~(attempts < MaxAttempts)
      <4> DEFINE late == [closed EXCEPT !.shutdown = "timed-out"]
                 exit == RecordFailure(late, "SHUTDOWN_TIMEOUT").exit
      <4>1. late \in NeoStates /\ late.exit = n.exit /\ late.main = n.main /\ "SHUTDOWN_TIMEOUT" \in FailureClasses
        BY <2>5, <3>1 DEF NeoStates, Shutdowns, FailureClasses
      <4>2. Attempted(closed, rest) = RecordFailure(late, "SHUTDOWN_TIMEOUT")
        BY <3>1, <3>4 DEF Attempted
      <4>3. n.main = "returned" => exit = n.exit
        BY <4>1 DEF RecordFailure
      <4> HIDE DEF late
      <4>4. /\ RecordFailure(late, "SHUTDOWN_TIMEOUT") = [late EXCEPT !.exit = exit]
            /\ exit \in {n.exit, "SHUTDOWN_TIMEOUT"}
            /\ n.exit = "RUNTIME_FATAL" => exit = "RUNTIME_FATAL"
            /\ n.main # "returned" => exit # None
        BY <4>1, RecordFailureHolds
      <4> HIDE DEF exit
      <4>5. Attempted(closed, rest) = [closed EXCEPT !.shutdown = "timed-out", !.exit = exit]
        BY <2>5, <4>2, <4>4 DEF NeoStates, late
      <4> QED
        BY <3>1, <4>1, <4>3, <4>4, <4>5
    <3> QED
      BY <3>2, <3>3, <3>4
  <2> DEFINE next == [n EXCEPT !.attempts = attempts, !.owner = n.owner /\ rest # {}, !.lifecycle = lifecycle,
                               !.shutdown = shutdown, !.exit = exit]
  <2>7. next \in NeoStates /\ neo' = [neo EXCEPT ![p] = next]
    <3>1. [closed EXCEPT !.shutdown = shutdown, !.exit = exit] = next
      BY <1>1 DEF NeoStates
    <3>2. [closed EXCEPT !.shutdown = shutdown, !.exit = exit] \in NeoStates
      <4> HIDE DEF closed
      <4> QED
        BY <2>5 DEF NeoStates, Shutdowns
    <3> HIDE DEF closed, next
    <3> QED
      BY <2>1, <2>5, <2>6, <3>1, <3>2 DEF Becomes
  <2>8. RunInv(next, opening[p], taken)
    BY <1>1, <1>2, <1>5, <2>3, <2>4, <2>6, Before DEF RunInv, NeoStates
  <2>9. ExitInv(next)
    BY <1>1, <1>2, <2>6, Before, NeoAssumption DEF ExitInv, NeoStates, FailureClasses
  <2>10. ReadyInv(next, taken, ready' = p)
    BY <1>1, <1>2, <1>3, Before DEF ReadyInv, NeoStates
  <2>11. taken \in SUBSET Resources /\ (Lock \in taken => Lock \in held[p])
    BY <2>4, Before
  <2> HIDE DEF next
  <2> QED
    BY <1>2, <2>4, <2>7, <2>8, <2>9, <2>10, <2>11, HostMoves
<1> QED
  BY <1>4, <1>5

LEMMA ShutdownMoves ==
    ASSUME NeoInv, NEW p \in Processes, ShutdownStep(p)
    PROVE  Moves(p)
<1> DEFINE n == neo[p]
<1>1. n \in NeoStates /\ n.attempts \in 0 .. MaxAttempts /\ MaxAttempts \in Nat \ {0}
  BY Before, NeoAssumption DEF NeoStates
<1>2. CASE ShutdownRemoves(p)
  BY <1>1, <1>2, AttemptMoves DEF ShutdownRemoves
<1>3. CASE CloseResumes(p)
  <2>1. n = [n EXCEPT !.attempts = n.attempts]
    BY <1>1 DEF NeoStates
  <2>2. n.attempts \in 1 .. MaxAttempts
    BY <1>1, <1>3, Before DEF CloseResumes, RunInv
  <2> QED
    BY <1>3, <2>1, <2>2, AttemptMoves DEF CloseResumes
<1>4. CASE SleepEnds(p)
  <2>1. n.attempts + 1 \in 1 .. MaxAttempts
    BY <1>1, <1>4, Before DEF SleepEnds, RunInv
  <2>2. Attempt(p, [n EXCEPT !.attempts = n.attempts + 1])
    BY <1>4 DEF SleepEnds
  <2> QED
    BY <1>4, <2>1, <2>2, AttemptMoves DEF SleepEnds
<1> QED
  BY <1>2, <1>3, <1>4 DEF ShutdownStep

----------------------------------------------------------------------------
\* How a start ends, and how a process leaves.
LEMMA StartFailsMoves ==
    ASSUME NeoInv, NEW p \in Processes, StartFails(p)
    PROVE  Moves(p)
<1> DEFINE n == neo[p]
           failed == [n EXCEPT !.lifecycle = "failed"]
<1>1. n \in NeoStates /\ n.main = "starting" /\ opening[p] \in OpenFailures
  BY Before DEF StartFails, Main
<1>2. failed \in NeoStates /\ failed.main = n.main /\ failed.exit = n.exit /\ failed.requested = n.requested
  BY <1>1 DEF NeoStates, Lifecycles
<1>3. ASSUME NEW exit \in FailureClasses \cup {None}, n.exit = "RUNTIME_FATAL" => exit = "RUNTIME_FATAL",
             n.requested \/ exit # None, n.exit # None => exit # None,
             Becomes(p, [n EXCEPT !.lifecycle = "failed", !.exit = exit, !.main = "remove-again"])
      PROVE  Moves(p)
  <2> DEFINE next == [n EXCEPT !.lifecycle = "failed", !.exit = exit, !.main = "remove-again"]
  <2>1. next \in NeoStates
    BY <1>1 DEF NeoStates, Lifecycles, Mains
  <2>2. RunInv(next, opening[p], held[p])
    BY <1>1, Before DEF RunInv, NeoStates, OpenFailures, Root, Lock, Memory
  <2>3. ExitInv(next)
    BY <1>1, <1>3, Before DEF ExitInv, RunInv, NeoStates
  <2>4. ReadyInv(next, held[p], ready = p)
    BY <1>1, Before DEF ReadyInv, NeoStates
  <2> QED
    BY <1>3, <2>1, <2>2, <2>3, <2>4, NeoMoves DEF StartFails
<1>4. CASE n.requested /\ Becomes(p, GoTo(failed, "remove-again"))
  <2>1. GoTo(failed, "remove-again") = [n EXCEPT !.lifecycle = "failed", !.exit = n.exit, !.main = "remove-again"]
    BY <1>1 DEF GoTo, NeoStates
  <2>2. n.exit \in FailureClasses \cup {None}
    BY <1>1 DEF NeoStates
  <2> HIDE DEF failed
  <2> QED
    BY <1>3, <1>4, <2>1, <2>2
<1>5. CASE Becomes(p, GoTo(RecordFailure(failed, FailureClass(opening[p])), "remove-again"))
  <2> DEFINE recorded == RecordFailure(failed, FailureClass(opening[p]))
             exit == recorded.exit
  <2>1. FailureClass(opening[p]) \in FailureClasses
    BY DEF FailureClass, FailureClasses
  <2> HIDE DEF failed
  <2>2. /\ recorded = [failed EXCEPT !.exit = exit] /\ exit \in {n.exit, FailureClass(opening[p])}
        /\ exit # None /\ (n.exit = "RUNTIME_FATAL" => exit = "RUNTIME_FATAL")
    BY <1>1, <1>2, <2>1, RecordFailureHolds
  <2>3. n.exit \in FailureClasses \cup {None}
    BY <1>1 DEF NeoStates
  <2> HIDE DEF exit, recorded
  <2>4. GoTo(recorded, "remove-again") = [n EXCEPT !.lifecycle = "failed", !.exit = exit, !.main = "remove-again"]
    BY <1>1, <2>2 DEF GoTo, NeoStates, failed
  <2>5. Becomes(p, [n EXCEPT !.lifecycle = "failed", !.exit = exit, !.main = "remove-again"])
    BY <1>5, <2>4 DEF recorded
  <2> QED
    BY <1>3, <2>1, <2>2, <2>3, <2>5
<1>6. \/ n.requested /\ Becomes(p, GoTo(failed, "remove-again"))
      \/ Becomes(p, GoTo(RecordFailure(failed, FailureClass(opening[p])), "remove-again"))
  BY <1>2, Zenon DEF StartFails
<1> QED
  BY <1>4, <1>5, <1>6

LEMMA StartIsAbortedMoves ==
    ASSUME NeoInv, NEW p \in Processes, StartIsAborted(p)
    PROVE  Moves(p)
<1> DEFINE n == neo[p]
<1>1. /\ n \in NeoStates /\ n.main = "starting" /\ opening[p] = "open" /\ n.latch /\ n.requested
      /\ n.shutdown # "stopped" /\ held[p] = Resources
  BY Before DEF StartIsAborted, Main, RunInv, ExitInv
<1>2. PICK rest \in AfterClosers(held[p]) :
        /\ CloseOwner(p, rest)
        /\ Becomes(p, [GoTo(n, "remove-again") EXCEPT
             !.owner = (rest # {}), !.lifecycle = IF rest = {} THEN "stopped" ELSE "stopping"])
  BY DEF StartIsAborted
<1> DEFINE next == [n EXCEPT !.main = "remove-again", !.owner = (rest # {}),
                             !.lifecycle = IF rest = {} THEN "stopped" ELSE "stopping"]
<1>3. next \in NeoStates /\ neo' = [neo EXCEPT ![p] = next]
  <2>1. next \in NeoStates
    BY <1>1 DEF NeoStates, Mains, Lifecycles
  <2>2. [GoTo(n, "remove-again") EXCEPT !.owner = (rest # {}),
          !.lifecycle = IF rest = {} THEN "stopped" ELSE "stopping"] = next
    BY <1>1 DEF GoTo, NeoStates
  <2> QED
    BY <1>2, <2>1, <2>2 DEF Becomes
<1>4. /\ held' = [held EXCEPT ![p] = rest] /\ rest \in SUBSET Resources /\ HostInv(opening[p], rest)
      /\ Lock \in rest => Lock \in held[p]
  <2>1. rest \subseteq held[p] /\ (Memory \in rest => Lock \in rest) /\ (Lock \in rest => Root \in rest)
    BY Before, ClosersKeepOrder DEF HostInv
  <2> QED
    BY <1>1, <1>2, <2>1 DEF CloseOwner, HostInv, Root, Lock, Memory
<1>5. RunInv(next, opening[p], rest)
  BY <1>1, Before DEF RunInv, ExitInv, NeoStates, Root, Lock, Memory
<1>6. ExitInv(next)
  BY <1>1, Before DEF ExitInv, RunInv, NeoStates
<1>7. ReadyInv(next, rest, ready = p)
  BY <1>1, Before DEF ReadyInv, NeoStates
<1>8. opening' = [opening EXCEPT ![p] = opening[p]] /\ opening[p] \in Openings /\ ready' = ready /\ (ready' = p) = (ready = p)
  BY StepOf DEF StartIsAborted
<1> HIDE DEF next
<1> QED
  BY <1>3, <1>4, <1>5, <1>6, <1>7, <1>8, HostMoves

LEMMA StartSucceedsMoves ==
    ASSUME NeoInv, NEW p \in Processes, StartSucceeds(p)
    PROVE  Moves(p)
<1> DEFINE n == neo[p]
           next == [n EXCEPT !.owner = TRUE, !.lifecycle = "running",
                             !.main = IF n.requested THEN "joining" ELSE "capturing"]
<1>1. n \in NeoStates /\ n.main = "starting" /\ opening[p] = "open" /\ held[p] = Resources
  BY Before DEF StartSucceeds, Main, RunInv
<1>2. next \in NeoStates
  BY <1>1 DEF NeoStates, Mains, Lifecycles
<1>3. GoTo([n EXCEPT !.owner = TRUE, !.lifecycle = "running"], IF n.requested THEN "joining" ELSE "capturing") = next
  BY <1>1 DEF GoTo, NeoStates
<1>4. Becomes(p, next)
  <2>1. [n EXCEPT !.owner = TRUE, !.lifecycle = "running"].requested = n.requested
    BY <1>1 DEF NeoStates
  <2> QED
    BY <1>3, <2>1 DEF StartSucceeds
<1>5. RunInv(next, opening[p], held[p])
  BY <1>1, Before DEF RunInv, NeoStates, Root, Lock, Memory
<1>6. ExitInv(next)
  BY <1>1, Before DEF ExitInv, NeoStates
<1>7. ReadyInv(next, held[p], ready = p)
  BY <1>1, Before DEF ReadyInv, NeoStates
<1> HIDE DEF next
<1> QED
  BY <1>2, <1>4, <1>5, <1>6, <1>7, NeoMoves DEF StartSucceeds

LEMMA LeavesMoves ==
    ASSUME NeoInv, NEW p \in Processes, ProcessEnds(p) \/ Crash(p)
    PROVE  Moves(p)
<1> DEFINE n == neo[p]
<1>1. PICK how \in Gone : Leaves(p, how) /\ (how = "ended" => ready # p)
  BY Before DEF ProcessEnds, Crash, Gone, Main, ReadyInv
<1> DEFINE next == [NoProcess EXCEPT !.main = how]
<1>2. next \in NeoStates /\ neo' = [neo EXCEPT ![p] = next]
  <2>1. next \in NeoStates
    <3>1. NoProcess \in NeoStates
      BY NeoAssumption DEF NoProcess, NeoStates, Mains, Shutdowns, Lifecycles
    <3> QED
      BY <3>1 DEF NeoStates, Mains, Gone
  <2> QED
    BY <1>1, <2>1 DEF Leaves, GoTo, Becomes
<1>3. /\ next.main = how /\ next.shutdown = "none" /\ ~next.requested /\ ~next.fatal
      /\ next.lifecycle = "new" /\ ~next.latch /\ ~next.owner /\ next.exit = None
  BY DEF NoProcess
<1>4. /\ opening' = [opening EXCEPT ![p] = "none"] /\ held' = [held EXCEPT ![p] = {}]
      /\ ready' = ready /\ (ready' = p) = (ready = p)
  BY <1>1 DEF Leaves
<1>5. how \in {"ended", "crashed"}
  BY DEF Gone
<1> HIDE DEF next
<1>6. HostInv("none", {}) /\ RunInv(next, "none", {}) /\ ExitInv(next) /\ ReadyInv(next, {}, ready = p)
  BY <1>1, <1>3, <1>5 DEF HostInv, RunInv, ExitInv, ReadyInv, Root, Lock, Memory
<1> QED
  BY <1>2, <1>4, <1>6, HostMoves DEF Openings

----------------------------------------------------------------------------
LEMMA InitHolds ==
    ASSUME NeoInit
    PROVE  NeoInv
<1>1. NoProcess \in NeoStates
  BY NeoAssumption DEF NoProcess, NeoStates, Mains, Shutdowns, Lifecycles
<1>2. NeoTypeOK
  BY <1>1 DEF NeoInit, HostInit, NeoTypeOK, HostTypeOK, Openings
<1>3. ASSUME NEW p \in Processes
      PROVE  ProcessInv(neo[p], opening[p], held[p], ready = p)
  <2>1. neo[p] = NoProcess /\ opening[p] = "none" /\ held[p] = {} /\ ready # p
    BY NeoAssumption DEF NeoInit, HostInit
  <2>2. /\ NoProcess.main = "absent" /\ NoProcess.shutdown = "none" /\ ~NoProcess.requested /\ ~NoProcess.fatal
        /\ NoProcess.lifecycle = "new" /\ ~NoProcess.latch /\ ~NoProcess.owner
    BY DEF NoProcess
  <2> QED
    BY <2>1, <2>2 DEF ProcessInv, HostInv, RunInv, ExitInv, ReadyInv, Root, Lock, Memory
<1>4. LockIsExclusive
  BY DEF NeoInit, HostInit, LockIsExclusive
<1> QED
  BY <1>2, <1>3, <1>4 DEF NeoInv

StepOfOne(p) ==
    \/ Launch(p) \/ MainStep(p) \/ ShutdownStep(p) \/ Crash(p)
    \/ \E fatal \in BOOLEAN : Signal(p, fatal)

LEMMA StepsMove ==
    ASSUME NeoInv, NEW p \in Processes, StepOfOne(p)
    PROVE  Moves(p)
<1>1. CASE Launch(p)
  BY <1>1, LaunchMoves
<1>2. CASE MainStep(p)
  <2>1. CASE RemoveStale(p)
    BY <2>1, RemoveStaleMoves
  <2>2. CASE StartOpens(p)
    BY <2>2, StartOpensMoves
  <2>3. CASE StartFails(p)
    BY <2>3, StartFailsMoves
  <2>4. CASE StartIsAborted(p)
    BY <2>4, StartIsAbortedMoves
  <2>5. CASE StartSucceeds(p)
    BY <2>5, StartSucceedsMoves
  <2>6. CASE Capture(p)
    BY <2>6, CaptureMoves
  <2>7. CASE RemoveUnidentified(p) \/ PublishFails(p)
    BY <2>7, FailureMoves
  <2>8. CASE PublishRenames(p) \/ PublishReturns(p)
    BY <2>8, PublishMoves
  <2>9. CASE ReadyEnds(p) \/ RemoveAgain(p) \/ Join(p)
    BY <2>9, WaitMoves
  <2>10. CASE ProcessEnds(p)
    BY <2>10, LeavesMoves
  <2> QED
    BY <1>2, <2>1, <2>2, <2>3, <2>4, <2>5, <2>6, <2>7, <2>8, <2>9, <2>10 DEF MainStep
<1>3. CASE ShutdownStep(p)
  BY <1>3, ShutdownMoves
<1>4. CASE Crash(p)
  BY <1>4, LeavesMoves
<1>5. CASE \E fatal \in BOOLEAN : Signal(p, fatal)
  BY <1>5, SignalMoves
<1> QED
  BY <1>1, <1>2, <1>3, <1>4, <1>5 DEF StepOfOne

LEMMA StepHolds ==
    ASSUME NeoInv, [NeoNext]_neoVars
    PROVE  NeoInv'
<1>1. CASE NeoNext
  <2>1. PICK p \in Processes : StepOfOne(p)
    BY <1>1 DEF NeoNext, StepOfOne
  <2> QED
    BY <2>1, StepsMove, MovesKeep
<1>2. CASE UNCHANGED neoVars
  BY <1>2 DEF neoVars, NeoInv, NeoTypeOK, HostTypeOK, ProcessInv, HostInv, RunInv, ExitInv, ReadyInv, LockIsExclusive
<1> QED
  BY <1>1, <1>2

\* The inductive invariant holds in every reachable state.
LEMMA NeoInvHolds == NeoSpec => []NeoInv
<1>1. NeoInit => NeoInv
  BY InitHolds
<1>2. NeoInv /\ [NeoNext]_neoVars => NeoInv'
  BY StepHolds
<1> QED
  BY <1>1, <1>2, PTL DEF NeoSpec

----------------------------------------------------------------------------
\* Whatever its awaits end with, a process is in one of the states the types of
\* run-neo-process.ts, create-neo-runtime.ts and the durable host allow.
THEOREM NeoIsTyped == NeoSpec => []NeoTypeOK
<1>1. NeoInv => NeoTypeOK
  BY DEF NeoInv
<1> QED
  BY <1>1, NeoInvHolds, PTL

\* However many instances are launched on one storage root, killed, and however
\* opening, rolling back and closing fail: the database is open in one of them at
\* most and only under the lock, and the lock is held only in an open root.
THEOREM StoreHasOneProcess == NeoSpec => []OneProcessHasTheStore
<1>1. NeoInv => OneProcessHasTheStore
  BY DEF NeoInv, ProcessInv, HostInv, LockIsExclusive, OneProcessHasTheStore
<1> QED
  BY <1>1, NeoInvHolds, PTL

LEMMA ReadinessFollows == NeoInv => ReadinessIsTrue
<1>1. ASSUME NeoInv, NEW p \in Processes, ready = p, Main(p) # "crashed"
      PROVE  /\ Main(p) \notin {"returned", "ended"}
             /\ neo[p].requested \/ (neo[p].lifecycle = "running" /\ held[p] = Resources)
  BY <1>1, Before DEF ReadyInv, ExitInv, Main
<1> QED
  BY <1>1 DEF ReadinessIsTrue

\* ready.json never names a process that returned, and one whose host is not open
\* only while that process is shutting down, whichever await of main a signal, the
\* attempts to close and the other instances fall into.
THEOREM ReadinessStaysTrue == NeoSpec => []ReadinessIsTrue
BY ReadinessFollows, NeoInvHolds, PTL

\* A host that was opened stays with the runtime until each of its resources is
\* released, for any number of failed attempts, fatal ones among them, and no
\* shutdown reports stopped before.
THEOREM HostsAreRemembered == NeoSpec => []NoHostIsForgotten
<1>1. NeoInv => NoHostIsForgotten
  BY DEF NeoInv, ProcessInv, RunInv, Main, NoHostIsForgotten
<1> QED
  BY <1>1, NeoInvHolds, PTL

\* runNeoProcess returns success only after a requested shutdown that succeeded,
\* and RUNTIME_FATAL after every fatal error, whatever fails beside it.
THEOREM ExitCodesAreHonest == NeoSpec => []ExitCodeIsHonest
<1>1. ASSUME NeoInv, NEW p \in Processes, Main(p) = "returned"
      PROVE  /\ neo[p].exit = None => neo[p].requested /\ neo[p].shutdown = "stopped"
             /\ neo[p].fatal => neo[p].exit = "RUNTIME_FATAL"
  BY <1>1, Before DEF ExitInv, Main
<1>2. NeoInv => ExitCodeIsHonest
  BY <1>1 DEF ExitCodeIsHonest
<1> QED
  BY <1>2, NeoInvHolds, PTL

\* The open database has one process, the holder of the lock, and that process
\* does not forget it before everything is given back.
THEOREM StoreAlwaysHasItsOwner == NeoSpec => []StoreHasItsOwner
<1>1. OneProcessHasTheStore /\ NoHostIsForgotten => StoreHasItsOwner
  BY DEF StoreHasItsOwner
<1> QED
  BY <1>1, StoreHasOneProcess, HostsAreRemembered, PTL

----------------------------------------------------------------------------
\* The status command.  What its locals remember of the process it asks about,
\* however long each of its awaits takes; what is gone no step brings back.
StatusReasons ==
    { "ready", "readiness-invalid", "readiness-timeout", "readiness-absent", "process-identity-unavailable",
      "process-boot-mismatch", "process-absent", "process-zombie", "process-identity-mismatch" }

StatusStates ==
    [ at : {"idle", "polling", "looking", "opening", "booting", "observing", "confirming", "answered"},
      waits : BOOLEAN, subject : Processes \cup {None}, served : BOOLEAN,
      start : {"same", "other", None}, reason : StatusReasons \cup {None} ]

IsGone(p) == p \in Processes /\ Main(p) \in Gone

KnowsItsSubject ==
    status.at \in {"booting", "observing", "confirming"} =>
      status.subject \in Processes /\ (~IsGone(status.subject) => status.served)

ComparesWhatItFound ==
    At("confirming") =>
      /\ status.start = "same" /\ SameBoot(status.subject) => status.served
      /\ status.start # "same" => IsGone(status.subject)

AnswersWhatItFound ==
    At("answered") =>
      /\ status.reason = "ready" => status.served
      /\ status.reason \in {"process-absent", "process-zombie", "process-identity-mismatch",
                            "process-boot-mismatch"} => IsGone(status.subject)

StatusInv ==
    /\ status \in StatusStates
    /\ \A p \in earlier : IsGone(p)
    /\ KnowsItsSubject /\ ComparesWhatItFound /\ AnswersWhatItFound

\* An attempt to close changes the record of a process, never where main is.
LEMMA AttemptLeavesMain ==
    ASSUME NeoInv, NEW p \in Processes, NEW n \in NeoStates, n.main = neo[p].main, Attempt(p, n)
    PROVE  Main(p)' = Main(p)
<1>1. \A m : Becomes(p, m) => Main(p)' = m.main
  BY DEF Becomes, Main, NeoInv, NeoTypeOK
<1>2. CASE n.lifecycle = "starting"
  <2> DEFINE next == [n EXCEPT !.shutdown = "closing", !.latch = TRUE]
  <2>1. Becomes(p, next) /\ next.main = n.main
    BY <1>2 DEF Attempt, NeoStates
  <2> QED
    BY <1>1, <2>1 DEF Main
<1>3. CASE n.lifecycle # "starting"
  <2>1. PICK rest \in AfterClosers(held[p]) : Becomes(p, Attempted(Closed(n, n.fatal, rest), rest))
    BY <1>3 DEF Attempt
  <2> DEFINE lifecycle == AfterClose(n.lifecycle, n.fatal, rest)
             closed == [n EXCEPT !.owner = n.owner /\ rest # {}, !.lifecycle = lifecycle]
             timedOut == [closed EXCEPT !.shutdown = "timed-out"]
  <2>2. lifecycle \in Lifecycles
    BY DEF AfterClose, Lifecycles
  <2> HIDE DEF lifecycle
  <2>3. closed \in NeoStates /\ closed.main = n.main
    BY <2>2 DEF NeoStates
  <2>4. Closed(n, n.fatal, rest) = closed
    BY DEF Closed, lifecycle, NeoStates
  <2> HIDE DEF closed
  <2>5. timedOut \in NeoStates /\ timedOut.main = n.main
    BY <2>3 DEF NeoStates, Shutdowns
  <2>6. RecordFailure(timedOut, "SHUTDOWN_TIMEOUT").main = n.main
    <3> HIDE DEF timedOut
    <3> QED
      BY <2>5, RecordFailureHolds DEF FailureClasses, NeoStates
  <2>7. Attempted(closed, rest).main = n.main
    BY <2>3, <2>6 DEF Attempted, NeoStates
  <2> QED
    BY <1>1, <2>1, <2>4, <2>7 DEF Main
<1> QED
  BY <1>2, <1>3

LEMMA GoneStays ==
    ASSUME NeoInv, [NeoNext]_neoVars, NEW p \in Processes, IsGone(p)
    PROVE  IsGone(p)'
<1>1. CASE UNCHANGED neoVars
  BY <1>1 DEF IsGone, Main, neoVars
<1>2. ASSUME NEW q \in Processes, StepOfOne(q), q # p
      PROVE  IsGone(p)'
  BY <1>2, StepsMove DEF Moves, IsGone, Main, NeoInv, NeoTypeOK
<1>3. ASSUME StepOfOne(p)
      PROVE  IsGone(p)'
  <2>1. ~Launch(p) /\ ~Crash(p) /\ \A fatal \in BOOLEAN : ~Signal(p, fatal)
    BY DEF Launch, Crash, Signal, IsGone, Gone
  <2>2. ~MainStep(p)
    BY DEF MainStep, RemoveStale, StartOpens, StartFails, StartIsAborted, StartSucceeds, Capture,
           RemoveUnidentified, PublishFails, PublishRenames, PublishReturns, ReadyEnds, RemoveAgain, Join,
           ProcessEnds, IsGone, Gone
  <2>3. neo[p] \in NeoStates /\ MaxAttempts \in Nat \ {0} /\ neo[p].attempts \in 0 .. MaxAttempts
    BY Before, NeoAssumption DEF NeoStates
  <2>4. \E n \in NeoStates : n.main = neo[p].main /\ Attempt(p, n)
    <3>1. CASE ShutdownRemoves(p)
      <4> DEFINE n == [neo[p] EXCEPT !.attempts = 1]
      <4>1. n \in NeoStates /\ n.main = neo[p].main /\ Attempt(p, n)
        BY <2>3, <3>1 DEF ShutdownRemoves, NeoStates
      <4> QED
        BY <4>1
    <3>2. CASE CloseResumes(p)
      BY <2>3, <3>2 DEF CloseResumes
    <3>3. CASE SleepEnds(p)
      <4> DEFINE n == [neo[p] EXCEPT !.attempts = @ + 1]
      <4>1. neo[p].attempts + 1 \in 0 .. MaxAttempts
        BY <2>3, <3>3, Before DEF SleepEnds, RunInv
      <4>2. n \in NeoStates /\ n.main = neo[p].main /\ Attempt(p, n)
        BY <2>3, <3>3, <4>1 DEF SleepEnds, NeoStates
      <4> QED
        BY <4>2
    <3> QED
      BY <1>3, <2>1, <2>2, <3>1, <3>2, <3>3 DEF StepOfOne, ShutdownStep
  <2> QED
    BY <2>4, AttemptLeavesMain DEF IsGone
<1> QED
  BY <1>1, <1>2, <1>3 DEF NeoNext, StepOfOne

----------------------------------------------------------------------------
LEMMA ConcludeAnswers ==
    ASSUME status \in StatusStates, NEW reason \in StatusReasons, Conclude(reason)
    PROVE  /\ status' \in StatusStates
           /\ status'.at \in {"answered", "polling"}
           /\ status'.at = "answered" =>
                status'.reason = reason /\ status'.served = status.served /\ status'.subject = status.subject
BY DEF Conclude, StatusStates, NoQuestion

LEMMA StatusStepHolds ==
    ASSUME NeoInv, ReadinessIsTrue, StatusInv, StatusStep, UNCHANGED <<neoVars, earlier>>
    PROVE  StatusInv'
<1> DEFINE Truthful ==
             status'.at = "answered" =>
               /\ status'.reason = "ready" => status'.served
               /\ status'.reason \in {"process-absent", "process-zombie", "process-identity-mismatch",
                                      "process-boot-mismatch"} => IsGone(status'.subject)
<1>1. /\ status \in StatusStates
      /\ \A p : IsGone(p)' = IsGone(p) /\ SameBoot(p)' = SameBoot(p)
      /\ \A p \in earlier : IsGone(p)
  BY DEF StatusInv, neoVars, IsGone, Main, SameBoot
<1>2. ASSUME status' \in StatusStates, status'.at \notin {"booting", "observing", "confirming"}, Truthful
      PROVE  StatusInv'
  BY <1>1, <1>2 DEF StatusInv, KnowsItsSubject, ComparesWhatItFound, AnswersWhatItFound, At, IsGone
<1>3. ASSUME NEW reason \in StatusReasons, Conclude(reason), reason = "ready" => status.served,
             reason \in {"process-absent", "process-zombie", "process-identity-mismatch",
                         "process-boot-mismatch"} => IsGone(status.subject)
      PROVE  StatusInv'
  BY <1>1, <1>2, <1>3, ConcludeAnswers
<1>4. ASSUME NEW waits \in BOOLEAN, Ask(waits)
      PROVE  StatusInv'
  BY <1>1, <1>2, <1>4 DEF Ask, StatusStates
<1>5. CASE Poll \/ TimeOut
  BY <1>1, <1>2, <1>5 DEF Poll, TimeOut, GoesTo, StatusStates, StatusReasons
<1>6. CASE Look
  BY <1>1, <1>2, <1>3, <1>6 DEF Look, GoesTo, StatusStates, StatusReasons
<1>7. CASE Open
  <2>1. CASE Conclude("readiness-absent") \/ Conclude("readiness-invalid")
    BY <1>3, <2>1 DEF StatusReasons
  <2>2. CASE /\ ready # None
             /\ status' = [status EXCEPT !.at = "booting", !.subject = ready, !.served = Serves(ready)]
    <3>1. ready \in Processes /\ Serves(ready) \in BOOLEAN
      BY <2>2 DEF NeoInv, NeoTypeOK, Serves
    <3>2. ~IsGone(ready) => Serves(ready)
      BY <3>1 DEF ReadinessIsTrue, Serves, IsGone, Gone
    <3> QED
      BY <1>1, <2>2, <3>1, <3>2
         DEF StatusInv, StatusStates, KnowsItsSubject, ComparesWhatItFound, AnswersWhatItFound, At
  <2> QED
    BY <1>7, <2>1, <2>2 DEF Open
<1>8. CASE ReadCurrentBootId
  <2>1. CASE GoesTo("observing")
    BY <1>1, <1>8, <2>1 DEF StatusInv, StatusStates, KnowsItsSubject, ComparesWhatItFound, AnswersWhatItFound, At,
                            ReadCurrentBootId, GoesTo
  <2>2. CASE ~SameBoot(status.subject) /\ Conclude("process-boot-mismatch")
    BY <1>1, <1>3, <2>2 DEF StatusReasons, SameBoot
  <2>3. CASE Unavailable
    BY <1>3, <2>3 DEF Unavailable, StatusReasons
  <2> QED
    BY <1>8, <2>1, <2>2, <2>3 DEF ReadCurrentBootId
<1>9. CASE ReadStat
  <2>1. status.subject \in Processes /\ (~IsGone(status.subject) => status.served) /\ At("observing")
    BY <1>9 DEF ReadStat, StatusInv, KnowsItsSubject, At
  <2>2. ASSUME NEW start \in {"same", "other"},
               status' = [status EXCEPT !.at = "confirming", !.start = start],
               start = "same" /\ SameBoot(status.subject) => status.served,
               start # "same" => IsGone(status.subject)
        PROVE  StatusInv'
    BY <1>1, <2>1, <2>2
       DEF StatusInv, StatusStates, KnowsItsSubject, ComparesWhatItFound, AnswersWhatItFound, At
  <2>3. CASE /\ Main(status.subject) \notin Gone
             /\ status' = [status EXCEPT !.at = "confirming", !.start = "same"]
    BY <2>1, <2>2, <2>3 DEF IsGone
  <2>4. CASE Main(status.subject) \in Gone /\ (Conclude("process-absent") \/ Conclude("process-zombie"))
    BY <1>3, <2>1, <2>4 DEF StatusReasons, IsGone
  <2>5. ASSUME Main(status.subject) \in Gone, NEW start \in Strangers(status.subject),
               status' = [status EXCEPT !.at = "confirming", !.start = start]
        PROVE  StatusInv'
    BY <2>1, <2>2, <2>5 DEF Strangers, SameBoot, IsGone
  <2>6. CASE Unavailable
    BY <1>3, <2>6 DEF Unavailable, StatusReasons
  <2> QED
    BY <1>9, <2>3, <2>4, <2>5, <2>6 DEF ReadStat
<1>10. CASE Confirm
  <2>1. /\ status.start = "same" /\ SameBoot(status.subject) => status.served
        /\ status.start # "same" => IsGone(status.subject)
    BY <1>10 DEF Confirm, StatusInv, ComparesWhatItFound
  <2>2. CASE Conclude(Verified)
    <3>1. CASE status.start # "same"
      BY <1>3, <2>1, <2>2, <3>1 DEF Verified, StatusReasons
    <3>2. CASE status.start = "same" /\ ~SameBoot(status.subject)
      BY <1>1, <1>3, <2>2, <3>2 DEF Verified, StatusReasons, SameBoot
    <3>3. CASE status.start = "same" /\ SameBoot(status.subject)
      BY <1>3, <2>1, <2>2, <3>3 DEF Verified, StatusReasons
    <3> QED
      BY <3>1, <3>2, <3>3
  <2>3. CASE Unavailable
    BY <1>3, <2>3 DEF Unavailable, StatusReasons
  <2> QED
    BY <1>10, <2>2, <2>3 DEF Confirm
<1> QED
  BY <1>4, <1>5, <1>6, <1>7, <1>8, <1>9, <1>10 DEF StatusStep

LEMMA StatusInvHolds ==
    ASSUME NeoInv, ReadinessIsTrue, StatusInv, [StatusNext]_<<neoVars, statusVars>>
    PROVE  StatusInv'
<1>1. ASSUME [NeoNext]_neoVars, UNCHANGED statusVars
      PROVE  StatusInv'
  <2>1. \A p : IsGone(p) => IsGone(p)'
    BY <1>1, GoneStays DEF IsGone
  <2>2. status' = status /\ earlier' = earlier
    BY <1>1 DEF statusVars
  <2>3. (status \in StatusStates)' /\ (\A p \in earlier : IsGone(p))'
    BY <2>1, <2>2 DEF StatusInv, StatusStates, IsGone
  <2>4. KnowsItsSubject'
    BY <2>1, <2>2 DEF StatusInv, KnowsItsSubject
  <2>5. ComparesWhatItFound'
    BY <2>1, <2>2 DEF StatusInv, KnowsItsSubject, ComparesWhatItFound, At, SameBoot
  <2>6. AnswersWhatItFound'
    BY <2>1, <2>2 DEF StatusInv, AnswersWhatItFound, At, IsGone
  <2> QED
    BY <2>3, <2>4, <2>5, <2>6 DEF StatusInv
<1>2. CASE StatusStep /\ UNCHANGED <<neoVars, earlier>>
  BY <1>2, StatusStepHolds
<1>3. CASE Reboot /\ UNCHANGED neoVars
  BY <1>3, NeoAssumption
     DEF Reboot, neoVars, StatusInv, StatusStates, NoQuestion, KnowsItsSubject, ComparesWhatItFound,
         AnswersWhatItFound, At, IsGone, Main
<1> QED
  BY <1>1, <1>2, <1>3 DEF StatusNext

\* Whatever the status command answers was true of the process it is about: ready
\* of none but one that ran with its host open, or shutting down, when its file was
\* read, and gone of none that runs, over any number of processes, stolen numbers
\* and the reboot, and with every probe as late as can be.
THEOREM StatusIsAlwaysTrue == StatusSpec => []StatusIsTrue
<1>1. NeoInit /\ StatusInit => NeoInv /\ StatusInv
  <2>1. NeoInit => NeoInv
    BY InitHolds
  <2>2. StatusInit => StatusInv
    BY DEF StatusInit, NoQuestion, StatusInv, StatusStates, KnowsItsSubject, ComparesWhatItFound, AnswersWhatItFound, At
  <2> QED
    BY <2>1, <2>2
<1>2. [StatusNext]_<<neoVars, statusVars>> => [NeoNext]_neoVars
  BY DEF StatusNext
<1>3. NeoInv => ReadinessIsTrue
  BY ReadinessFollows
<1>4. NeoInv /\ StatusInv /\ [StatusNext]_<<neoVars, statusVars>> => NeoInv' /\ StatusInv'
  BY <1>2, <1>3, StepHolds, StatusInvHolds
<1>5. StatusInv => StatusIsTrue
  BY DEF StatusInv, AnswersWhatItFound, StatusIsTrue, IsGone
<1> QED
  BY <1>1, <1>4, <1>5, PTL DEF StatusSpec
===============================================================================
