------------------------------ MODULE DurableHost ------------------------------
(***************************************************************************)
(* The durable composition of a process and the owner that closes it.      *)
(* Opening takes the storage root, then the process lock, then the SQLite  *)
(* memory, with an await before each; a failure rolls back in the opposite *)
(* order.  The root and the database belong to a process, the lock to one  *)
(* process at a time.  A resource whose release fails stays held.          *)
(***************************************************************************)
CONSTANT Processes    \* process instances on one storage root

VARIABLES
    opening,    \* opening[p]: what createPosixDurableLocalHost awaits next, or how it ended
    held        \* held[p]: the resources the process has and has not released

Root == "storage-root"
Lock == "process-lock"
Memory == "memory"
Resources == {Root, Lock, Memory}

Openings == {"none", Root, Lock, Memory, "open", "unavailable", "lock-held", "failed"}
OpenFailures == {"unavailable", "lock-held", "failed"}

HostInit ==
    /\ opening = [p \in Processes |-> "none"]
    /\ held = [p \in Processes |-> {}]

LockIsFree == \A p \in Processes : Lock \notin held[p]

\* What the closers, called in order and stopped at the first that fails, may leave.
AfterClosers(taken) == {taken, taken \ {Memory}, taken \ {Memory, Lock}, {}}

OpenEnds(p, outcome, rest) ==
    /\ opening' = [opening EXCEPT ![p] = outcome]
    /\ held' = [held EXCEPT ![p] = rest]

\* Validation of the input and the platform comes before any resource.
StartOpening(p) ==
    /\ opening[p] = "none"
    /\ \E next \in {Root, "unavailable"} : opening' = [opening EXCEPT ![p] = next]
    /\ UNCHANGED held

\* A root that could not be opened may leave a directory handle to be closed.
OpenRoot(p) ==
    /\ opening[p] = Root
    /\ \/ OpenEnds(p, Lock, {Root})
       \/ \E rest \in {{}, {Root}} : OpenEnds(p, "failed", rest)

\* The lock is not awaited: who finds it taken rolls back.  The reason survives
\* only if the rollback does.
AcquireLock(p) ==
    /\ opening[p] = Lock
    /\ \/ LockIsFree /\ OpenEnds(p, Memory, held[p] \cup {Lock})
       \/ ~LockIsFree /\ OpenEnds(p, "lock-held", {})
       \/ \E rest \in AfterClosers(held[p]) : OpenEnds(p, "failed", rest)

\* A database that could not be opened is rolled back with what was taken before,
\* or is kept with it until its own cleanup, which is left to the caller; an
\* assembly that fails rolls back the open database as well.
OpenMemory(p) ==
    /\ opening[p] = Memory
    /\ \/ OpenEnds(p, "open", Resources)
       \/ \E rest \in AfterClosers(Resources) : OpenEnds(p, "failed", rest)

OpenStep(p) == OpenRoot(p) \/ AcquireLock(p) \/ OpenMemory(p)

\* The owner's close: a retry goes on with the resource that could not be closed.
CloseOwner(p, rest) ==
    /\ rest \in AfterClosers(held[p])
    /\ held' = [held EXCEPT ![p] = rest]

----------------------------------------------------------------------------
HostTypeOK ==
    /\ opening \in [Processes -> Openings]
    /\ held \in [Processes -> SUBSET Resources]

\* The database is open in one process at most and only under the lock, the lock
\* is held only in an open root, whatever fails while opening, rolling back,
\* closing and trying again.
OneProcessHasTheStore ==
    /\ \A p \in Processes :
         /\ Memory \in held[p] => Lock \in held[p]
         /\ Lock \in held[p] => Root \in held[p]
    /\ \A p, q \in Processes : p # q => Lock \notin held[p] \cap held[q]
===============================================================================
