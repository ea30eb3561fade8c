----------------------------- MODULE DurableStorage -----------------------------
(***************************************************************************)
(* The durable composition in full: the capability of an open storage root *)
(* and its leases, the lock descriptor, the SQLite connection, what each   *)
(* failure of the start leaves to be cleaned up, and the owner that gates  *)
(* the operations of the host and closes its resources stage by stage.     *)
(* Every close may fail and be tried again; the lock is the kernel's, one  *)
(* for all processes.  DurableHost is what this composition promises.      *)
(***************************************************************************)
EXTENDS Naturals, Checks

----------------------------------------------------------------------------
(* What may be a storage root and a lock file: the reading of untrusted      *)
(* records, the lexical rule of a path, the policy of the root, and the      *)
(* checks of the file system before and after the directory is opened.  A    *)
(* path is the sequence of its names, a mode the set of its bits, an input   *)
(* record its shape and its own properties.                                  *)

(* Reading an untrusted object: own data properties of a plain object only.  *)

RecordOutcome(input, keys, invalid) ==
    CASE input.shape = "proxy" -> "UNSAFE_STORAGE_INPUT"
      [] input.shape # "plain" -> invalid
      [] input.symbols -> "UNSAFE_STORAGE_INPUT"
      [] ~(DOMAIN input.fields \subseteq keys) -> "UNKNOWN_STORAGE_FIELD"
      [] ~(keys \subseteq DOMAIN input.fields) -> "MISSING_STORAGE_FIELD"
      [] \E key \in keys : input.fields[key].as # "data" -> "UNSAFE_STORAGE_INPUT"
      [] OTHER -> "ok"

Value(input, key) == input.fields[key].value

DotSegments == {"", ".", ".."}

\* A path that is not already in its normal form, of its platform, is refused.
ValidatePosixStorageRoot(path) ==
    Check(/\ path.form = "absolute" /\ ~path.nul /\ path.names # <<>>
          /\ \A i \in DOMAIN path.names : path.names[i] \notin DotSegments,
          "UNSAFE_PATH")

ValidateWin32StorageRoot(path) ==
    Check(/\ path.form = "drive" /\ ~path.nul /\ path.names # <<>>
          /\ \A i \in DOMAIN path.names :
               path.names[i] \notin DotSegments \cup {"reserved device", "trailing dot", "stream:"},
          "UNSAFE_PATH")

ValidateStorageRootLexically(platform, path) ==
    CASE path.form = "empty" -> "INVALID_STORAGE_ROOT"
      [] platform = "win32" -> ValidateWin32StorageRoot(path)
      [] OTHER -> ValidatePosixStorageRoot(path)

ParseStorageBindingRequest(input) ==
    LET shape == RecordOutcome(input, {"platform", "storageRoot"}, "INVALID_STORAGE_REQUEST") IN
    CASE Fails(shape) -> shape
      [] Value(input, "platform") \notin {"win32", "posix"} -> "INVALID_PLATFORM"
      [] OTHER -> ValidateStorageRootLexically(Value(input, "platform"), Value(input, "storageRoot"))

\* The plan is rebuilt from its binding; the diagnostics it came with are dropped.
AcceptLocalStoragePlan(input) ==
    LET shape == RecordOutcome(input, {"binding", "schemaVersion", "diagnostics"}, "INVALID_STORAGE_PLAN") IN
    CASE Fails(shape) -> shape
      [] Value(input, "schemaVersion") # "current" -> "INVALID_STORAGE_PLAN"
      [] OTHER -> ParseStorageBindingRequest(Value(input, "binding"))

OwnerRwx == {"ur", "uw", "ux"}

ParsePosixStorageRootPolicy(input) ==
    LET shape == RecordOutcome(input, {"expectedUid", "allowedModeBits", "repositoryRoot"},
                               "INVALID_STORAGE_POLICY") IN
    CASE Fails(shape) -> shape
      [] Value(input, "expectedUid") < 0 -> "INVALID_STORAGE_POLICY"
      [] ~(OwnerRwx \subseteq Value(input, "allowedModeBits")) -> "INVALID_STORAGE_POLICY"
      [] Fails(ValidateStorageRootLexically("posix", Value(input, "repositoryRoot"))) ->
           "INVALID_STORAGE_POLICY"
      [] OTHER -> "ok"

----------------------------------------------------------------------------
(* The file system: a node for each path that exists.                        *)

FsFailures == {"NOT_FOUND", "NOT_DIRECTORY", "PERMISSION", "IO"}

MapFsFailure(failure) ==
    CASE failure = "NOT_FOUND" -> "STORAGE_ROOT_NOT_FOUND"
      [] failure = "NOT_DIRECTORY" -> "STORAGE_ROOT_NOT_DIRECTORY"
      [] failure = "PERMISSION" -> "STORAGE_ROOT_PERMISSION_DENIED"
      [] OTHER -> "STORAGE_ROOT_OPEN_FAILED"

Lstat(disk, path) == IF path \in DOMAIN disk THEN disk[path] ELSE [type |-> "NOT_FOUND"]

IsUnderOrEqual(path, root) ==
    Len(root) <= Len(path) /\ SubSeq(path, 1, Len(root)) = root

\* Each component is a directory and no symbolic link; the first that is not decides.
ComponentsOutcome(disk, root) ==
    LET type(n) == Lstat(disk, SubSeq(root, 1, n)).type
        bad == {n \in DOMAIN root : type(n) # "directory"}
        first == Min(bad)
    IN  CASE bad = {} -> "ok"
          [] type(first) \in FsFailures -> MapFsFailure(type(first))
          [] first < Len(root) -> "STORAGE_ROOT_UNSAFE_PARENT"
          [] type(first) = "symlink" -> "STORAGE_ROOT_SYMLINKED"
          [] OTHER -> "STORAGE_ROOT_NOT_DIRECTORY"

ValidateMode(mode, allowed) ==
    Check(OwnerRwx \subseteq mode /\ mode \subseteq allowed, "STORAGE_ROOT_MODE_UNSAFE")

OwnerOutcome(node, expectedUid, currentUid) ==
    Check(node.uid = expectedUid /\ ~(currentUid # 0 /\ node.uid = 0 /\ expectedUid # 0),
          "STORAGE_ROOT_OWNER_MISMATCH")

ContainmentOutcome(disk, root, repository) ==
    LET repositoryNode == Lstat(disk, repository) IN
    CASE Lstat(disk, root).real # root -> "STORAGE_ROOT_UNSAFE_PARENT"
      [] repositoryNode.type \in FsFailures \cup {"symlink"} -> "INVALID_STORAGE_POLICY"
      [] IsUnderOrEqual(Lstat(disk, root).real, repositoryNode.real) -> "STORAGE_ROOT_IS_REPOSITORY"
      [] OTHER -> "ok"

\* Everything that is asked before the directory is opened.
BeforeOpen(plan, policy, world) ==
    LET planOutcome == AcceptLocalStoragePlan(plan)
        binding == Value(plan, "binding")
        root == Value(binding, "storageRoot").names
        policyOutcome == ParsePosixStorageRootPolicy(policy)
        components == ComponentsOutcome(world.disk, root)
        node == Lstat(world.disk, root)
    IN  CASE Fails(planOutcome) -> planOutcome
          [] Value(binding, "platform") # "posix" -> "PLATFORM_UNSUPPORTED"
          [] Fails(policyOutcome) -> policyOutcome
          [] world.os # "linux" -> "PLATFORM_UNSUPPORTED"
          [] Fails(components) -> components
          [] OTHER -> FirstFailure(<<
               OwnerOutcome(node, Value(policy, "expectedUid"), world.uid),
               ValidateMode(node.mode, Value(policy, "allowedModeBits")),
               ContainmentOutcome(world.disk, root, Value(policy, "repositoryRoot").names)>>)

\* What was checked may have been replaced before it was opened: what the handle
\* refers to is compared with it and checked again.
AfterOpen(plan, policy, world) ==
    LET node == Lstat(world.disk, Value(Value(plan, "binding"), "storageRoot").names)
        opened == world.opened
    IN  CASE opened.type \in FsFailures -> MapFsFailure(opened.type)
          [] opened # node -> "STORAGE_ROOT_CHANGED_DURING_OPEN"
          [] OTHER -> FirstFailure(<<
               ValidateMode(opened.mode, Value(policy, "allowedModeBits")),
               Check(opened.uid = Value(policy, "expectedUid"), "STORAGE_ROOT_OWNER_MISMATCH")>>)

----------------------------------------------------------------------------
(* The lock file: an ordinary file of the user, with no other link and open  *)
(* to nobody else, and a descriptor that no child process inherits.          *)

VerifyLockFilePolicy(file, effectiveUid) ==
    Check(/\ file.type = "file" /\ file.uid = effectiveUid /\ file.links = 1
          /\ {"ur", "uw"} \subseteq file.mode
          /\ file.mode \cap {"group", "other", "special"} = {},
          "STORAGE_LOCK_ACQUIRE_FAILED")

VerifyCloseOnExec(native, flags) ==
    CASE native # "loaded" -> "STORAGE_LOCK_UNAVAILABLE"
      [] "cloexec" \notin flags -> "STORAGE_LOCK_ACQUIRE_FAILED"
      [] OTHER -> "ok"

MapOpenError(error) ==
    IF error \in {"flags-unavailable", "native-unavailable"} THEN "STORAGE_LOCK_UNAVAILABLE"
    ELSE "STORAGE_LOCK_ACQUIRE_FAILED"

\* The lock file up to the flock: its descriptor is open from the second check on.
LockFileOutcome(file, effectiveUid) ==
    IF file.error # "none" THEN MapOpenError(file.error)
    ELSE FirstFailure(<<VerifyCloseOnExec(file.native, file.flags),
                        VerifyLockFilePolicy(file, effectiveUid)>>)

----------------------------------------------------------------------------
CONSTANTS
    Hosts,              \* processes that start a host on one storage root
    Plans, Policies,    \* storage plans and policies a caller may pass
    Worlds,             \* what the operating system answers about the root
    LockFiles,          \* what it answers about the lock file
    Databases,          \* what SQLite answers about the database
    MaxOperations       \* bound: operations of the host at one time

VARIABLES
    at,             \* at[p]: what the start awaits, or how it ended
    store,          \* store[p]: the resources of the process
    stage,          \* stage[p]: the resource that a clean-up or a close goes on with
    owner,          \* owner[p]: lifecycle of the owner
    operations      \* operations[p]: operations of the host that have not settled

storageVars == <<at, store, stage, owner, operations>>

Stages == {"memory", "process-lock", "storage-root", "done"}

\* The root's capability, its directory handle and lease count; descriptor of the
\* lock file; connection of the database.
NoStore == [root |-> "none", handle |-> "none", leases |-> 0, lockFd |-> "none", db |-> "none"]

StorageInit ==
    /\ at = [p \in Hosts |-> "none"]
    /\ store = [p \in Hosts |-> NoStore]
    /\ stage = [p \in Hosts |-> "done"]
    /\ owner = [p \in Hosts |-> "none"]
    /\ operations = [p \in Hosts |-> 0]

Flocked(p) == store[p].lockFd = "flocked"
OtherHoldsLock(p) == \E q \in Hosts \ {p} : Flocked(q)

----------------------------------------------------------------------------
(* The closers.  Each yields the store it leaves and the stage it is stuck   *)
(* at; a close that fails keeps the resource and its lease.                  *)

Took(s) == [s EXCEPT !.leases = @ + 1]
Left(s) == [s EXCEPT !.leases = @ - 1]

CloseLockFd(s) ==
    IF s.lockFd = "none" THEN {[store |-> s, stuck |-> "done"]}
    ELSE {[store |-> Left([s EXCEPT !.lockFd = "none"]), stuck |-> "done"],
          [store |-> s, stuck |-> "process-lock"]}

CloseDatabase(s) ==
    IF s.db = "none" THEN {[store |-> s, stuck |-> "done"]}
    ELSE {[store |-> Left([s EXCEPT !.db = "none"]), stuck |-> "done"],
          [store |-> [s EXCEPT !.db = "close-pending"], stuck |-> "memory"]}

\* prepareClose: an open root with leases is busy; without, it is retired for good,
\* whatever becomes of its handle.
CloseRoot(s) ==
    IF s.root = "open" /\ s.leases > 0 THEN {[store |-> s, stuck |-> "storage-root"]}
    ELSE IF s.handle = "none" THEN {[store |-> s, stuck |-> "done"]}
    ELSE {[store |-> [s EXCEPT !.handle = "none",
                               !.root = IF @ = "none" THEN @ ELSE "closed"], stuck |-> "done"],
          [store |-> [s EXCEPT !.root = IF @ = "open" THEN "retired" ELSE @],
           stuck |-> "storage-root"]}

\* The next closer is called only after the one before it succeeded.
Then(results, Closer(_)) ==
    {r \in results : r.stuck # "done"} \cup UNION {Closer(r.store) : r \in {q \in results : q.stuck = "done"}}

FromLock(s) == Then(CloseLockFd(s), CloseRoot)
LockBeforeDatabase(s) == Then(CloseLockFd(s), LAMBDA t : Then(CloseDatabase(t), CloseRoot))    \* mutant
FromMemory(s) == Then(CloseDatabase(s), FromLock)

Sweep(s, from) ==
    CASE from = "memory" -> FromMemory(s)
      [] from = "process-lock" -> FromLock(s)
      [] from = "storage-root" -> CloseRoot(s)
      [] OTHER -> {}

----------------------------------------------------------------------------
(* The start.  A failure is cleaned up at once, from the stage it reached,   *)
(* or, where something could not be closed, left to the caller's retry.      *)

Ends(p, result, s, next) ==
    /\ at' = [at EXCEPT ![p] = result]
    /\ store' = [store EXCEPT ![p] = s]
    /\ stage' = [stage EXCEPT ![p] = next]

Deferred(p, s, next) == Ends(p, "failed", s, next)

\* The reason is what the caller gets only if the clean-up succeeds.
CleanedUp(p, reason, s, from) ==
    \E r \in Sweep(s, from) :
        Ends(p, IF r.stuck = "done" THEN reason ELSE "failed", r.store, r.stuck)

\* Config, plan, policy, host input, then the platform: nothing is open yet.
StartHost(p) ==
    /\ at[p] = "none"
    /\ \E next \in {"storage-root", "unavailable"} : at' = [at EXCEPT ![p] = next]
    /\ UNCHANGED <<store, stage, owner, operations>>

\* A handle that is open when a check fails is closed; if that fails as well it
\* is left to the caller, without a capability.
RootFails(p) ==
    \/ Ends(p, "failed", store[p], "done")
    \/ Deferred(p, [store[p] EXCEPT !.handle = "open"], "storage-root")

RootOpens(p) == Ends(p, "process-lock", [store[p] EXCEPT !.handle = "open", !.root = "open"], "done")

OpenPosixStorageRoot(p) ==
    /\ at[p] = "storage-root"
    /\ \E plan \in Plans, policy \in Policies, world \in Worlds :
         IF Fails(BeforeOpen(plan, policy, world)) THEN Ends(p, "failed", store[p], "done")
         ELSE IF Fails(AfterOpen(plan, policy, world)) THEN RootFails(p)
         ELSE RootOpens(p)
    /\ UNCHANGED <<owner, operations>>

LockFails(p, reason) ==
    \E r \in CloseLockFd(Took([store[p] EXCEPT !.lockFd = "open"])) :
        IF r.stuck = "done" THEN CleanedUp(p, reason, r.store, "process-lock")
        ELSE Deferred(p, r.store, r.stuck)

\* The flock decides between processes; it is not awaited.
AcquirePosixProcessLock(p) ==
    /\ at[p] = "process-lock"
    /\ \E file \in LockFiles :
         IF file.error # "none" THEN CleanedUp(p, "failed", store[p], "process-lock")
         ELSE IF Fails(LockFileOutcome(file, 1)) THEN LockFails(p, "failed")
         ELSE IF OtherHoldsLock(p) THEN LockFails(p, "lock-held")
         ELSE Ends(p, "memory", Took([store[p] EXCEPT !.lockFd = "flocked"]), "done")
    /\ UNCHANGED <<owner, operations>>

ForgetPendingDatabase(p) ==
    \E r \in CloseDatabase(Took([store[p] EXCEPT !.db = "open"])) :
        IF r.stuck = "done" THEN CleanedUp(p, "failed", r.store, "memory")
        ELSE Deferred(p, r.store, "process-lock")    \* mutant

\* A connection that a pragma, the integrity check or the schema fails is closed;
\* one that cannot be closed keeps the lock and the root from being closed too.
DatabaseFails(p) ==
    \E r \in CloseDatabase(Took([store[p] EXCEPT !.db = "open"])) :
        IF r.stuck = "done" THEN CleanedUp(p, "failed", r.store, "memory")
        ELSE Deferred(p, r.store, "memory")

\* The host is assembled in the same turn of the event loop; an assembly that
\* throws closes the database again.
AssembleHost(p) ==
    LET s == Took([store[p] EXCEPT !.db = "open"]) IN
    \/ Ends(p, "open", s, "memory") /\ owner' = [owner EXCEPT ![p] = "open"]
    \/ CleanedUp(p, "failed", s, "memory") /\ UNCHANGED owner

CreateSqliteMemoryPort(p) ==
    /\ at[p] = "memory"
    /\ \E database \in Databases :
         CASE database = "unopenable" -> CleanedUp(p, "failed", store[p], "memory") /\ UNCHANGED owner
           [] database = "unfit" -> DatabaseFails(p) /\ UNCHANGED owner
           [] OTHER -> AssembleHost(p)
    /\ UNCHANGED operations

\* The caller tries the clean-up again, from the stage it is stuck at.
RetryCleanup(p) ==
    /\ at[p] = "failed" /\ stage[p] # "done"
    /\ \E r \in Sweep(store[p], stage[p]) : Ends(p, "failed", r.store, r.stuck)
    /\ UNCHANGED <<owner, operations>>

----------------------------------------------------------------------------
(* The owner.                                                                *)

\* runGated: an operation starts only while the owner is open.
StartOperation(p) ==
    /\ owner[p] = "open" /\ operations[p] < MaxOperations
    /\ operations' = [operations EXCEPT ![p] = @ + 1]
    /\ UNCHANGED <<at, store, stage, owner>>

\* However its promise settles, it is counted off once.
FinishOperation(p) ==
    /\ operations[p] > 0
    /\ operations' = [operations EXCEPT ![p] = @ - 1]
    /\ UNCHANGED <<at, store, stage, owner>>

\* The first close ends the operations for good; it is busy while one runs, and a
\* retry goes on with the stage that failed.
CloseHostOwner(p) ==
    /\ owner[p] \in {"open", "close-pending"}
    /\ \/ /\ operations[p] > 0
          /\ owner' = [owner EXCEPT ![p] = "close-pending"]
          /\ UNCHANGED <<at, store, stage>>
       \/ /\ operations[p] = 0
          /\ \E r \in Sweep(store[p], stage[p]) :
               /\ Ends(p, "open", r.store, r.stuck)
               /\ owner' = [owner EXCEPT ![p] = IF r.stuck = "done" THEN "closed" ELSE "close-pending"]
    /\ UNCHANGED operations

StorageStep(p) ==
    \/ StartHost(p) \/ OpenPosixStorageRoot(p) \/ AcquirePosixProcessLock(p)
    \/ CreateSqliteMemoryPort(p) \/ RetryCleanup(p)
    \/ StartOperation(p) \/ FinishOperation(p) \/ CloseHostOwner(p)

StorageNext == \E p \in Hosts : StorageStep(p)

StorageSpec == StorageInit /\ [][StorageNext]_storageVars

----------------------------------------------------------------------------
(* Properties.                                                               *)

\* An operation of the host that still runs has its database, the lock that no
\* other process has, and the root: a close that is asked for meanwhile, and
\* retried, takes none of them away (createDurableLocalHostOwner).
OperationsHaveTheStore ==
    \A p \in Hosts :
        operations[p] > 0 =>
            /\ store[p].db = "open" /\ Flocked(p) /\ ~OtherHoldsLock(p)
            /\ store[p].root = "open" /\ store[p].handle = "open"

\* The leases of the root are counted exactly, through every failure, deferred
\* clean-up and retry: one for the lock's descriptor, one for the connection, and
\* a root that has been retired has neither below it.
LeasesAreTheUsers ==
    \A p \in Hosts :
        LET s == store[p]
            users == {u \in {"lockFd", "db"} : s[u] # "none"} IN
        /\ s.leases = Cardinality(users)
        /\ users # {} => s.root = "open" /\ s.handle = "open"

\* The store is never taken from under its users, and is known to have them.
StoreIsHeldWhileUsed == OperationsHaveTheStore /\ LeasesAreTheUsers

Released(p) == store[p].handle = "none" /\ store[p].lockFd = "none" /\ store[p].db = "none"

\* The caller calls the pending clean-up or the owner's close and every closer of
\* that pass succeeds.
ClosersSucceed(p) ==
    /\ RetryCleanup(p) \/ CloseHostOwner(p)
    /\ stage'[p] = "done" /\ stage[p] # "done"

\* Nothing that a start has taken is out of reach: as long as the caller retries
\* and the closers at last succeed, all is released, whichever step failed and
\* whatever could not be closed with it.
CleanupCanFinish ==
    \A p \in Hosts :
        WF_storageVars(CloseHostOwner(p)) /\ WF_storageVars(FinishOperation(p)) /\ WF_storageVars(ClosersSucceed(p))
        => [](at[p] \in {"failed", "open", "lock-held"} => <>Released(p))

\* What a start takes is neither taken from under its users nor ever out of reach,
\* whatever fails between its opening and its close.
StoreIsHeldAndGivenBack == []StoreIsHeldWhileUsed /\ CleanupCanFinish

\* The resources a process holds, as the composition's promise counts them.
HeldBy(p) ==
    {r \in {"storage-root", "process-lock", "memory"} :
        CASE r = "storage-root" -> store[p].handle # "none"
          [] r = "process-lock" -> Flocked(p)
          [] OTHER -> store[p].db # "none"}

Host == INSTANCE DurableHost WITH
    Processes <- Hosts,
    opening <- at,
    held <- [p \in Hosts |-> HeldBy(p)]

\* Each step of the composition is a step of DurableHost, which the Neo process is
\* modelled over, or changes nothing that DurableHost speaks of.
ImplementsDurableHost ==
    Host!HostInit /\ [][\E p \in Hosts :
        \/ Host!StartOpening(p) \/ Host!OpenStep(p)
        \/ \E rest \in SUBSET Host!Resources : Host!CloseOwner(p, rest)]_<<at, store>>
===============================================================================
