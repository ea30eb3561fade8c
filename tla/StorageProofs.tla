---------------------------- MODULE StorageProofs ----------------------------
(***************************************************************************)
(* Theorems about the storage of the host: the durable composition, for    *)
(* any processes, plans, file systems and failures, and its refinement of  *)
(* DurableHost; and the two database files, for whatever databases lay at  *)
(* their paths.                                                            *)
(***************************************************************************)
EXTENDS DurableStorage, SqliteFiles, FiniteSetTheorems, WellFoundedInduction, TLAPS

----------------------------------------------------------------------------
(* The durable composition.  First the stores of a process and what a pass   *)
(* of the closers leaves of one; then, for each action, that it keeps what   *)
(* each point of the start has taken and is a step of DurableHost.           *)
Stores ==
    [root : {"none", "open", "retired", "closed"}, handle : {"none", "open"}, leases : Nat,
     lockFd : {"none", "open", "flocked"}, db : {"none", "open", "close-pending"}]

\* Every lease has its user and every user its lease, under an open root; a
\* connection is under the lock.
Leased(s) ==
    /\ s \in Stores
    /\ s.leases = (IF s.lockFd = "none" THEN 0 ELSE 1) + (IF s.db = "none" THEN 0 ELSE 1)
    /\ s.lockFd # "none" => s.root = "open" /\ s.handle = "open"
    /\ s.db # "none" => s.lockFd = "flocked"

\* What is still to be closed when a clean-up or a close goes on with a stage.
Fits(s, next) ==
    /\ Leased(s) /\ next \in Stages
    /\ next = "memory" <=> s.db # "none"
    /\ next = "process-lock" <=> s.db = "none" /\ s.lockFd # "none"
    /\ next = "storage-root" <=> s.lockFd = "none" /\ s.handle = "open"

\* The resources of one store.
HeldOf(s) ==
    {r \in {"storage-root", "process-lock", "memory"} :
        CASE r = "storage-root" -> s.handle # "none"
          [] r = "process-lock" -> s.lockFd = "flocked"
          [] OTHER -> s.db # "none"}

LEMMA CloseRootLeaves ==
    ASSUME NEW s, Leased(s), s.lockFd = "none", NEW r \in CloseRoot(s)
    PROVE  /\ Fits(r.store, r.stuck) /\ r.store.lockFd = s.lockFd /\ r.store.db = s.db
           /\ r.store.handle \in {s.handle, "none"}
<1>1. s.leases = 0 /\ s.db = "none" /\ s \in Stores
  BY DEF Leased
<1>2. CASE s.handle = "none"
  BY <1>1, <1>2 DEF CloseRoot, Leased, Fits, Stages, Stores
<1>3. CASE s.handle = "open"
  <2>1. CASE r = [store |-> [s EXCEPT !.handle = "none", !.root = IF @ = "none" THEN @ ELSE "closed"], stuck |-> "done"]
    BY <1>1, <1>3, <2>1 DEF Leased, Fits, Stages, Stores
  <2>2. CASE r = [store |-> [s EXCEPT !.root = IF @ = "open" THEN "retired" ELSE @], stuck |-> "storage-root"]
    BY <1>1, <1>3, <2>2 DEF Leased, Fits, Stages, Stores
  <2> QED
    BY <1>1, <1>3, <2>1, <2>2 DEF CloseRoot
<1> QED
  BY <1>1, <1>2, <1>3 DEF Stores

LEMMA CloseLockLeaves ==
    ASSUME NEW s, Leased(s), s.db = "none", NEW r \in CloseLockFd(s)
    PROVE  /\ Leased(r.store) /\ r.store.db = "none" /\ r.store.handle = s.handle
           /\ \/ r.stuck = "done" /\ r.store.lockFd = "none"
              \/ r.stuck = "process-lock" /\ r.store = s /\ s.lockFd # "none"
<1>1. s \in Stores
  BY DEF Leased
<1>2. CASE s.lockFd = "none"
  BY <1>2 DEF CloseLockFd
<1>3. CASE r = [store |-> Left([s EXCEPT !.lockFd = "none"]), stuck |-> "done"] /\ s.lockFd # "none"
  <2> DEFINE t == [s EXCEPT !.lockFd = "none"]
  <2>1. t \in Stores /\ t.lockFd = "none" /\ t.leases = s.leases /\ t.db = s.db /\ t.handle = s.handle /\ t.root = s.root
    BY <1>1 DEF Stores
  <2>2. s.leases = 1 /\ s.db = "none"
    BY <1>3 DEF Leased
  <2>3. r.store = [t EXCEPT !.leases = @ - 1] /\ r.stuck = "done"
    BY <1>3 DEF Left
  <2> HIDE DEF t
  <2>4. /\ r.store \in Stores /\ r.store.lockFd = "none" /\ r.store.leases = 0
        /\ r.store.db = t.db /\ r.store.handle = t.handle
    BY <2>1, <2>2, <2>3 DEF Stores
  <2> QED
    BY <2>1, <2>2, <2>3, <2>4 DEF Leased
<1>4. CASE r = [store |-> s, stuck |-> "process-lock"] /\ s.lockFd # "none"
  BY <1>4
<1> QED
  BY <1>2, <1>3, <1>4 DEF CloseLockFd

LEMMA CloseDatabaseLeaves ==
    ASSUME NEW s, Leased(s), NEW r \in CloseDatabase(s)
    PROVE  /\ Leased(r.store) /\ r.store.lockFd = s.lockFd /\ r.store.handle = s.handle
           /\ \/ r.stuck = "done" /\ r.store.db = "none"
              \/ r.stuck = "memory" /\ r.store.db # "none" /\ s.db # "none"
<1>1. s \in Stores
  BY DEF Leased
<1>2. CASE s.db = "none"
  BY <1>2 DEF CloseDatabase
<1>3. CASE r = [store |-> Left([s EXCEPT !.db = "none"]), stuck |-> "done"] /\ s.db # "none"
  <2> DEFINE t == [s EXCEPT !.db = "none"]
  <2>1. t \in Stores /\ t.db = "none" /\ t.leases = s.leases /\ t.lockFd = s.lockFd /\ t.handle = s.handle /\ t.root = s.root
    BY <1>1 DEF Stores
  <2>2. /\ s.leases = 2 /\ s.lockFd = "flocked"
        /\ s.root = "open" /\ s.handle = "open"
    BY <1>3 DEF Leased
  <2>3. r.store = [t EXCEPT !.leases = @ - 1] /\ r.stuck = "done"
    BY <1>3 DEF Left
  <2> HIDE DEF t
  <2>4. /\ r.store \in Stores /\ r.store.db = "none" /\ r.store.leases = 1
        /\ r.store.lockFd = t.lockFd /\ r.store.handle = t.handle /\ r.store.root = t.root
    BY <2>1, <2>2, <2>3 DEF Stores
  <2> QED
    BY <2>1, <2>2, <2>3, <2>4 DEF Leased
<1>4. CASE r = [store |-> [s EXCEPT !.db = "close-pending"], stuck |-> "memory"] /\ s.db # "none"
  BY <1>1, <1>4 DEF Leased, Stores
<1> QED
  BY <1>2, <1>3, <1>4 DEF CloseDatabase

\* The closers in order, up to the first that fails.
LEMMA FromLockParts ==
    ASSUME NEW s, NEW r \in FromLock(s)
    PROVE  \/ r \in CloseLockFd(s) /\ r.stuck # "done"
           \/ \E q \in CloseLockFd(s) : q.stuck = "done" /\ r \in CloseRoot(q.store)
BY DEF FromLock, Then

LEMMA FromMemoryParts ==
    ASSUME NEW s, NEW r \in FromMemory(s)
    PROVE  \/ r \in CloseDatabase(s) /\ r.stuck # "done"
           \/ \E q \in CloseDatabase(s) : q.stuck = "done" /\ r \in FromLock(q.store)
BY DEF FromMemory, Then

Shrinks(s, t) == t.lockFd \in {s.lockFd, "none"} /\ (t.db # "none" => s.db # "none") /\ t.handle \in {s.handle, "none"}

LEMMA FromLockLeaves ==
    ASSUME NEW s, Leased(s), s.db = "none", NEW r \in FromLock(s)
    PROVE  Fits(r.store, r.stuck) /\ Shrinks(s, r.store)
<1>1. CASE r \in CloseLockFd(s) /\ r.stuck # "done"
  BY <1>1, CloseLockLeaves DEF Fits, Stages, Shrinks
<1>2. ASSUME NEW q \in CloseLockFd(s), q.stuck = "done", r \in CloseRoot(q.store)
      PROVE  Fits(r.store, r.stuck) /\ Shrinks(s, r.store)
  <2>1. Leased(q.store) /\ q.store.db = "none" /\ q.store.handle = s.handle /\ q.store.lockFd = "none"
    BY <1>2, CloseLockLeaves
  <2>2. /\ Fits(r.store, r.stuck) /\ r.store.lockFd = "none" /\ r.store.db = "none"
        /\ r.store.handle \in {s.handle, "none"}
    BY <1>2, <2>1, CloseRootLeaves
  <2> QED
    BY <2>2 DEF Shrinks
<1> QED
  BY <1>1, <1>2, FromLockParts

LEMMA FromMemoryLeaves ==
    ASSUME NEW s, Leased(s), NEW r \in FromMemory(s)
    PROVE  Fits(r.store, r.stuck) /\ Shrinks(s, r.store)
<1>1. CASE r \in CloseDatabase(s) /\ r.stuck # "done"
  BY <1>1, CloseDatabaseLeaves DEF Fits, Stages, Shrinks, Leased
<1>2. ASSUME NEW q \in CloseDatabase(s), q.stuck = "done", r \in FromLock(q.store)
      PROVE  Fits(r.store, r.stuck) /\ Shrinks(s, r.store)
  <2>1. Leased(q.store) /\ q.store.db = "none" /\ q.store.handle = s.handle /\ q.store.lockFd = s.lockFd
    BY <1>2, CloseDatabaseLeaves
  <2>2. Fits(r.store, r.stuck) /\ Shrinks(q.store, r.store)
    BY <1>2, <2>1, FromLockLeaves
  <2> QED
    BY <2>1, <2>2 DEF Shrinks
<1> QED
  BY <1>1, <1>2, FromMemoryParts

\* A pass of the closers that starts at, or before, the first resource still taken
\* ends at the first it leaves.
LEMMA SweepLeaves ==
    ASSUME NEW s, Leased(s), NEW from \in Stages, from = "process-lock" => s.db = "none", from = "storage-root" => s.lockFd = "none",
           NEW r \in Sweep(s, from)
    PROVE  Fits(r.store, r.stuck) /\ Shrinks(s, r.store)
<1>1. from = "storage-root" => r \in CloseRoot(s) /\ s.lockFd = "none"
  BY DEF Sweep
<1>2. from = "process-lock" => r \in FromLock(s) /\ s.db = "none"
  BY DEF Sweep
<1>3. from = "memory" => r \in FromMemory(s)
  BY DEF Sweep
<1>4. from # "done"
  BY DEF Sweep
<1>5. from = "storage-root" => Fits(r.store, r.stuck) /\ Shrinks(s, r.store)
  BY <1>1, CloseRootLeaves DEF Shrinks
<1> QED
  BY <1>2, <1>3, <1>4, <1>5, FromLockLeaves, FromMemoryLeaves DEF Stages

----------------------------------------------------------------------------
\* How a start stands, and what its process has by then.
ProcessOK(a, s, next, o, n) ==
    /\ Leased(s)
    /\ a = "process-lock" => s.root = "open" /\ s.handle = "open" /\ s.lockFd = "none"
    /\ a = "memory" => s.lockFd = "flocked" /\ s.db = "none"
    /\ a \notin {"process-lock", "memory"} => Fits(s, next)
    /\ a \notin {"process-lock", "memory", "failed", "open"} => next = "done"
    /\ o # "none" => a = "open"
    /\ o = "open" => s.db = "open"
    /\ n > 0 => o \in {"open", "close-pending"} /\ s.db = "open"

StorageTypes ==
    /\ at \in [Hosts -> Host!Openings]
    /\ store \in [Hosts -> Stores]
    /\ stage \in [Hosts -> Stages]
    /\ owner \in [Hosts -> {"none", "open", "close-pending", "closed"}]
    /\ operations \in [Hosts -> Nat]

OneFlock == \A p, q \in Hosts : p # q => ~(Flocked(p) /\ Flocked(q))

StorageInv ==
    /\ StorageTypes
    /\ \A p \in Hosts : ProcessOK(at[p], store[p], stage[p], owner[p], operations[p])
    /\ OneFlock

LEMMA StorageInitInv == StorageInit => StorageInv
<1> SUFFICES ASSUME StorageInit PROVE StorageInv
  OBVIOUS
<1>1. NoStore \in Stores /\ Leased(NoStore) /\ Fits(NoStore, "done")
  BY DEF NoStore, Stores, Leased, Fits, Stages
<1>2. StorageTypes
  BY <1>1 DEF StorageInit, StorageTypes, Stages, Host!Openings
<1>3. ASSUME NEW p \in Hosts PROVE ProcessOK(at[p], store[p], stage[p], owner[p], operations[p])
  BY <1>1 DEF StorageInit, ProcessOK
<1>4. OneFlock
  BY DEF StorageInit, OneFlock, Flocked, NoStore
<1> QED
  BY <1>2, <1>3, <1>4 DEF StorageInv

\* A step of a process that leaves it well keeps the invariant, if its lock is old
\* or free.
LEMMA EndsKeeps ==
    ASSUME StorageInv, NEW p \in Hosts,
           NEW a \in Host!Openings, NEW s, NEW next \in Stages,
           NEW o \in {"none", "open", "close-pending", "closed"},
           Ends(p, a, s, next), owner' = [owner EXCEPT ![p] = o], operations' = operations,
           ProcessOK(a, s, next, o, operations[p]),
           s.lockFd = "flocked" => Flocked(p) \/ ~OtherHoldsLock(p)
    PROVE  StorageInv'
<1>1. s \in Stores
  BY DEF ProcessOK, Leased
<1>2. StorageTypes'
  BY <1>1 DEF StorageInv, StorageTypes, Ends
<1>3. ASSUME NEW q \in Hosts PROVE ProcessOK(at[q], store[q], stage[q], owner[q], operations[q])'
  <2>1. CASE q = p
    <3>1. at'[q] = a /\ store'[q] = s /\ stage'[q] = next /\ owner'[q] = o /\ operations'[q] = operations[p]
      BY <2>1 DEF StorageInv, StorageTypes, Ends
    <3> QED
      BY <3>1
  <2>2. CASE q # p
    <3>1. at'[q] = at[q] /\ store'[q] = store[q] /\ stage'[q] = stage[q] /\ owner'[q] = owner[q] /\ operations'[q] = operations[q]
      BY <2>2 DEF StorageInv, StorageTypes, Ends
    <3>2. ProcessOK(at[q], store[q], stage[q], owner[q], operations[q])
      BY DEF StorageInv
    <3> QED
      BY <3>1, <3>2
  <2> QED
    BY <2>1, <2>2
<1>4. ASSUME NEW q \in Hosts, NEW r \in Hosts, q # r, Flocked(q)', Flocked(r)' PROVE FALSE
  <2>1. \A t \in Hosts : store'[t] = IF t = p THEN s ELSE store[t]
    BY DEF StorageInv, StorageTypes, Ends
  <2>2. \A t \in Hosts \ {p} : Flocked(t)' => Flocked(t)
    BY <2>1 DEF Flocked
  <2>3. Flocked(p)' => Flocked(p) \/ ~OtherHoldsLock(p)
    BY <2>1 DEF Flocked
  <2>4. ~OtherHoldsLock(p) => \A t \in Hosts \ {p} : ~Flocked(t)
    BY DEF OtherHoldsLock
  <2> QED
    BY <1>4, <2>2, <2>3, <2>4 DEF StorageInv, OneFlock
<1> QED
  BY <1>2, <1>3, <1>4 DEF StorageInv, OneFlock

----------------------------------------------------------------------------
\* The resources of a store, in the order they are taken.
LEMMA HeldValues ==
    ASSUME NEW s, Leased(s)
    PROVE  HeldOf(s) = IF s.handle = "none" THEN {}
                       ELSE IF s.lockFd # "flocked" THEN {"storage-root"}
                       ELSE IF s.db = "none" THEN {"storage-root", "process-lock"}
                       ELSE {"storage-root", "process-lock", "memory"}
BY DEF Leased, Stores, HeldOf

\* What a pass of the closers leaves is what they may leave.
LEMMA ShrinksAfterClosers ==
    ASSUME NEW s, NEW t, Leased(s), Leased(t), Shrinks(s, t)
    PROVE  HeldOf(t) \in Host!AfterClosers(HeldOf(s))
<1>1. s \in Stores /\ t \in Stores
  BY DEF Leased
<1>2. HeldOf(t) \in {HeldOf(s), HeldOf(s) \ {"memory"}, HeldOf(s) \ {"memory", "process-lock"}, {}}
  <2>1. CASE t.handle = "none"
    BY <2>1, HeldValues
  <2>2. CASE t.handle # "none" /\ t.lockFd # "flocked"
    <3>1. HeldOf(t) = {"storage-root"} /\ s.handle # "none"
      BY <2>2, HeldValues, <1>1 DEF Shrinks, Stores
    <3>2. HeldOf(s) \ {"memory", "process-lock"} = {"storage-root"}
      BY <3>1, HeldValues
    <3> QED
      BY <3>1, <3>2
  <2>3. CASE t.handle # "none" /\ t.lockFd = "flocked" /\ t.db = "none"
    <3>1. HeldOf(t) = {"storage-root", "process-lock"} /\ s.handle # "none" /\ s.lockFd = "flocked"
      BY <2>3, HeldValues, <1>1 DEF Shrinks, Stores
    <3>2. HeldOf(s) \ {"memory"} = {"storage-root", "process-lock"}
      BY <3>1, HeldValues
    <3> QED
      BY <3>1, <3>2
  <2>4. CASE t.handle # "none" /\ t.lockFd = "flocked" /\ t.db # "none"
    <3>1. HeldOf(t) = {"storage-root", "process-lock", "memory"} /\ s.handle # "none" /\ s.lockFd = "flocked" /\ s.db # "none"
      BY <2>4, HeldValues, <1>1 DEF Shrinks, Stores
    <3>2. HeldOf(s) = {"storage-root", "process-lock", "memory"}
      BY <3>1, HeldValues
    <3> QED
      BY <3>1, <3>2
  <2> QED
    BY <2>1, <2>2, <2>3, <2>4
<1> QED
  BY <1>2 DEF Host!AfterClosers, Host!Memory, Host!Lock

LEMMA HostInitMaps == StorageInit => Host!HostInit
<1> SUFFICES ASSUME StorageInit PROVE Host!HostInit
  OBVIOUS
<1>1. ASSUME NEW p \in Hosts PROVE HeldBy(p) = {}
  BY DEF StorageInit, NoStore, HeldBy, Flocked
<1>2. [p \in Hosts |-> HeldBy(p)] = [p \in Hosts |-> {}]
  BY <1>1
<1> QED
  BY <1>2 DEF Host!HostInit, StorageInit

LEMMA EndsMaps ==
    ASSUME StorageInv, NEW p \in Hosts, NEW a, NEW s, NEW next, Ends(p, a, s, next)
    PROVE  Host!OpenEnds(p, a, HeldOf(s))
<1>1. \A q \in Hosts : store'[q] = IF q = p THEN s ELSE store[q]
  BY DEF StorageInv, StorageTypes, Ends
<1>2. \A q \in Hosts : HeldBy(q)' = IF q = p THEN HeldOf(s) ELSE HeldBy(q)
  <2> TAKE q \in Hosts
  <2>1. HeldBy(q)' = HeldOf(store'[q]) /\ HeldBy(q) = HeldOf(store[q])
    BY DEF HeldBy, HeldOf, Flocked
  <2> QED
    BY <1>1, <2>1
<1>3. [q \in Hosts |-> HeldBy(q)'] = [[q \in Hosts |-> HeldBy(q)] EXCEPT ![p] = HeldOf(s)]
  BY <1>2
<1> QED
  BY <1>3 DEF Host!OpenEnds, Ends

LEMMA HeldIsHeldOf ==
    ASSUME NEW p \in Hosts
    PROVE  [q \in Hosts |-> HeldBy(q)][p] = HeldOf(store[p])
BY DEF HeldBy, HeldOf, Flocked

----------------------------------------------------------------------------
\* A rollback of s: what it leaves, and where it is stuck.
RolledBack(p, reason, s) ==
    \E t \in Stores, next \in Stages, a \in {reason, "failed"} :
        /\ Ends(p, a, t, next) /\ Fits(t, next) /\ Shrinks(s, t)
        /\ a # "failed" => next = "done"

LEMMA CleanedUpRollsBack ==
    ASSUME NEW p, NEW reason, NEW s, NEW from \in Stages, Leased(s), from = "process-lock" => s.db = "none",
           from = "storage-root" => s.lockFd = "none", CleanedUp(p, reason, s, from)
    PROVE  RolledBack(p, reason, s)
<1>1. PICK r \in Sweep(s, from) : Ends(p, IF r.stuck = "done" THEN reason ELSE "failed", r.store, r.stuck)
  BY DEF CleanedUp
<1>2. Fits(r.store, r.stuck) /\ Shrinks(s, r.store)
  BY SweepLeaves
<1>3. r.store \in Stores /\ r.stuck \in Stages
  BY <1>2 DEF Fits, Leased
<1> QED
  BY <1>1, <1>2, <1>3 DEF RolledBack

\* A rollback in an owner that has not opened keeps the invariant and is one of the
\* ends of a start that DurableHost allows.
LEMMA RollBackKeeps ==
    ASSUME StorageInv, NEW p \in Hosts, owner[p] = "none", operations[p] = 0,
           NEW reason \in {"failed", "lock-held"}, NEW s, Leased(s), s.lockFd = "flocked" => Flocked(p),
           RolledBack(p, reason, s), UNCHANGED <<owner, operations>>
    PROVE  /\ StorageInv'
           /\ \/ \E rest \in Host!AfterClosers(HeldOf(s)) : Host!OpenEnds(p, "failed", rest)
              \/ Host!OpenEnds(p, reason, {})
<1>1. PICK t \in Stores, next \in Stages, a \in {reason, "failed"} :
        /\ Ends(p, a, t, next) /\ Fits(t, next) /\ Shrinks(s, t)
        /\ a # "failed" => next = "done"
  BY DEF RolledBack
<1>2. Leased(t)
  BY <1>1 DEF Fits
<1>3. ProcessOK(a, t, next, "none", operations[p])
  BY <1>1, <1>2 DEF ProcessOK
<1>4. owner' = [owner EXCEPT ![p] = "none"] /\ operations' = operations
  BY DEF StorageInv, StorageTypes
<1>5. t.lockFd = "flocked" => Flocked(p)
  BY <1>1 DEF Shrinks
<1>6. a \in Host!Openings
  BY DEF Host!Openings
<1>7. StorageInv'
  BY <1>1, <1>3, <1>4, <1>5, <1>6, EndsKeeps
<1>8. Host!OpenEnds(p, a, HeldOf(t))
  BY <1>1, EndsMaps
<1>9. HeldOf(t) \in Host!AfterClosers(HeldOf(s))
  BY <1>1, <1>2, ShrinksAfterClosers
<1>10. a # "failed" => HeldOf(t) = {}
  <2> SUFFICES ASSUME a # "failed" PROVE HeldOf(t) = {}
    OBVIOUS
  <2>1. t.handle # "open" /\ t.handle \in {"none", "open"}
    BY <1>1, <1>2 DEF Fits, Leased, Stores
  <2> QED
    BY <2>1, <1>2, HeldValues
<1> QED
  BY <1>7, <1>8, <1>9, <1>10

\* A process that has not opened has no operations and no owner.
LEMMA NotYetOpen ==
    ASSUME StorageInv, NEW p \in Hosts, at[p] # "open"
    PROVE  owner[p] = "none" /\ operations[p] = 0
<1>1. ProcessOK(at[p], store[p], stage[p], owner[p], operations[p]) /\ operations[p] \in Nat
  BY DEF StorageInv, StorageTypes
<1> QED
  BY <1>1 DEF ProcessOK

HostStep(p) ==
    \/ Host!StartOpening(p) \/ Host!OpenStep(p)
    \/ \E rest \in SUBSET Host!Resources : Host!CloseOwner(p, rest)

LEMMA StartHostSteps ==
    ASSUME StorageInv, NEW p \in Hosts, StartHost(p)
    PROVE  StorageInv' /\ HostStep(p)
<1>1. PICK next \in {"storage-root", "unavailable"} : at' = [at EXCEPT ![p] = next]
  BY DEF StartHost
<1>2. at[p] = "none" /\ UNCHANGED <<store, stage, owner, operations>>
  BY DEF StartHost
<1>3. ProcessOK("none", store[p], stage[p], "none", 0) /\ owner[p] = "none" /\ operations[p] = 0
  BY <1>2, NotYetOpen DEF StorageInv
<1>4. Ends(p, next, store[p], stage[p])
  BY <1>1, <1>2 DEF Ends, StorageInv, StorageTypes
<1>5. ProcessOK(next, store[p], stage[p], "none", operations[p])
  BY <1>3 DEF ProcessOK
<1>6. owner' = [owner EXCEPT ![p] = "none"] /\ stage[p] \in Stages /\ next \in Host!Openings
  BY <1>1, <1>2, <1>3 DEF StorageInv, StorageTypes, Host!Openings, Host!Root, Host!Lock, Host!Memory
<1>7. StorageInv'
  BY <1>2, <1>4, <1>5, <1>6, EndsKeeps, <1>3 DEF ProcessOK, Fits, Leased
<1>8. UNCHANGED [q \in Hosts |-> HeldBy(q)]
  BY <1>2 DEF HeldBy, Flocked
<1>9. Host!StartOpening(p)
  BY <1>1, <1>2, <1>8 DEF Host!StartOpening, Host!Root
<1> QED
  BY <1>7, <1>9 DEF HostStep

LEMMA RootSteps ==
    ASSUME StorageInv, NEW p \in Hosts, OpenPosixStorageRoot(p)
    PROVE  StorageInv' /\ HostStep(p)
<1>1. at[p] = "storage-root" /\ UNCHANGED <<owner, operations>>
  BY DEF OpenPosixStorageRoot
<1> DEFINE s0 == store[p]
<1>2. ProcessOK("storage-root", s0, stage[p], "none", 0) /\ owner[p] = "none" /\ operations[p] = 0
  BY <1>1, NotYetOpen DEF StorageInv
<1>3. s0 \in Stores /\ Leased(s0) /\ Fits(s0, "done")
  BY <1>2 DEF ProcessOK, Leased
<1>4. s0.handle = "none" /\ s0.lockFd = "none" /\ s0.db = "none" /\ s0.leases = 0
  BY <1>3 DEF Fits, Leased, Stores
<1> DEFINE leftOpen == [s0 EXCEPT !.handle = "open"]
           opened == [s0 EXCEPT !.handle = "open", !.root = "open"]
<1>5. \/ Ends(p, "failed", s0, "done")
      \/ Ends(p, "failed", leftOpen, "storage-root")
      \/ Ends(p, "process-lock", opened, "done")
  BY DEF OpenPosixStorageRoot, RootFails, RootOpens, Deferred
<1>6. /\ leftOpen \in Stores /\ leftOpen.handle = "open" /\ leftOpen.lockFd = "none"
      /\ leftOpen.db = "none" /\ leftOpen.leases = 0
  BY <1>3, <1>4 DEF Stores
<1>7. /\ opened \in Stores /\ opened.handle = "open" /\ opened.lockFd = "none"
      /\ opened.db = "none" /\ opened.leases = 0 /\ opened.root = "open"
  BY <1>3, <1>4 DEF Stores
<1> HIDE DEF s0, leftOpen, opened
<1>8. owner' = [owner EXCEPT ![p] = "none"] /\ operations' = operations
  BY <1>1, <1>2 DEF StorageInv, StorageTypes
<1>9. {"failed", "process-lock"} \subseteq Host!Openings /\ {"done", "storage-root"} \subseteq Stages
  BY DEF Host!Openings, Host!Root, Host!Lock, Host!Memory, Stages
<1>10. CASE Ends(p, "failed", s0, "done")
  <2>1. ProcessOK("failed", s0, "done", "none", operations[p])
    BY <1>2, <1>3 DEF ProcessOK
  <2>2. StorageInv'
    BY <1>4, <1>8, <1>9, <1>10, <2>1, EndsKeeps
  <2>3. Host!OpenEnds(p, "failed", {})
    BY <1>3, <1>4, <1>10, EndsMaps, HeldValues
  <2> QED
    BY <1>1, <2>2, <2>3 DEF HostStep, Host!OpenStep, Host!OpenRoot, Host!Root
<1>11. CASE Ends(p, "failed", leftOpen, "storage-root")
  <2>1. Leased(leftOpen) /\ Fits(leftOpen, "storage-root")
    BY <1>6 DEF Leased, Fits, Stages
  <2>2. ProcessOK("failed", leftOpen, "storage-root", "none", operations[p])
    BY <1>2, <2>1 DEF ProcessOK
  <2>3. StorageInv'
    BY <1>6, <1>8, <1>9, <1>11, <2>2, EndsKeeps
  <2>4. Host!OpenEnds(p, "failed", {"storage-root"})
    BY <1>6, <1>11, <2>1, EndsMaps, HeldValues
  <2> QED
    BY <1>1, <2>3, <2>4 DEF HostStep, Host!OpenStep, Host!OpenRoot, Host!Root
<1>12. CASE Ends(p, "process-lock", opened, "done")
  <2>1. Leased(opened)
    BY <1>7 DEF Leased
  <2>2. ProcessOK("process-lock", opened, "done", "none", operations[p])
    BY <1>2, <1>7, <2>1 DEF ProcessOK
  <2>3. StorageInv'
    BY <1>7, <1>8, <1>9, <1>12, <2>2, EndsKeeps
  <2>4. Host!OpenEnds(p, "process-lock", {"storage-root"})
    BY <1>7, <1>12, <2>1, EndsMaps, HeldValues
  <2> QED
    BY <1>1, <2>3, <2>4 DEF HostStep, Host!OpenStep, Host!OpenRoot, Host!Root, Host!Lock
<1> QED
  BY <1>5, <1>10, <1>11, <1>12

LEMMA TookIs ==
    ASSUME NEW s \in Stores
    PROVE  /\ Took(s) \in Stores /\ Took(s).leases = s.leases + 1 /\ Took(s).root = s.root
           /\ Took(s).handle = s.handle /\ Took(s).lockFd = s.lockFd /\ Took(s).db = s.db
BY DEF Took, Stores

\* A descriptor that was opened and is not the lock's yet.
LEMMA LockFailsRollsBack ==
    ASSUME NEW p, NEW reason, Leased(store[p]), store[p].root = "open", store[p].handle = "open",
           store[p].lockFd = "none", store[p].db = "none", LockFails(p, reason)
    PROVE  \E s : Leased(s) /\ s.handle = "open" /\ s.lockFd = "open" /\ RolledBack(p, reason, s)
<1> DEFINE s0 == store[p]
           t == [s0 EXCEPT !.lockFd = "open"]
           s == Took(t)
<1>1. s0 \in Stores /\ s0.leases = 0
  BY DEF Leased
<1>2. t \in Stores /\ t.leases = 0 /\ t.root = "open" /\ t.handle = "open" /\ t.lockFd = "open" /\ t.db = "none"
  BY <1>1 DEF Stores
<1>3. PICK r \in CloseLockFd(s) :
        IF r.stuck = "done" THEN CleanedUp(p, reason, r.store, "process-lock")
        ELSE Deferred(p, r.store, r.stuck)
  BY DEF LockFails
<1> HIDE DEF t
<1>4. s \in Stores /\ s.leases = 1 /\ s.root = "open" /\ s.handle = "open" /\ s.lockFd = "open" /\ s.db = "none"
  BY <1>2, TookIs
<1> HIDE DEF s
<1>5. Leased(s)
  BY <1>4 DEF Leased
<1>6. /\ Leased(r.store) /\ r.store.db = "none" /\ r.store.handle = s.handle
      /\ \/ r.stuck = "done" /\ r.store.lockFd = "none"
         \/ r.stuck = "process-lock" /\ r.store = s
  BY <1>4, <1>5, CloseLockLeaves
<1>7. CASE r.stuck = "done"
  <2>1. RolledBack(p, reason, r.store)
    BY <1>3, <1>6, <1>7, CleanedUpRollsBack DEF Stages
  <2>2. \A q : Shrinks(r.store, q) => Shrinks(s, q)
    BY <1>4, <1>6, <1>7 DEF Shrinks
  <2>3. RolledBack(p, reason, s)
    BY <2>1, <2>2 DEF RolledBack
  <2> QED
    BY <1>4, <1>5, <2>3
<1>8. CASE r.stuck = "process-lock"
  <2>1. Ends(p, "failed", s, "process-lock") /\ "process-lock" \in Stages
    BY <1>3, <1>6, <1>8 DEF Deferred, Stages
  <2>2. Fits(s, "process-lock") /\ Shrinks(s, s)
    BY <1>4, <1>5 DEF Fits, Stages, Shrinks
  <2>3. RolledBack(p, reason, s)
    BY <1>4, <2>1, <2>2 DEF RolledBack
  <2> QED
    BY <1>4, <1>5, <2>3
<1> QED
  BY <1>6, <1>7, <1>8

LEMMA LockSteps ==
    ASSUME StorageInv, NEW p \in Hosts, AcquirePosixProcessLock(p)
    PROVE  StorageInv' /\ HostStep(p)
<1>1. at[p] = "process-lock" /\ UNCHANGED <<owner, operations>>
  BY DEF AcquirePosixProcessLock
<1> DEFINE s0 == store[p]
<1>2. ProcessOK("process-lock", s0, stage[p], "none", 0) /\ owner[p] = "none" /\ operations[p] = 0
  BY <1>1, NotYetOpen DEF StorageInv
<1>3. s0 \in Stores /\ Leased(s0) /\ s0.root = "open" /\ s0.handle = "open" /\ s0.lockFd = "none" /\ s0.db = "none"
  BY <1>2 DEF ProcessOK, Leased
<1>4. HeldOf(s0) = {"storage-root"}
  BY <1>3, HeldValues
<1> DEFINE flocked == [s0 EXCEPT !.lockFd = "flocked"]
<1>5. \/ CleanedUp(p, "failed", s0, "process-lock")
      \/ LockFails(p, "failed")
      \/ OtherHoldsLock(p) /\ LockFails(p, "lock-held")
      \/ ~OtherHoldsLock(p) /\ Ends(p, "memory", Took(flocked), "done")
  BY DEF AcquirePosixProcessLock
<1>6. \A rest \in Host!AfterClosers({"storage-root"}) : Host!OpenEnds(p, "failed", rest) => Host!AcquireLock(p)
  BY <1>1, <1>4, HeldIsHeldOf DEF Host!AcquireLock, Host!Lock
<1>7. Host!LockIsFree <=> \A q \in Hosts : ~Flocked(q)
  BY DEF Host!LockIsFree, Host!Lock, HeldBy
<1>8. ASSUME NEW reason \in {"failed", "lock-held"}, LockFails(p, reason), reason = "lock-held" => OtherHoldsLock(p)
      PROVE  StorageInv' /\ HostStep(p)
  <2>1. PICK s : Leased(s) /\ s.handle = "open" /\ s.lockFd = "open" /\ RolledBack(p, reason, s)
    BY <1>3, <1>8, LockFailsRollsBack
  <2>2. HeldOf(s) = {"storage-root"}
    BY <2>1, HeldValues
  <2>3. /\ StorageInv'
        /\ \/ \E rest \in Host!AfterClosers(HeldOf(s)) : Host!OpenEnds(p, "failed", rest)
           \/ Host!OpenEnds(p, reason, {})
    BY <1>1, <1>2, <2>1, RollBackKeeps
  <2>4. {} \in Host!AfterClosers({"storage-root"})
    BY DEF Host!AfterClosers
  <2>5. Host!OpenEnds(p, "lock-held", {}) /\ ~Host!LockIsFree => Host!AcquireLock(p)
    BY <1>1 DEF Host!AcquireLock, Host!Lock
  <2>6. OtherHoldsLock(p) => ~Host!LockIsFree
    BY <1>7 DEF OtherHoldsLock
  <2> QED
    BY <1>6, <1>8, <2>2, <2>3, <2>4, <2>5, <2>6 DEF HostStep, Host!OpenStep
<1>9. CASE CleanedUp(p, "failed", s0, "process-lock")
  <2>1. RolledBack(p, "failed", s0)
    BY <1>3, <1>9, CleanedUpRollsBack DEF Stages
  <2>2. /\ StorageInv'
        /\ \/ \E rest \in Host!AfterClosers(HeldOf(s0)) : Host!OpenEnds(p, "failed", rest)
           \/ Host!OpenEnds(p, "failed", {})
    BY <1>1, <1>2, <1>3, <2>1, RollBackKeeps
  <2>3. {} \in Host!AfterClosers({"storage-root"})
    BY DEF Host!AfterClosers
  <2> QED
    BY <1>4, <1>6, <2>2, <2>3 DEF HostStep, Host!OpenStep
<1>10. CASE ~OtherHoldsLock(p) /\ Ends(p, "memory", Took(flocked), "done")
  <2> DEFINE s == Took(flocked)
  <2>1. flocked \in Stores /\ flocked.lockFd = "flocked" /\ flocked.leases = s0.leases /\ flocked.db = "none"
        /\ flocked.root = "open" /\ flocked.handle = "open"
    BY <1>3 DEF Stores
  <2>2. s0.leases = 0
    BY <1>3 DEF Leased
  <2> HIDE DEF flocked
  <2>3. s \in Stores /\ s.leases = 1 /\ s.root = "open" /\ s.handle = "open" /\ s.lockFd = "flocked" /\ s.db = "none"
    BY <2>1, <2>2, TookIs
  <2>4. Ends(p, "memory", s, "done") /\ "memory" \in Host!Openings /\ "done" \in Stages
    BY <1>10 DEF Host!Openings, Host!Memory, Stages
  <2> HIDE DEF s
  <2>5. Leased(s)
    BY <2>3 DEF Leased
  <2>6. ProcessOK("memory", s, "done", "none", operations[p])
    BY <1>2, <2>3, <2>5 DEF ProcessOK
  <2>7. owner' = [owner EXCEPT ![p] = "none"] /\ operations' = operations
    BY <1>1, <1>2 DEF StorageInv, StorageTypes
  <2>8. StorageInv'
    BY <1>10, <2>4, <2>6, <2>7, EndsKeeps
  <2>9. Host!OpenEnds(p, "memory", {"storage-root"} \cup {"process-lock"})
    <3>1. HeldOf(s) = {"storage-root"} \cup {"process-lock"}
      BY <2>3, <2>5, HeldValues
    <3> QED
      BY <2>4, <3>1, EndsMaps
  <2>10. Host!LockIsFree
    BY <1>3, <1>7, <1>10 DEF OtherHoldsLock, Flocked
  <2>11. Host!AcquireLock(p)
    BY <1>1, <1>4, <2>9, <2>10, HeldIsHeldOf DEF Host!AcquireLock, Host!Lock, Host!Memory
  <2> QED
    BY <2>8, <2>11 DEF HostStep, Host!OpenStep
<1> QED
  BY <1>5, <1>8, <1>9, <1>10

LEMMA DatabaseFailsRollsBack ==
    ASSUME NEW p, NEW s, s = Took([store[p] EXCEPT !.db = "open"]), Leased(s), s.db = "open", DatabaseFails(p)
    PROVE  RolledBack(p, "failed", s)
<1>1. PICK r \in CloseDatabase(s) :
        IF r.stuck = "done" THEN CleanedUp(p, "failed", r.store, "memory")
        ELSE Deferred(p, r.store, "memory")
  BY DEF DatabaseFails
<1>2. /\ Leased(r.store) /\ r.store.lockFd = s.lockFd /\ r.store.handle = s.handle
      /\ \/ r.stuck = "done" /\ r.store.db = "none"
         \/ r.stuck = "memory" /\ r.store.db # "none"
  BY CloseDatabaseLeaves
<1>3. CASE r.stuck = "done"
  <2>1. RolledBack(p, "failed", r.store)
    BY <1>1, <1>2, <1>3, CleanedUpRollsBack DEF Stages
  <2>2. \A q : Shrinks(r.store, q) => Shrinks(s, q)
    BY <1>2 DEF Shrinks
  <2> QED
    BY <2>1, <2>2 DEF RolledBack
<1>4. CASE r.stuck = "memory"
  <2>1. Ends(p, "failed", r.store, "memory") /\ "memory" \in Stages /\ r.store \in Stores
    BY <1>1, <1>2, <1>4 DEF Deferred, Stages, Leased
  <2>2. Fits(r.store, "memory") /\ Shrinks(s, r.store)
    BY <1>2, <1>4 DEF Fits, Stages, Shrinks, Leased
  <2> QED
    BY <2>1, <2>2 DEF RolledBack
<1> QED
  BY <1>2, <1>3, <1>4

LEMMA MemorySteps ==
    ASSUME StorageInv, NEW p \in Hosts, CreateSqliteMemoryPort(p)
    PROVE  StorageInv' /\ HostStep(p)
<1>1. at[p] = "memory" /\ UNCHANGED operations
  BY DEF CreateSqliteMemoryPort
<1> DEFINE s0 == store[p]
           connected == [s0 EXCEPT !.db = "open"]
           s == Took(connected)
<1>2. ProcessOK("memory", s0, stage[p], "none", 0) /\ owner[p] = "none" /\ operations[p] = 0
  BY <1>1, NotYetOpen DEF StorageInv
<1>3. s0 \in Stores /\ Leased(s0) /\ s0.root = "open" /\ s0.handle = "open" /\ s0.lockFd = "flocked" /\ s0.db = "none"
  BY <1>2 DEF ProcessOK, Leased
<1>4. \/ CleanedUp(p, "failed", s0, "memory") /\ UNCHANGED owner
      \/ DatabaseFails(p) /\ UNCHANGED owner
      \/ Ends(p, "open", s, "memory") /\ owner' = [owner EXCEPT ![p] = "open"]
      \/ CleanedUp(p, "failed", s, "memory") /\ UNCHANGED owner
  BY DEF CreateSqliteMemoryPort, AssembleHost
<1>5. /\ connected \in Stores /\ connected.db = "open" /\ connected.leases = s0.leases
      /\ connected.lockFd = "flocked" /\ connected.root = "open" /\ connected.handle = "open"
  BY <1>3 DEF Stores
<1>6. s0.leases = 1
  BY <1>3 DEF Leased
<1>7. s = Took([store[p] EXCEPT !.db = "open"])
  OBVIOUS
<1>8. Flocked(p)
  BY <1>3 DEF Flocked
<1> HIDE DEF connected
<1>9. s \in Stores /\ s.leases = 2 /\ s.root = "open" /\ s.handle = "open" /\ s.lockFd = "flocked" /\ s.db = "open"
  BY <1>5, <1>6, TookIs
<1> HIDE DEF s, s0
<1>10. Leased(s)
  BY <1>9 DEF Leased
<1>11. HeldOf(s) = Host!Resources
  BY <1>9, <1>10, HeldValues DEF Host!Resources, Host!Root, Host!Lock, Host!Memory
<1>12. HeldOf(s0) = {"storage-root", "process-lock"}
  BY <1>3, HeldValues
<1>13. \A rest \in Host!AfterClosers(Host!Resources) : Host!OpenEnds(p, "failed", rest) => Host!OpenMemory(p)
  BY <1>1 DEF Host!OpenMemory, Host!Memory
<1>14. /\ Host!AfterClosers(HeldOf(s0)) \subseteq Host!AfterClosers(Host!Resources)
       /\ {} \in Host!AfterClosers(Host!Resources)
  BY <1>12 DEF Host!AfterClosers, Host!Resources, Host!Root, Host!Lock, Host!Memory
<1>15. ASSUME NEW t \in {s0, s}, RolledBack(p, "failed", t), UNCHANGED owner
       PROVE  StorageInv' /\ HostStep(p)
  <2>1. /\ StorageInv'
        /\ \/ \E rest \in Host!AfterClosers(HeldOf(t)) : Host!OpenEnds(p, "failed", rest)
           \/ Host!OpenEnds(p, "failed", {})
    BY <1>1, <1>2, <1>3, <1>8, <1>10, <1>15, RollBackKeeps
  <2> QED
    BY <1>11, <1>13, <1>14, <1>15, <2>1 DEF HostStep, Host!OpenStep
<1>16. CASE CleanedUp(p, "failed", s0, "memory") /\ UNCHANGED owner
  <2>1. RolledBack(p, "failed", s0)
    BY <1>3, <1>16, CleanedUpRollsBack DEF Stages
  <2> QED
    BY <1>15, <1>16, <2>1
<1>17. CASE CleanedUp(p, "failed", s, "memory") /\ UNCHANGED owner
  <2>1. RolledBack(p, "failed", s)
    BY <1>10, <1>17, CleanedUpRollsBack DEF Stages
  <2> QED
    BY <1>15, <1>17, <2>1
<1>18. CASE DatabaseFails(p) /\ UNCHANGED owner
  <2>1. RolledBack(p, "failed", s)
    BY <1>7, <1>9, <1>10, <1>18, DatabaseFailsRollsBack
  <2> QED
    BY <1>15, <1>18, <2>1
<1>19. CASE Ends(p, "open", s, "memory") /\ owner' = [owner EXCEPT ![p] = "open"]
  <2>1. "open" \in Host!Openings /\ "memory" \in Stages
    BY DEF Host!Openings, Stages
  <2>2. Fits(s, "memory")
    BY <1>9, <1>10 DEF Fits, Stages
  <2>3. ProcessOK("open", s, "memory", "open", operations[p])
    BY <1>2, <1>9, <1>10, <2>2 DEF ProcessOK
  <2>4. StorageInv'
    BY <1>1, <1>8, <1>19, <2>1, <2>3, EndsKeeps
  <2>5. Host!OpenEnds(p, "open", Host!Resources)
    BY <1>11, <1>19, EndsMaps
  <2> QED
    BY <1>1, <2>4, <2>5 DEF HostStep, Host!OpenStep, Host!OpenMemory, Host!Memory
<1> QED
  BY <1>4, <1>16, <1>17, <1>18, <1>19

\* A pass of the closers over a store that waits for it, by the caller's retry or by
\* the owner's close.
LEMMA PassKeeps ==
    ASSUME StorageInv, NEW p \in Hosts, at[p] \in {"failed", "open"}, operations[p] = 0,
           NEW r \in Sweep(store[p], stage[p]), Ends(p, at[p], r.store, r.stuck), UNCHANGED operations,
           NEW o, owner' = [owner EXCEPT ![p] = o],
           \/ o = "none"
           \/ at[p] = "open" /\ o \in {"close-pending", "closed"}
    PROVE  StorageInv' /\ HostStep(p)
<1> DEFINE s0 == store[p]
<1>1. Fits(s0, stage[p]) /\ Leased(s0) /\ stage[p] \in Stages
  BY DEF StorageInv, ProcessOK, Fits
<1>2. /\ stage[p] = "process-lock" => s0.db = "none"
      /\ stage[p] = "storage-root" => s0.lockFd = "none"
  BY <1>1 DEF Fits
<1>3. Fits(r.store, r.stuck) /\ Shrinks(s0, r.store)
  BY <1>1, <1>2, SweepLeaves
<1>4. Leased(r.store) /\ r.stuck \in Stages
  BY <1>3 DEF Fits
<1>5. ProcessOK(at[p], r.store, r.stuck, o, operations[p])
  BY <1>3, <1>4 DEF ProcessOK
<1>6. r.store.lockFd = "flocked" => Flocked(p)
  BY <1>3 DEF Shrinks, Flocked
<1>7. StorageInv'
  BY <1>4, <1>5, <1>6, EndsKeeps DEF StorageInv, StorageTypes
<1>8. Host!OpenEnds(p, at[p], HeldOf(r.store))
  BY EndsMaps
<1>9. HeldOf(r.store) \in Host!AfterClosers(HeldOf(s0))
  BY <1>1, <1>3, <1>4, ShrinksAfterClosers
<1>10. HeldOf(r.store) \in SUBSET Host!Resources
  BY DEF HeldOf, Host!Resources, Host!Root, Host!Lock, Host!Memory
<1>11. Host!CloseOwner(p, HeldOf(r.store))
  BY <1>8, <1>9, HeldIsHeldOf DEF Host!CloseOwner, Host!OpenEnds
<1> QED
  BY <1>7, <1>10, <1>11 DEF HostStep

LEMMA RetrySteps ==
    ASSUME StorageInv, NEW p \in Hosts, RetryCleanup(p)
    PROVE  StorageInv' /\ HostStep(p)
<1>1. PICK r \in Sweep(store[p], stage[p]) : Ends(p, "failed", r.store, r.stuck)
  BY DEF RetryCleanup
<1>2. at[p] = "failed" /\ UNCHANGED <<owner, operations>>
  BY DEF RetryCleanup
<1>3. owner[p] = "none" /\ operations[p] = 0
  BY <1>2, NotYetOpen
<1>4. owner' = [owner EXCEPT ![p] = "none"]
  BY <1>2, <1>3 DEF StorageInv, StorageTypes
<1> QED
  BY <1>1, <1>2, <1>3, <1>4, PassKeeps

\* An operation begins or ends, or a close finds one running: the store is as it was.
LEMMA OwnerKeeps ==
    ASSUME StorageInv, NEW p \in Hosts, NEW o \in {"open", "close-pending"}, NEW n \in Nat,
           owner[p] = "open" \/ o = owner[p], operations[p] > 0 \/ owner[p] = "open",
           owner' = [owner EXCEPT ![p] = o], operations' = [operations EXCEPT ![p] = n], UNCHANGED <<at, store, stage>>
    PROVE  StorageInv'
<1>1. StorageTypes'
  BY DEF StorageInv, StorageTypes
<1>2. ASSUME NEW q \in Hosts PROVE ProcessOK(at[q], store[q], stage[q], owner[q], operations[q])'
  <2>1. ProcessOK(at[q], store[q], stage[q], owner[q], operations[q])
    BY DEF StorageInv
  <2>2. CASE q = p
    <3>1. owner'[q] = o /\ operations'[q] = n
      BY <2>2 DEF StorageInv, StorageTypes
    <3>2. at[q] = "open" /\ store[q].db = "open"
      BY <2>1, <2>2 DEF ProcessOK
    <3>3. ProcessOK(at[q], store[q], stage[q], o, n)
      BY <2>1, <3>2 DEF ProcessOK
    <3> QED
      BY <3>1, <3>3
  <2>3. CASE q # p
    BY <2>1, <2>3 DEF StorageInv, StorageTypes
  <2> QED
    BY <2>2, <2>3
<1>3. OneFlock'
  BY DEF StorageInv, OneFlock, Flocked
<1> QED
  BY <1>1, <1>2, <1>3 DEF StorageInv

LEMMA StartOperationSteps ==
    ASSUME StorageInv, NEW p \in Hosts, StartOperation(p)
    PROVE  StorageInv' /\ UNCHANGED <<at, store>>
<1>1. operations[p] + 1 \in Nat /\ owner' = [owner EXCEPT ![p] = "open"]
  BY DEF StartOperation, StorageInv, StorageTypes
<1> QED
  BY <1>1, OwnerKeeps DEF StartOperation

LEMMA FinishOperationSteps ==
    ASSUME StorageInv, NEW p \in Hosts, FinishOperation(p)
    PROVE  StorageInv' /\ UNCHANGED <<at, store>>
<1>1. operations[p] - 1 \in Nat /\ owner' = [owner EXCEPT ![p] = owner[p]]
  BY DEF FinishOperation, StorageInv, StorageTypes
<1>2. operations[p] > 0 /\ owner[p] \in {"open", "close-pending"}
  BY DEF FinishOperation, StorageInv, ProcessOK
<1> QED
  BY <1>1, <1>2, OwnerKeeps DEF FinishOperation

LEMMA CloseHostOwnerSteps ==
    ASSUME StorageInv, NEW p \in Hosts, CloseHostOwner(p)
    PROVE  StorageInv' /\ (HostStep(p) \/ UNCHANGED <<at, store>>)
<1>1. owner[p] \in {"open", "close-pending"} /\ UNCHANGED operations /\ at[p] = "open"
  BY DEF CloseHostOwner, StorageInv, ProcessOK
<1>2. CASE operations[p] > 0 /\ owner' = [owner EXCEPT ![p] = "close-pending"] /\ UNCHANGED <<at, store, stage>>
  <2>1. operations' = [operations EXCEPT ![p] = operations[p]] /\ operations[p] \in Nat
    BY <1>1 DEF StorageInv, StorageTypes
  <2> QED
    BY <1>1, <1>2, <2>1, OwnerKeeps
<1>3. CASE operations[p] = 0 /\ \E r \in Sweep(store[p], stage[p]) :
               /\ Ends(p, "open", r.store, r.stuck)
               /\ owner' = [owner EXCEPT ![p] = IF r.stuck = "done" THEN "closed" ELSE "close-pending"]
  <2>1. PICK r \in Sweep(store[p], stage[p]) :
               /\ Ends(p, "open", r.store, r.stuck)
               /\ owner' = [owner EXCEPT ![p] = IF r.stuck = "done" THEN "closed" ELSE "close-pending"]
    BY <1>3
  <2> DEFINE o == IF r.stuck = "done" THEN "closed" ELSE "close-pending"
  <2>2. owner' = [owner EXCEPT ![p] = o] /\ o \in {"close-pending", "closed"}
    BY <2>1
  <2> HIDE DEF o
  <2> QED
    BY <1>1, <1>3, <2>1, <2>2, PassKeeps
<1> QED
  BY <1>2, <1>3 DEF CloseHostOwner

LEMMA StorageStepKeeps ==
    ASSUME StorageInv, NEW p \in Hosts, StorageStep(p)
    PROVE  StorageInv' /\ (HostStep(p) \/ UNCHANGED <<at, store>>)
BY StartHostSteps, RootSteps, LockSteps, MemorySteps, RetrySteps, StartOperationSteps,
   FinishOperationSteps, CloseHostOwnerSteps DEF StorageStep

LEMMA StorageInvStep == StorageInv /\ [StorageNext]_storageVars => StorageInv'
<1> SUFFICES ASSUME StorageInv, [StorageNext]_storageVars PROVE StorageInv'
  OBVIOUS
<1>1. CASE StorageNext
  BY <1>1, StorageStepKeeps DEF StorageNext
<1>2. CASE UNCHANGED storageVars
  BY <1>2 DEF storageVars, StorageInv, StorageTypes, OneFlock, Flocked
<1> QED
  BY <1>1, <1>2

LEMMA StorageAlwaysInv == StorageSpec => []StorageInv
BY StorageInitInv, StorageInvStep, PTL DEF StorageSpec

LEMMA StoreIsHeldByInv == StorageInv => StoreIsHeldWhileUsed
<1> SUFFICES ASSUME StorageInv PROVE StoreIsHeldWhileUsed
  OBVIOUS
<1>1. OperationsHaveTheStore
  <2> SUFFICES ASSUME NEW p \in Hosts, operations[p] > 0
               PROVE  /\ store[p].db = "open" /\ Flocked(p) /\ ~OtherHoldsLock(p)
                      /\ store[p].root = "open" /\ store[p].handle = "open"
    BY DEF OperationsHaveTheStore
  <2>1. store[p].db = "open" /\ Leased(store[p])
    BY DEF StorageInv, ProcessOK
  <2>2. store[p].lockFd = "flocked" /\ store[p].root = "open" /\ store[p].handle = "open"
    BY <2>1 DEF Leased
  <2>3. Flocked(p) /\ ~OtherHoldsLock(p)
    BY <2>2 DEF StorageInv, OneFlock, Flocked, OtherHoldsLock
  <2> QED
    BY <2>1, <2>2, <2>3
<1>2. LeasesAreTheUsers
  <2> SUFFICES ASSUME NEW p \in Hosts
               PROVE  LET s == store[p]
                          users == {u \in {"lockFd", "db"} : s[u] # "none"} IN
                      /\ s.leases = Cardinality(users)
                      /\ users # {} => s.root = "open" /\ s.handle = "open"
    BY DEF LeasesAreTheUsers
  <2> DEFINE s == store[p]
             users == {u \in {"lockFd", "db"} : s[u] # "none"}
  <2>1. Leased(s)
    BY DEF StorageInv, ProcessOK
  <2>2. users = (IF s.lockFd = "none" THEN {} ELSE {"lockFd"}) \cup (IF s.db = "none" THEN {} ELSE {"db"})
    OBVIOUS
  <2>3. Cardinality({}) = 0 /\ Cardinality({"lockFd"}) = 1 /\ Cardinality({"db"}) = 1
    BY FS_EmptySet, FS_Singleton
  <2>4. Cardinality({"lockFd"} \cup {"db"}) = 2
    <3>1. Cardinality({"lockFd"} \cup {"db"}) = Cardinality({"lockFd"}) + 1
      BY FS_Singleton, FS_AddElement
    <3> QED
      BY <2>3, <3>1
  <2>5. s.db # "none" => s.lockFd # "none"
    BY <2>1 DEF Leased
  <2>6. s.leases = Cardinality(users)
    <3>1. CASE s.lockFd = "none"
      BY <2>1, <2>2, <2>3, <2>5, <3>1 DEF Leased
    <3>2. CASE s.lockFd # "none" /\ s.db = "none"
      <4>1. users = {"lockFd"} /\ s.leases = 1
        BY <2>1, <2>2, <3>2 DEF Leased
      <4> QED
        BY <2>3, <4>1
    <3>3. CASE s.lockFd # "none" /\ s.db # "none"
      <4>1. users = {"lockFd"} \cup {"db"} /\ s.leases = 2
        BY <2>1, <2>2, <3>3 DEF Leased
      <4> QED
        BY <2>4, <4>1
    <3> QED
      BY <3>1, <3>2, <3>3
  <2>7. users # {} => s.root = "open" /\ s.handle = "open"
    BY <2>1, <2>2, <2>5 DEF Leased
  <2> QED
    BY <2>6, <2>7
<1> QED
  BY <1>1, <1>2 DEF StoreIsHeldWhileUsed

\* Whatever fails between the opening of the root and the last close, and however
\* often a close is tried again while operations run: an operation of the host has
\* its database, its lock and its root, and the leases of the root are those of the
\* descriptor and the connection (StoreIsHeldWhileUsed, the durable composition).
THEOREM StoreIsAlwaysHeldWhileUsed == StorageSpec => []StoreIsHeldWhileUsed
BY StorageAlwaysInv, StoreIsHeldByInv, PTL

\* Each step of the composition, its roll-backs, deferred clean-ups and retries
\* among them, is a step of DurableHost or none that it speaks of
\* (ImplementsDurableHost): what is proved of the process over DurableHost holds over
\* the composition.
THEOREM StorageImplementsHost == StorageSpec => ImplementsDurableHost
<1>1. StorageInv /\ [StorageNext]_storageVars
        => [\E p \in Hosts :
              \/ Host!StartOpening(p) \/ Host!OpenStep(p)
              \/ \E rest \in SUBSET Host!Resources : Host!CloseOwner(p, rest)]_<<at, store>>
  <2> SUFFICES ASSUME StorageInv, [StorageNext]_storageVars
               PROVE  [\E p \in Hosts : HostStep(p)]_<<at, store>>
    BY DEF HostStep
  <2>1. CASE StorageNext
    BY <2>1, StorageStepKeeps DEF StorageNext
  <2>2. CASE UNCHANGED storageVars
    BY <2>2 DEF storageVars
  <2> QED
    BY <2>1, <2>2
<1> QED
  BY <1>1, HostInitMaps, StorageAlwaysInv, PTL DEF StorageSpec, ImplementsDurableHost

----------------------------------------------------------------------------
(* The database files.  First what the prover needs to know of a list of     *)
(* checks; then of the columns a table is declared with, piece by piece:     *)
(* what table_info lists of them is what the verification expects.           *)

LEMMA LeastIsMin ==
    ASSUME NEW S, S \subseteq Nat, S # {}
    PROVE  Min(S) \in S
<1>1. PICK least \in S : \A i \in S : ~(<<i, least>> \in OpToRel(<, Nat))
  BY WFMin, NatLessThanWellFounded
<1>2. \A i \in S : <<i, least>> \in Nat \X Nat /\ ~(i < least)
  BY <1>1 DEF OpToRel
<1>3. ASSUME NEW i \in S
      PROVE  least <= i
  <2>1. i \in Nat /\ least \in Nat /\ ~(i < least)
    BY <1>1, <1>2
  <2> QED
    BY <2>1
<1> QED
  BY <1>1, <1>3 DEF Min

LEMMA FirstFailureFails ==
    ASSUME NEW checks, DOMAIN checks \subseteq Nat, FirstFailure(checks) # "ok"
    PROVE  \E i \in DOMAIN checks : FirstFailure(checks) = checks[i]
<1> DEFINE failing == {i \in DOMAIN checks : Fails(checks[i])}
<1>1. /\ failing # {} /\ failing \subseteq Nat /\ failing \subseteq DOMAIN checks
      /\ FirstFailure(checks) = checks[Min(failing)]
  BY DEF FirstFailure, Fails
<1> HIDE DEF failing
<1>2. Min(failing) \in failing
  BY <1>1, LeastIsMin
<1> QED
  BY <1>1, <1>2

LEMMA FirstFailurePasses ==
    ASSUME NEW checks, DOMAIN checks \subseteq Nat, FirstFailure(checks) = "ok", NEW i \in DOMAIN checks
    PROVE  checks[i] = "ok"
<1> DEFINE failing == {j \in DOMAIN checks : Fails(checks[j])}
<1>1. SUFFICES ASSUME failing # {}
               PROVE  FALSE
  BY DEF Fails
<1>2. /\ FirstFailure(checks) = checks[Min(failing)]
      /\ failing \subseteq Nat /\ \A j \in failing : checks[j] # "ok"
  BY <1>1 DEF FirstFailure, Fails
<1> HIDE DEF failing
<1>3. Min(failing) \in failing
  BY <1>1, <1>2, LeastIsMin
<1> QED
  BY <1>2, <1>3

ColumnNames ==
    {"id", "schema_version", "insertion_ordinal", "owner_id", "namespace", "record_id", "content", "source_json",
     "provenance_json", "privacy_classification", "trust_level", "retention_json", "created_at", "updated_at",
     "turn_id", "transport_instance_id", "idempotency_key", "state", "turn_revision", "conversation_sequence",
     "conversation_id", "correlation_id", "delivery_status", "checkpoint_status", "audit_start_status",
     "audit_completion_status", "llm_outcome", "error_code", "observed_at", "next_sequence", "recorded_at",
     "revision", "pause_state", "checkpoint_revision", "active_context_json", "summary_json", "fingerprint",
     "op_kind", "revision_after", "operation_kind", "policy_version", "timestamp", "metadata_json", "output_digest",
     "expires_at", "sealed_binding_version", "plaintext_payload", "scrubbed", "outcome"}
DeclaredColumns == ColumnNames \X {"TEXT", "INTEGER"} \X {0, 1} \X Nat

\* The columns a strict table is listed with.
StoredColumn(c) == IF c[4] > 0 /\ c[2] # "INTEGER" THEN [c EXCEPT ![3] = 1] ELSE c
Stored(columns) == [i \in DOMAIN columns |-> StoredColumn(columns[i])]

LEMMA StoredJoins ==
    ASSUME NEW s \in Seq(DeclaredColumns), NEW t \in Seq(DeclaredColumns)
    PROVE  Stored(s \o t) = Stored(s) \o Stored(t) /\ s \o t \in Seq(DeclaredColumns)
<1>1. Stored(s \o t) = Stored(s) \o Stored(t)
  BY DEF Stored
<1> QED
  BY <1>1

LEMMA DeclaredPlain ==
    ASSUME NEW names \in Seq(ColumnNames), NEW type \in {"TEXT", "INTEGER"}, NEW notnull \in {0, 1}
    PROVE  /\ Columns(type, notnull, names) \in Seq(DeclaredColumns)
           /\ Stored(Columns(type, notnull, names)) = Columns(type, notnull, names)
<1>1. Columns(type, notnull, names) \in Seq(DeclaredColumns)
  BY DEF Columns, DeclaredColumns
<1>2. \A i \in DOMAIN names : StoredColumn(Columns(type, notnull, names)[i]) = Columns(type, notnull, names)[i]
  BY DEF StoredColumn, Columns
<1>3. DOMAIN Columns(type, notnull, names) = DOMAIN names
  BY DEF Columns
<1> QED
  BY <1>1, <1>2, <1>3 DEF Stored, Columns

LEMMA DeclaredTexts ==
    ASSUME NEW names \in Seq(ColumnNames)
    PROVE  /\ Texts(names) \in Seq(DeclaredColumns) /\ Stored(Texts(names)) = Texts(names)
           /\ Optional(names) \in Seq(DeclaredColumns) /\ Stored(Optional(names)) = Optional(names)
           /\ Integers(names) \in Seq(DeclaredColumns) /\ Stored(Integers(names)) = Integers(names)
           /\ Columns("INTEGER", 0, names) \in Seq(DeclaredColumns)
           /\ Stored(Columns("INTEGER", 0, names)) = Columns("INTEGER", 0, names)
BY DeclaredPlain DEF Texts, Optional, Integers

LEMMA DeclaredKeys ==
    ASSUME NEW names \in Seq(ColumnNames)
    PROVE  Keys(names) \in Seq(DeclaredColumns) /\ Stored(Keys(names)) = Keys(names)
BY DEF Stored, StoredColumn, Keys, DeclaredColumns

LEMMA DeclaredKey ==
    ASSUME NEW name \in ColumnNames
    PROVE  /\ TextKey(name) \in Seq(DeclaredColumns) /\ Stored(TextKey(name)) = Keys(<<name>>)
           /\ RowId(name) \in Seq(DeclaredColumns) /\ Stored(RowId(name)) = RowId(name)
BY DEF Stored, StoredColumn, TextKey, RowId, Keys, DeclaredColumns

Kept(made, want) == made \in Seq(DeclaredColumns) /\ want \in Seq(DeclaredColumns) /\ Stored(made) = want

LEMMA KeptJoins ==
    ASSUME NEW s, NEW t, NEW u, NEW v, Kept(s, t), Kept(u, v)
    PROVE  Kept(s \o u, t \o v)
BY StoredJoins DEF Kept

LEMMA KeptPieces ==
    ASSUME NEW names \in Seq(ColumnNames)
    PROVE  /\ Kept(Texts(names), Texts(names)) /\ Kept(Optional(names), Optional(names))
           /\ Kept(Integers(names), Integers(names)) /\ Kept(Columns("INTEGER", 0, names), Columns("INTEGER", 0, names))
           /\ Kept(Keys(names), Keys(names))
BY DeclaredTexts, DeclaredKeys DEF Kept

LEMMA KeptKey ==
    ASSUME NEW name \in ColumnNames
    PROVE  Kept(TextKey(name), Keys(<<name>>)) /\ Kept(RowId(name), RowId(name))
<1>1. <<name>> \in Seq(ColumnNames)
  OBVIOUS
<1> QED
  BY <1>1, DeclaredKey, DeclaredKeys DEF Kept

LEMMA NamesAreNames ==
    /\ <<"op_kind">> \in Seq(ColumnNames)
    /\ <<"turn_id">> \in Seq(ColumnNames)
    /\ <<"revision">> \in Seq(ColumnNames)
    /\ <<"scrubbed">> \in Seq(ColumnNames)
    /\ <<"error_code">> \in Seq(ColumnNames)
    /\ <<"created_at">> \in Seq(ColumnNames)
    /\ <<"fingerprint">> \in Seq(ColumnNames)
    /\ <<"llm_outcome">> \in Seq(ColumnNames)
    /\ <<"next_sequence">> \in Seq(ColumnNames)
    /\ <<"metadata_json">> \in Seq(ColumnNames)
    /\ <<"turn_revision">> \in Seq(ColumnNames)
    /\ <<"schema_version">> \in Seq(ColumnNames)
    /\ <<"revision_after">> \in Seq(ColumnNames)
    /\ <<"idempotency_key">> \in Seq(ColumnNames)
    /\ <<"plaintext_payload">> \in Seq(ColumnNames)
    /\ <<"checkpoint_revision">> \in Seq(ColumnNames)
    /\ <<"conversation_sequence">> \in Seq(ColumnNames)
    /\ <<"turn_id", "created_at">> \in Seq(ColumnNames)
    /\ <<"turn_id", "recorded_at">> \in Seq(ColumnNames)
    /\ <<"observed_at", "updated_at">> \in Seq(ColumnNames)
    /\ <<"turn_id", "correlation_id">> \in Seq(ColumnNames)
    /\ <<"llm_outcome", "error_code">> \in Seq(ColumnNames)
    /\ <<"owner_id", "conversation_id">> \in Seq(ColumnNames)
    /\ <<"pause_state", "checkpoint_status">> \in Seq(ColumnNames)
    /\ <<"expires_at", "sealed_binding_version">> \in Seq(ColumnNames)
    /\ <<"turn_id", "correlation_id", "created_at">> \in Seq(ColumnNames)
    /\ <<"idempotency_key", "outcome", "recorded_at">> \in Seq(ColumnNames)
    /\ <<"turn_id", "correlation_id", "output_digest">> \in Seq(ColumnNames)
    /\ <<"owner_id", "conversation_id", "correlation_id">> \in Seq(ColumnNames)
    /\ <<"owner_id", "conversation_id", "idempotency_key">> \in Seq(ColumnNames)
    /\ <<"transport_instance_id", "idempotency_key", "state">> \in Seq(ColumnNames)
    /\ <<"active_context_json", "summary_json", "fingerprint", "updated_at">> \in Seq(ColumnNames)
    /\ <<"delivery_status", "checkpoint_status", "audit_start_status", "audit_completion_status">> \in Seq(ColumnNames)
    /\ <<"turn_id", "correlation_id", "owner_id", "conversation_id", "operation_kind", "policy_version",
         "timestamp">> \in Seq(ColumnNames)
    /\ <<"owner_id", "namespace", "record_id", "content", "source_json", "provenance_json",
         "privacy_classification", "trust_level", "retention_json", "created_at", "updated_at">> \in Seq(ColumnNames)
BY DEF ColumnNames

LEMMA JoinIsAssociative ==
    ASSUME NEW s \in Seq(DeclaredColumns), NEW t \in Seq(DeclaredColumns), NEW u \in Seq(DeclaredColumns)
    PROVE  s \o (t \o u) = s \o t \o u
OBVIOUS

\* The verification expects the columns that the CREATE statement makes.
AsExpected(table, name) == Kept(table.columns, ExpectedColumns(name)) /\ table.strict

LEMMA OwnTables ==
    /\ AsExpected(Meta, "memory_meta") /\ AsExpected(RecordsTable, "memory_records")
    /\ \A name \in CommunicationTables : AsExpected(CommunicationTable(name), name)
<1>1. /\ Kept(TextKey("turn_id"), Keys(<<"turn_id">>)) /\ Kept(TextKey("idempotency_key"), Keys(<<"idempotency_key">>))
      /\ Kept(RowId("id"), RowId("id")) /\ Kept(RowId("insertion_ordinal"), RowId("insertion_ordinal"))
  BY KeptKey DEF ColumnNames
<1>2. Kept(Statuses, Texts(<<"delivery_status", "checkpoint_status", "audit_start_status", "audit_completion_status">>))
  BY KeptPieces, NamesAreNames DEF Statuses
<1>3. AsExpected(Meta, "memory_meta") /\ AsExpected(Meta, "communication_meta")
  BY <1>1, KeptPieces, KeptJoins, NamesAreNames DEF AsExpected, ExpectedColumns, Table, Meta
<1>4. AsExpected(RecordsTable, "memory_records")
  BY <1>1, KeptPieces, KeptJoins, NamesAreNames DEF AsExpected, ExpectedColumns, Table, RecordsTable
<1>5. AsExpected(CommunicationTable("turns"), "turns")
  BY <1>1, <1>2, KeptPieces, KeptJoins, NamesAreNames DEF AsExpected, CommunicationTable, ExpectedColumns, Table
<1>6. /\ AsExpected(CommunicationTable("turn_dedup"), "turn_dedup")
      /\ AsExpected(CommunicationTable("sequence_counters"), "sequence_counters")
  BY <1>1, <1>2, KeptPieces, KeptJoins, NamesAreNames DEF AsExpected, CommunicationTable, ExpectedColumns, Table
<1>7. AsExpected(CommunicationTable("factual_history"), "factual_history")
  BY <1>1, <1>2, KeptPieces, KeptJoins, NamesAreNames DEF AsExpected, CommunicationTable, ExpectedColumns, Table
<1>8. AsExpected(CommunicationTable("conversation_snapshots"), "conversation_snapshots")
  BY <1>1, <1>2, KeptPieces, KeptJoins, NamesAreNames DEF AsExpected, CommunicationTable, ExpectedColumns, Table
<1>9. AsExpected(CommunicationTable("checkpoint_ops"), "checkpoint_ops")
  <2> DEFINE keys == Keys(<<"owner_id", "conversation_id", "idempotency_key">>) kind == Texts(<<"op_kind">>)
             print == Optional(<<"fingerprint">>) after == Columns("INTEGER", 0, <<"revision_after">>)
             moment == Texts(<<"created_at">>)
  <2>1. Kept(keys, keys) /\ Kept(kind, kind) /\ Kept(print, print) /\ Kept(after, after) /\ Kept(moment, moment)
    BY KeptPieces, NamesAreNames
  <2>2. /\ CommunicationTable("checkpoint_ops").columns = keys \o kind \o print \o after \o moment
        /\ CommunicationTable("checkpoint_ops").strict
        /\ ExpectedColumns("checkpoint_ops") = keys \o kind \o (print \o after \o moment)
    BY DEF CommunicationTable, ExpectedColumns, CheckpointOpsRest, Table
  <2> HIDE DEF keys, kind, print, after, moment
  <2>3. Kept(keys \o kind, keys \o kind) /\ Kept(print \o after, print \o after)
    BY <2>1, KeptJoins
  <2>4. /\ keys \o kind \in Seq(DeclaredColumns) /\ print \in Seq(DeclaredColumns) /\ after \in Seq(DeclaredColumns)
        /\ print \o after \in Seq(DeclaredColumns) /\ moment \in Seq(DeclaredColumns)
    BY <2>1, <2>3 DEF Kept
  <2>5. keys \o kind \o (print \o after \o moment) = keys \o kind \o print \o after \o moment
    <3>1. keys \o kind \o (print \o after \o moment) = keys \o kind \o (print \o after) \o moment
      BY <2>4, JoinIsAssociative, Zenon
    <3>2. keys \o kind \o (print \o after) = keys \o kind \o print \o after
      BY <2>4, JoinIsAssociative, Zenon
    <3> QED
      BY <3>1, <3>2, Zenon
  <2>6. Kept(keys \o kind \o print \o after \o moment, keys \o kind \o print \o after \o moment)
    BY <2>1, <2>3, KeptJoins
  <2> QED
    BY <2>2, <2>5, <2>6 DEF AsExpected
<1>10. AsExpected(CommunicationTable("audit_start"), "audit_start")
  BY <1>1, <1>2, KeptPieces, KeptJoins, NamesAreNames
  DEF AsExpected, CommunicationTable, ExpectedColumns, Table, AuditStartColumns
<1>11. AsExpected(CommunicationTable("audit_completion"), "audit_completion")
  BY <1>1, <1>2, KeptPieces, KeptJoins, NamesAreNames
  DEF AsExpected, CommunicationTable, ExpectedColumns, Table, AuditStartColumns
<1>12. AsExpected(CommunicationTable("outbox_entries"), "outbox_entries")
  BY <1>1, <1>2, KeptPieces, KeptJoins, NamesAreNames DEF AsExpected, CommunicationTable, ExpectedColumns, Table
<1>13. /\ AsExpected(CommunicationTable("outbox_outcomes"), "outbox_outcomes")
       /\ AsExpected(CommunicationTable("outbox_reconcile_ops"), "outbox_reconcile_ops")
  BY <1>1, <1>2, KeptPieces, KeptJoins, NamesAreNames DEF AsExpected, CommunicationTable, ExpectedColumns, Table
<1>14. CommunicationTable("communication_meta") = Meta
  BY DEF CommunicationTable
<1> QED
  BY <1>3, <1>4, <1>5, <1>6, <1>7, <1>8, <1>9, <1>10, <1>11, <1>12, <1>13, <1>14 DEF CommunicationTables

LEMMA ColumnsVerify ==
    ASSUME NEW db, NEW name, AsExpected(db.tables[name], name)
    PROVE  VerifyColumns(db, name) = "ok" /\ TableInfo(db.tables[name]) = ExpectedColumns(name)
<1>1. TableInfo(db.tables[name]) = Stored(db.tables[name].columns)
  BY DEF AsExpected, TableInfo, Stored, StoredColumn
<1>2. TableInfo(db.tables[name]) = ExpectedColumns(name)
  BY <1>1 DEF AsExpected, Kept
<1> QED
  BY <1>2 DEF VerifyColumns, FirstFailure, Check

LEMMA VerifiedColumns ==
    ASSUME NEW db, NEW name, db.tables[name].columns \in Seq(ColumnInfo),
           NEW made, Kept(made, ExpectedColumns(name)), VerifyColumns(db, name) = "ok"
    PROVE  TableInfo(db.tables[name]) = ExpectedColumns(name)
<1> DEFINE actual == TableInfo(db.tables[name]) want == ExpectedColumns(name)
           Compared(i) ==
             <<Check(actual[i][1] = want[i][1], "column_name"), Check(actual[i][2] = want[i][2], "column_type"),
               Check(actual[i][3] = want[i][3], "column_notnull"), Check(actual[i][4] = want[i][4], "column_pk")>>
           comparisons == [i \in DOMAIN want |-> FirstFailure(Compared(i))]
<1>1. actual \in Seq(ColumnInfo)
  <2> DEFINE columns == db.tables[name].columns
  <2>1. ASSUME NEW i \in DOMAIN columns
        PROVE  /\ columns[i] \in ColumnInfo
               /\ [columns[i] EXCEPT ![3] = 1] \in ColumnInfo
    <3>1. columns[i] \in ColumnInfo
      OBVIOUS
    <3>2. \A c \in ColumnInfo : [c EXCEPT ![3] = 1] \in ColumnInfo
      BY DEF ColumnInfo
    <3> QED
      BY <3>1, <3>2
  <2>2. actual = [i \in DOMAIN columns |->
                    IF db.tables[name].strict /\ columns[i][4] > 0 /\ columns[i][2] # "INTEGER"
                    THEN [columns[i] EXCEPT ![3] = 1] ELSE columns[i]]
    BY DEF TableInfo
  <2>3. columns \in Seq(ColumnInfo)
    OBVIOUS
  <2> HIDE DEF columns, actual
  <2> QED
    BY <2>1, <2>2, <2>3
<1>2. want \in Seq(DeclaredColumns)
  BY DEF Kept
<1>3. Len(actual) = Len(want) /\ FirstFailure(comparisons) = "ok"
  BY DEF VerifyColumns
<1>4. ASSUME NEW i \in DOMAIN want
      PROVE  actual[i] = want[i]
  <2>1. DOMAIN comparisons = DOMAIN want /\ DOMAIN want \subseteq Nat
    BY <1>2
  <2>2. comparisons[i] = "ok"
    BY <1>3, <2>1, FirstFailurePasses
  <2>3. FirstFailure(Compared(i)) = "ok" /\ DOMAIN Compared(i) = 1 .. 4
    BY <2>2
  <2>4. \A n \in 1 .. 4 : Compared(i)[n] = "ok"
    <3> HIDE DEF Compared
    <3> QED
      BY <2>3, FirstFailurePasses
  <2>5. Compared(i)[1] = "ok" /\ Compared(i)[2] = "ok" /\ Compared(i)[3] = "ok" /\ Compared(i)[4] = "ok"
    BY <2>4
  <2>6. \A n \in 1 .. 4 : actual[i][n] = want[i][n]
    BY <2>5 DEF Check
  <2>7. actual[i] \in ColumnInfo /\ want[i] \in DeclaredColumns
    BY <1>1, <1>2, <1>3
  <2> HIDE DEF actual, want
  <2>8. /\ actual[i] = <<actual[i][1], actual[i][2], actual[i][3], actual[i][4]>>
        /\ want[i] = <<want[i][1], want[i][2], want[i][3], want[i][4]>>
    BY <2>7 DEF ColumnInfo, DeclaredColumns
  <2> QED
    BY <2>6, <2>8
<1>5. actual = want
  <2> HIDE DEF actual, want
  <2> QED
    BY <1>1, <1>2, <1>3, <1>4
<1> QED
  BY <1>5

LEMMA OwnMemoryVerifies ==
    VerifySqliteMemorySchemaV1(BootstrapSqliteMemorySchemaV1) = "ok"
<1> DEFINE db == BootstrapSqliteMemorySchemaV1
<1>1. /\ db.tables = [t \in MemoryTables |-> IF t = "memory_meta" THEN Meta ELSE RecordsTable]
      /\ DOMAIN db.tables = MemoryTables
      /\ DOMAIN db.indexes = MemoryIndexes /\ db.others = {"sqlite_sequence"}
      /\ db.indexes["memory_records_query_idx"] = Index("memory_records", <<"owner_id", "namespace", "insertion_ordinal">>)
      /\ db.tables["memory_meta"] = Meta /\ db.tables["memory_records"] = RecordsTable
      /\ db.meta = <<Row(1, SchemaVersion)>>
  BY DEF BootstrapSqliteMemorySchemaV1, MemoryTables, MemoryIndexes
<1>2. /\ DOMAIN UserObjects(db).tables = MemoryTables /\ DOMAIN UserObjects(db).indexes = MemoryIndexes
      /\ UserObjects(db).others = {}
  BY <1>1, CatalogueAssumption DEF UserObjects, Restrict, BootstrapSqliteMemorySchemaV1
<1> HIDE DEF db
<1>3. ObjectsOutcome(db, MemoryTables, MemoryIndexes) = "ok"
  BY <1>2 DEF ObjectsOutcome, FirstFailure, Check
<1>4. VerifyColumns(db, "memory_meta") = "ok" /\ VerifyColumns(db, "memory_records") = "ok"
  BY <1>1, OwnTables, ColumnsVerify
<1>5. VerifyVersion(db) = "ok"
  BY <1>1 DEF VerifyVersion, MetaVersion, Row, SchemaVersion, FirstFailure, Check, Fails
<1>6. RecordsOutcome(db) = "ok"
  <2>1. /\ db.tables["memory_meta"].idIsOne /\ db.tables["memory_meta"].strict
        /\ db.tables["memory_records"].autoincrement /\ db.tables["memory_records"].strict
        /\ db.tables["memory_records"].unique = {<<"owner_id", "namespace", "record_id">>}
    BY <1>1 DEF Meta, RecordsTable, Table
  <2>2. /\ ~db.indexes["memory_records_query_idx"].unique /\ ~db.indexes["memory_records_query_idx"].partial
        /\ db.indexes["memory_records_query_idx"].columns = <<"owner_id", "namespace", "insertion_ordinal">>
        /\ db.indexes["memory_records_query_idx"].table = "memory_records"
    BY <1>1 DEF Index
  <2>3. {i \in DOMAIN db.indexes : db.indexes[i].table = "memory_records"} = {"memory_records_query_idx"}
    BY <1>1, <2>2 DEF MemoryIndexes
  <2>4. {i \in {"memory_records_query_idx"} : db.indexes[i].unique} = {}
    BY <2>2
  <2>5. Cardinality({<<"owner_id", "namespace", "record_id">>}) = 1 /\ Cardinality({"memory_records_query_idx"}) = 1
        /\ Cardinality({}) = 0
    BY FS_Singleton, FS_EmptySet
  <2> QED
    BY <1>5, <2>1, <2>2, <2>3, <2>4, <2>5 DEF RecordsOutcome, VerifyIndexColumns, FirstFailure, Check
<1>7. db.indexes["memory_records_query_idx"].table = "memory_records"
  BY <1>1 DEF Index
<1>8. VerifySqliteMemorySchemaV1(db) = "ok"
  BY <1>3, <1>4, <1>6, <1>7 DEF VerifySqliteMemorySchemaV1, FirstFailure, Fails
<1> QED
  BY <1>8 DEF db

LEMMA OwnCommunicationVerifies ==
    /\ ReadCommunicationSchemaVersion(MigrateCommunicationSchema0To1) = SchemaVersion
    /\ VerifyCommunicationSchemaV1(MigrateCommunicationSchema0To1) = "ok"
<1> DEFINE db == MigrateCommunicationSchema0To1
<1>1. /\ db.tables = [t \in CommunicationTables |-> CommunicationTable(t)] /\ DOMAIN db.tables = CommunicationTables
      /\ db.indexes = [i \in CommunicationIndexes |-> CommunicationIndex(i)] /\ DOMAIN db.indexes = CommunicationIndexes
      /\ db.others = {"sqlite_sequence"} /\ db.meta = <<Row(1, SchemaVersion)>>
  BY DEF MigrateCommunicationSchema0To1
<1>2. /\ DOMAIN UserObjects(db).tables = CommunicationTables /\ DOMAIN UserObjects(db).indexes = CommunicationIndexes
      /\ UserObjects(db).others = {}
  BY <1>1, CatalogueAssumption DEF UserObjects, Restrict, MigrateCommunicationSchema0To1
<1> HIDE DEF db
<1>3. ObjectsOutcome(db, CommunicationTables, CommunicationIndexes) = "ok"
  BY <1>2 DEF ObjectsOutcome, FirstFailure, Check
<1>4. \A t \in CommunicationTables : VerifyColumns(db, t) = "ok" /\ db.tables[t].strict
  BY <1>1, OwnTables, ColumnsVerify DEF AsExpected
<1>5. VerifyVersion(db) = "ok" /\ MetaVersion(db) = "ok"
  BY <1>1 DEF VerifyVersion, MetaVersion, Row, SchemaVersion, FirstFailure, Check, Fails
<1>6. db.tables["communication_meta"].idIsOne /\ db.tables["factual_history"].autoincrement
  BY <1>1 DEF CommunicationTables, CommunicationTable, Meta, Table
<1>7. /\ db.indexes["turns_recovery_idx"] = Index("turns", <<"updated_at", "observed_at", "turn_id">>)
      /\ db.indexes["turns_owner_conversation_idx"] = Index("turns", <<"owner_id", "conversation_id", "state">>)
      /\ db.indexes["outbox_expires_idx"] = Index("outbox_entries", <<"expires_at", "scrubbed">>)
  BY <1>1 DEF CommunicationIndexes, CommunicationIndex
<1>8. Cardinality({i \in DOMAIN db.indexes : db.indexes[i].table = "turns"}) = 2
  <2>1. {i \in DOMAIN db.indexes : db.indexes[i].table = "turns"}
            = {"turns_recovery_idx"} \cup {"turns_owner_conversation_idx"}
    BY <1>1, <1>7 DEF Index, CommunicationIndexes
  <2>2. Cardinality({"turns_recovery_idx"}) = 1 /\ IsFiniteSet({"turns_recovery_idx"})
    BY FS_Singleton
  <2>3. Cardinality({"turns_recovery_idx"} \cup {"turns_owner_conversation_idx"}) = 2
    BY <2>2, FS_AddElement
  <2> QED
    BY <2>1, <2>3
<1>9. VerifyCommunicationSchemaV1(db) = "ok"
  BY <1>3, <1>4, <1>5, <1>6, <1>7, <1>8
  DEF VerifyCommunicationSchemaV1, VerifyIndexColumns, Index, FirstFailure, Check, Fails
<1>10. ReadCommunicationSchemaVersion(db) = SchemaVersion
  <2>1. "communication_meta" \in CommunicationTables /\ db # EmptyDatabase
    BY <1>1 DEF CommunicationTables, EmptyDatabase
  <2> QED
    BY <1>1, <1>2, <1>5, <2>1 DEF ReadCommunicationSchemaVersion, Row, SchemaVersion, Fails
<1> QED
  BY <1>9, <1>10 DEF db

----------------------------------------------------------------------------
(* What a verification that passes has seen: tables whose columns are those  *)
(* of the CREATE statements, their indexes, and this version.                *)

\* The verification of a file passes a database.
Verifies(file, db) ==
    IF file = "memory" THEN VerifySqliteMemorySchemaV1(db) = "ok" ELSE VerifyCommunicationSchemaV1(db) = "ok"
HasTables(file, db) ==
    LET made == Schema(file) IN
    /\ \A t \in DOMAIN made.tables : TableInfo(db.tables[t]) = TableInfo(made.tables[t])
    /\ \A i \in DOMAIN made.indexes : db.indexes[i].columns = made.indexes[i].columns
    /\ db.meta = made.meta

LEMMA ObjectsAreThere ==
    ASSUME NEW db, NEW tables, NEW indexes, ObjectsOutcome(db, tables, indexes) = "ok"
    PROVE  tables \subseteq DOMAIN db.tables /\ indexes \subseteq DOMAIN db.indexes
<1> DEFINE seen == UserObjects(db)
           checks == <<Check(tables \subseteq DOMAIN seen.tables, "partial_schema"),
                       Check(indexes \subseteq DOMAIN seen.indexes, "missing_index"),
                       Check(seen.others = {}, "unexpected_object"),
                       Check(DOMAIN seen.tables \subseteq tables, "unexpected_table"),
                       Check(DOMAIN seen.indexes \subseteq indexes, "unexpected_index")>>
<1>1. FirstFailure(checks) = "ok" /\ DOMAIN checks = 1 .. 5
  BY DEF ObjectsOutcome
<1>2. checks[1] = "ok" /\ checks[2] = "ok"
  <2> HIDE DEF checks
  <2> QED
    BY <1>1, FirstFailurePasses
<1>3. tables \subseteq DOMAIN seen.tables /\ indexes \subseteq DOMAIN seen.indexes
  BY <1>2 DEF Check
<1> QED
  BY <1>3 DEF UserObjects, Restrict

LEMMA EmptyIsNotAccepted ==
    ASSUME NEW file \in FileNames
    PROVE  ~Verifies(file, EmptyDatabase) /\ Schema(file) # EmptyDatabase
<1>1. ~(MemoryTables \subseteq DOMAIN EmptyDatabase.tables) /\ ~(CommunicationTables \subseteq DOMAIN EmptyDatabase.tables)
  BY DEF EmptyDatabase, MemoryTables, CommunicationTables
<1>2. ~Verifies(file, EmptyDatabase)
  BY <1>1, ObjectsAreThere DEF Verifies, VerifySqliteMemorySchemaV1, VerifyCommunicationSchemaV1, Fails
<1>3. Schema(file).meta # EmptyDatabase.meta
  BY DEF Schema, BootstrapSqliteMemorySchemaV1, MigrateCommunicationSchema0To1, EmptyDatabase
<1> QED
  BY <1>2, <1>3

LEMMA VersionIsOurs ==
    ASSUME NEW db, db.meta \in Seq([id : Int, integer : BOOLEAN, version : Int]), VerifyVersion(db) = "ok"
    PROVE  db.meta = <<Row(1, SchemaVersion)>>
<1>1. MetaVersion(db) = "ok" /\ Len(db.meta) = 1
  BY DEF VerifyVersion, MetaVersion, Fails
<1> DEFINE row == db.meta[1]
           read == <<Check(row.id = 1, "meta_id"), Check(row.integer, "malformed_meta")>>
           versions == <<Check(row.version <= SchemaVersion, "future_version"),
                         Check(row.version = SchemaVersion, "unsupported_version")>>
<1>2. /\ FirstFailure(read) = "ok" /\ DOMAIN read = 1 .. 2
      /\ FirstFailure(versions) = "ok" /\ DOMAIN versions = 1 .. 2
  BY <1>1 DEF VerifyVersion, MetaVersion, Fails
<1>3. read[1] = "ok" /\ read[2] = "ok" /\ versions[2] = "ok"
  <2> HIDE DEF read, versions
  <2> QED
    BY <1>2, FirstFailurePasses
<1>4. row.id = 1 /\ row.integer /\ row.version = SchemaVersion
  BY <1>3 DEF Check
<1>5. \A S : db.meta \in Seq(S) => db.meta[1] \in S /\ db.meta = <<db.meta[1]>>
  BY <1>1
<1>6. row \in [id : Int, integer : BOOLEAN, version : Int] /\ db.meta = <<row>>
  BY <1>5, Zenon
<1>7. row = Row(1, SchemaVersion)
  BY <1>4, <1>6 DEF Row
<1> QED
  BY <1>6, <1>7

LEMMA AcceptedMemoryHasTables ==
    ASSUME NEW db, IsDatabase(db), VerifySqliteMemorySchemaV1(db) = "ok"
    PROVE  HasTables("memory", db)
<1> DEFINE made == BootstrapSqliteMemorySchemaV1
           query == db.indexes["memory_records_query_idx"]
           checks == <<VerifyColumns(db, "memory_meta"), VerifyColumns(db, "memory_records"), RecordsOutcome(db)>>
<1>1. /\ MemoryTables \subseteq DOMAIN db.tables
      /\ FirstFailure(checks) = "ok" /\ DOMAIN checks = 1 .. 3
  BY ObjectsAreThere DEF VerifySqliteMemorySchemaV1, Fails
<1>2. checks[1] = "ok" /\ checks[2] = "ok" /\ checks[3] = "ok"
  <2> HIDE DEF checks
  <2> QED
    BY <1>1, FirstFailurePasses
<1>3. \A t \in MemoryTables : TableInfo(db.tables[t]) = ExpectedColumns(t)
  <2>1. /\ db.tables["memory_meta"].columns \in Seq(ColumnInfo) /\ db.tables["memory_records"].columns \in Seq(ColumnInfo)
    BY <1>1 DEF IsDatabase, MemoryTables
  <2>2. Kept(Meta.columns, ExpectedColumns("memory_meta")) /\ Kept(RecordsTable.columns, ExpectedColumns("memory_records"))
    BY OwnTables DEF AsExpected
  <2> QED
    BY <1>2, <2>1, <2>2, VerifiedColumns DEF MemoryTables
<1>4. \A t \in MemoryTables : TableInfo(made.tables[t]) = ExpectedColumns(t)
  <2>1. \A t \in MemoryTables : AsExpected(made.tables[t], t)
    BY OwnTables DEF BootstrapSqliteMemorySchemaV1, MemoryTables
  <2> QED
    BY <2>1, ColumnsVerify
<1>5. query.columns = <<"owner_id", "namespace", "insertion_ordinal">> /\ VerifyVersion(db) = "ok"
  <2> DEFINE records == db.tables["memory_records"]
             over == {i \in DOMAIN db.indexes : db.indexes[i].table = "memory_records"}
             parts == <<
        Check(db.tables["memory_meta"].idIsOne, "meta_check"), Check(db.tables["memory_meta"].strict, "meta_strict"),
        Check(records.autoincrement, "missing_autoincrement"), Check(records.strict, "records_strict"),
        Check(<<"owner_id", "namespace", "record_id">> \in records.unique, "unique_ddl"),
        Check(Cardinality(records.unique) + Cardinality({i \in over : db.indexes[i].unique}) = 1, "unique_count"),
        Check(~query.unique, "query_index_unique"), Check(~query.partial, "query_index_partial"),
        VerifyIndexColumns(db, "memory_records_query_idx", <<"owner_id", "namespace", "insertion_ordinal">>),
        Check(Cardinality(over) = 1, "unexpected_index"),
        VerifyVersion(db)>>
  <2>1. FirstFailure(parts) = "ok" /\ DOMAIN parts = 1 .. 11
    BY <1>2 DEF RecordsOutcome
  <2>2. parts[9] = "ok" /\ parts[11] = "ok"
    <3> HIDE DEF parts
    <3> QED
      BY <2>1, FirstFailurePasses
  <2> QED
    BY <2>2 DEF VerifyIndexColumns, Check
<1>6. db.meta = <<Row(1, SchemaVersion)>>
  BY <1>5, VersionIsOurs DEF IsDatabase
<1>7. /\ Schema("memory") = made /\ DOMAIN made.tables = MemoryTables /\ made.meta = <<Row(1, SchemaVersion)>>
      /\ DOMAIN made.indexes = {"memory_records_query_idx"}
      /\ made.indexes["memory_records_query_idx"].columns = <<"owner_id", "namespace", "insertion_ordinal">>
  BY DEF Schema, BootstrapSqliteMemorySchemaV1, MemoryIndexes, Index
<1> HIDE DEF made
<1> QED
  BY <1>3, <1>4, <1>5, <1>6, <1>7 DEF HasTables

LEMMA AcceptedCommunicationHasTables ==
    ASSUME NEW db, IsDatabase(db), VerifyCommunicationSchemaV1(db) = "ok"
    PROVE  HasTables("communication", db)
<1> DEFINE made == MigrateCommunicationSchema0To1
           checks == <<
        Check(\A t \in CommunicationTables : db.tables[t].strict, "strict"),
        Check(db.tables["communication_meta"].idIsOne, "meta_check"),
        Check(\A t \in CommunicationTables : VerifyColumns(db, t) = "ok", "columns"),
        Check(db.tables["factual_history"].autoincrement, "missing_autoincrement"),
        VerifyIndexColumns(db, "turns_recovery_idx", <<"updated_at", "observed_at", "turn_id">>),
        VerifyIndexColumns(db, "turns_owner_conversation_idx", <<"owner_id", "conversation_id", "state">>),
        VerifyIndexColumns(db, "outbox_expires_idx", <<"expires_at", "scrubbed">>),
        Check(Cardinality({i \in DOMAIN db.indexes : db.indexes[i].table = "turns"}) = 2, "unexpected_index"),
        VerifyVersion(db)>>
<1>1. /\ CommunicationTables \subseteq DOMAIN db.tables
      /\ FirstFailure(checks) = "ok" /\ DOMAIN checks = 1 .. 9
  BY ObjectsAreThere DEF VerifyCommunicationSchemaV1, Fails
<1>2. checks[3] = "ok" /\ checks[5] = "ok" /\ checks[6] = "ok" /\ checks[7] = "ok" /\ checks[9] = "ok"
  <2> HIDE DEF checks
  <2> QED
    BY <1>1, FirstFailurePasses
<1>3. /\ \A t \in CommunicationTables : VerifyColumns(db, t) = "ok"
      /\ db.indexes["turns_recovery_idx"].columns = <<"updated_at", "observed_at", "turn_id">>
      /\ db.indexes["turns_owner_conversation_idx"].columns = <<"owner_id", "conversation_id", "state">>
      /\ db.indexes["outbox_expires_idx"].columns = <<"expires_at", "scrubbed">>
      /\ VerifyVersion(db) = "ok"
  BY <1>2 DEF VerifyIndexColumns, Check
<1>4. ASSUME NEW t \in CommunicationTables
      PROVE  TableInfo(db.tables[t]) = TableInfo(made.tables[t])
  <2>1. db.tables[t].columns \in Seq(ColumnInfo)
    BY <1>1 DEF IsDatabase
  <2>2. made.tables[t] = CommunicationTable(t)
    BY DEF MigrateCommunicationSchema0To1
  <2>3. AsExpected(CommunicationTable(t), t)
    BY OwnTables
  <2>4. TableInfo(db.tables[t]) = ExpectedColumns(t)
    BY <1>3, <2>1, <2>3, VerifiedColumns DEF AsExpected
  <2>5. TableInfo(made.tables[t]) = ExpectedColumns(t)
    BY <2>2, <2>3, ColumnsVerify
  <2> QED
    BY <2>4, <2>5
<1>5. db.meta = <<Row(1, SchemaVersion)>>
  BY <1>3, VersionIsOurs DEF IsDatabase
<1>6. /\ Schema("communication") = made /\ DOMAIN made.tables = CommunicationTables /\ made.meta = <<Row(1, SchemaVersion)>>
      /\ DOMAIN made.indexes = CommunicationIndexes
      /\ made.indexes["turns_recovery_idx"].columns = <<"updated_at", "observed_at", "turn_id">>
      /\ made.indexes["turns_owner_conversation_idx"].columns = <<"owner_id", "conversation_id", "state">>
      /\ made.indexes["outbox_expires_idx"].columns = <<"expires_at", "scrubbed">>
  BY DEF Schema, MigrateCommunicationSchema0To1, CommunicationIndexes, CommunicationIndex, Index
<1> HIDE DEF made
<1> QED
  BY <1>3, <1>4, <1>5, <1>6 DEF HasTables, CommunicationIndexes

----------------------------------------------------------------------------
(* The inductive invariant of the files.  A file changes only from nothing   *)
(* to this code's schema, which verifies; so a refusal stays right, and what *)
(* a port was opened over stays as it was verified.                          *)

Reasons == {"none", "SQLITE_OPEN_FAILED", "SQLITE_PRAGMA_FAILED", "BUSY", "SQLITE_SCHEMA_MISMATCH"}
Port == [file : FileNames, state : PortStates, lease : BOOLEAN, openedAt : Nat, reason : Reasons]
FilesTypeOK ==
    /\ disk = [file \in FileNames |-> disk[file]]
    /\ \A file \in FileNames : disk[file] = Schema(file) \/ IsDatabase(disk[file])
    /\ outbox \subseteq [expires : Int, text : BOOLEAN]
    /\ ports \in [Handles -> Port]
    /\ rootOpen \in BOOLEAN
    /\ today \in Nat

\* What an opening said of its file stays true of it, and what it handed out stays fit.
PortHolds(port) ==
    /\ port.reason = "SQLITE_SCHEMA_MISMATCH" => disk[port.file] \notin {Schema(port.file), EmptyDatabase}
    /\ port.state = "open" => Verifies(port.file, disk[port.file])
    /\ port.state \in {"open", "close-pending"} => port.lease
    /\ port.lease => rootOpen
    /\ port.openedAt <= today
    /\ port.state = "open" /\ port.file = "communication" => \A e \in outbox : e.text => e.expires >= port.openedAt
FilesInv == FilesTypeOK /\ \A h \in Handles : PortHolds(ports[h])

\* The files only ever change from nothing to this code's schema.
OnlyOwnIsWritten ==
    \/ disk' = disk
    \/ \E file \in FileNames : disk[file] = EmptyDatabase /\ disk' = [disk EXCEPT ![file] = Schema(file)]

LEMMA OwnIsAccepted ==
    ASSUME NEW file \in FileNames, disk[file] \in {Schema(file), EmptyDatabase}
    PROVE  SchemaOutcome(file) = "ok" /\ Created(file) = Schema(file)
<1>1. ReadCommunicationSchemaVersion(EmptyDatabase) = 0 /\ SchemaVersion = 1
  BY DEF ReadCommunicationSchemaVersion, SchemaVersion
<1>2. CASE file = "memory"
  <2>1. disk[file] # EmptyDatabase => disk[file] = BootstrapSqliteMemorySchemaV1
    BY <1>2 DEF Schema
  <2>2. Created(file) = BootstrapSqliteMemorySchemaV1 /\ ~CreationFails(file)
    BY <1>2, <2>1 DEF Created, Creates, CreationFails
  <2> QED
    BY <1>2, <2>2, OwnMemoryVerifies DEF SchemaOutcome, Schema
<1>3. CASE file = "communication"
  <2>1. disk[file] # EmptyDatabase => disk[file] = MigrateCommunicationSchema0To1
    BY <1>3 DEF Schema
  <2>2. Created(file) = MigrateCommunicationSchema0To1 /\ ~CreationFails(file)
    BY <1>1, <1>3, <2>1, OwnCommunicationVerifies DEF Created, Creates, CreationFails
  <2> QED
    BY <1>3, <2>2, OwnCommunicationVerifies DEF SchemaOutcome, Schema
<1> QED
  BY <1>2, <1>3 DEF FileNames

LEMMA AcceptedIsCreatedOrThere ==
    ASSUME NEW file \in FileNames, ~Fails(SchemaOutcome(file))
    PROVE  /\ Verifies(file, Created(file))
           /\ Created(file) = disk[file] \/ (disk[file] = EmptyDatabase /\ Created(file) = Schema(file))
<1>1. ~CreationFails(file)
  BY DEF SchemaOutcome, Fails
<1>2. Verifies(file, Created(file))
  BY <1>1 DEF Verifies, SchemaOutcome, Fails
<1>3. Created(file) = disk[file] \/ (disk[file] = EmptyDatabase /\ Created(file) = Schema(file))
  BY <1>1 DEF Created, CreationFails, Schema
<1> QED
  BY <1>2, <1>3

LEMMA RefusedStays ==
    ASSUME FilesTypeOK, NEW h \in Handles, NEW file \in FileNames, SchemaRefused(h, file)
    PROVE  disk' = disk /\ disk[file] \notin {Schema(file), EmptyDatabase}
<1>1. disk[file] \notin {Schema(file), EmptyDatabase}
  BY OwnIsAccepted DEF SchemaRefused, Fails
<1>2. CreationFails(file) \/ Created(file) = disk[file]
  BY <1>1 DEF CreationFails, Created
<1> QED
  BY <1>1, <1>2 DEF SchemaRefused, FilesTypeOK

\* A port that says as much as the outcome of the opening it records.
LEMMA OpenWrites ==
    ASSUME FilesTypeOK, NEW h \in Handles, OpenFile(h)
    PROVE  /\ OnlyOwnIsWritten
           /\ outbox' \in {outbox, ScrubExpiredOutboxPlaintext(outbox)}
           /\ \E port \in Port :
                /\ ports' = [ports EXCEPT ![h] = port] /\ port.openedAt = today
                /\ port.state \in {"open", "close-pending"} => port.lease
                /\ port.lease => rootOpen
                /\ port.reason = "SQLITE_SCHEMA_MISMATCH" => disk'[port.file] \notin {Schema(port.file), EmptyDatabase}
                /\ port.state = "open" => Verifies(port.file, disk'[port.file])
                /\ port.state = "open" /\ port.file = "communication" => outbox' = ScrubExpiredOutboxPlaintext(outbox)
<1> DEFINE Recorded(file, state, lease, reason) ==
             [file |-> file, state |-> state, lease |-> lease, openedAt |-> today, reason |-> reason]
<1>1. PICK file \in FileNames :
         \/ RefusedBeforeOpen(h, file) \/ UnfitConnection(h, file) \/ CreationBreaks(h, file)
         \/ SchemaRefused(h, file) \/ SchemaAccepted(h, file)
  BY DEF OpenFile
<1>2. \A reason \in Reasons :
        /\ Recorded(file, "refused", FALSE, reason) \in Port
        /\ Recorded(file, "close-pending", TRUE, reason) \in Port
        /\ Recorded(file, "open", TRUE, reason) \in Port
  BY DEF FilesTypeOK, Port, PortStates
<1>3. CASE RefusedBeforeOpen(h, file)
  <2>1. /\ ports' = [ports EXCEPT ![h] = Recorded(file, "refused", FALSE, "SQLITE_OPEN_FAILED")]
        /\ disk' = disk /\ outbox' = outbox
    BY <1>3 DEF RefusedBeforeOpen, Ended
  <2>2. Recorded(file, "refused", FALSE, "SQLITE_OPEN_FAILED") \in Port
    BY <1>2 DEF Reasons
  <2> QED
    BY <2>1, <2>2 DEF OnlyOwnIsWritten
<1>4. ASSUME NEW reason \in Reasons, FailAfterOpen(h, file, reason), rootOpen
      PROVE  \E port \in Port :
               /\ ports' = [ports EXCEPT ![h] = port] /\ port.openedAt = today /\ port.file = file
               /\ port.state # "open" /\ port.reason = reason
               /\ port.state = "close-pending" => port.lease
  BY <1>2, <1>4 DEF FailAfterOpen, Ended
<1>5. CASE UnfitConnection(h, file) \/ CreationBreaks(h, file)
  <2>1. PICK reason \in {"SQLITE_PRAGMA_FAILED", "BUSY"} : FailAfterOpen(h, file, reason)
    BY <1>5 DEF UnfitConnection, CreationBreaks
  <2>2. rootOpen /\ disk' = disk /\ outbox' = outbox
    BY <1>5 DEF UnfitConnection, CreationBreaks
  <2> QED
    BY <1>4, <2>1, <2>2 DEF OnlyOwnIsWritten, Reasons
<1>6. CASE SchemaRefused(h, file)
  <2>1. disk' = disk /\ disk[file] \notin {Schema(file), EmptyDatabase}
    BY <1>6, RefusedStays
  <2>2. rootOpen /\ FailAfterOpen(h, file, "SQLITE_SCHEMA_MISMATCH") /\ outbox' = outbox
    BY <1>6 DEF SchemaRefused
  <2> QED
    BY <1>4, <2>1, <2>2 DEF OnlyOwnIsWritten, Reasons
<1>7. CASE SchemaAccepted(h, file)
  <2>1. rootOpen /\ disk' = [disk EXCEPT ![file] = Created(file)] /\ ~Fails(SchemaOutcome(file))
    BY <1>7 DEF SchemaAccepted
  <2>2. OnlyOwnIsWritten /\ disk'[file] = Created(file)
    BY <2>1, AcceptedIsCreatedOrThere DEF OnlyOwnIsWritten, FilesTypeOK
  <2>3. Verifies(file, disk'[file])
    BY <2>1, <2>2, AcceptedIsCreatedOrThere
  <2>4. outbox' \in {outbox, ScrubExpiredOutboxPlaintext(outbox)}
    BY <1>7 DEF SchemaAccepted
  <2>5. CASE FailAfterOpen(h, file, "SQLITE_OPEN_FAILED")
    BY <1>4, <2>1, <2>2, <2>4, <2>5 DEF Reasons
  <2>6. CASE /\ Ended(h, file, "open", TRUE, "none")
             /\ outbox' = IF file = "memory" THEN outbox ELSE ScrubExpiredOutboxPlaintext(outbox)
    <3>1. Recorded(file, "open", TRUE, "none") \in Port
      BY <1>2 DEF Reasons
    <3>2. ports' = [ports EXCEPT ![h] = Recorded(file, "open", TRUE, "none")]
      BY <2>6 DEF Ended
    <3> QED
      BY <2>1, <2>2, <2>3, <2>4, <2>6, <3>1, <3>2
  <2> QED
    BY <1>7, <2>5, <2>6 DEF SchemaAccepted
<1> QED
  BY <1>1, <1>3, <1>5, <1>6, <1>7

LEMMA NoPortHolds ==
    ASSUME today \in Nat
    PROVE  PortHolds(NoPort)
BY DEF PortHolds, NoPort

LEMMA FilesInitHolds == FilesInit => FilesInv
<1> SUFFICES ASSUME FilesInit
             PROVE  FilesInv
  OBVIOUS
<1>1. disk = [file \in FileNames |-> disk[file]] /\ \A file \in FileNames : IsDatabase(disk[file])
  BY FilesAssumption DEF FilesInit, FileNames
<1>2. NoPort \in Port
  BY DEF NoPort, Port, FileNames, PortStates, Reasons
<1>3. FilesTypeOK
  BY <1>1, <1>2 DEF FilesInit, FilesTypeOK
<1>4. PortHolds(NoPort)
  BY <1>3, NoPortHolds DEF FilesTypeOK
<1> QED
  BY <1>3, <1>4 DEF FilesInv, FilesInit

\* A step that leaves a port as it is leaves what it stands for.
LEMMA PortStays ==
    ASSUME FilesTypeOK, NEW port \in Port, PortHolds(port), OnlyOwnIsWritten, rootOpen' = rootOpen \/ ~port.lease,
           today' \in Nat, today' >= today, outbox' \subseteq [expires : Int, text : BOOLEAN],
           \A e \in outbox' : e.text => e \in outbox \/ e.expires > today
    PROVE  PortHolds(port)'
<1>1. port.file \in FileNames /\ port.openedAt \in Nat /\ today \in Nat
  BY DEF Port, FilesTypeOK
<1>2. disk[port.file] # EmptyDatabase => disk'[port.file] = disk[port.file]
  BY <1>1 DEF OnlyOwnIsWritten, FilesTypeOK
<1>3. port.reason = "SQLITE_SCHEMA_MISMATCH" => disk'[port.file] \notin {Schema(port.file), EmptyDatabase}
  BY <1>2 DEF PortHolds
<1>4. port.state = "open" => Verifies(port.file, disk'[port.file])
  BY <1>1, <1>2, EmptyIsNotAccepted DEF PortHolds
<1>5. port.openedAt <= today'
  BY <1>1 DEF PortHolds
<1>6. ASSUME port.state = "open", port.file = "communication", NEW e \in outbox', e.text
      PROVE  e.expires >= port.openedAt
  <2>1. CASE e \in outbox
    BY <1>6, <2>1 DEF PortHolds
  <2>2. CASE e.expires > today
    <3>1. e.expires \in Int /\ port.openedAt <= today
      BY <1>6 DEF PortHolds
    <3> QED
      BY <1>1, <2>2, <3>1
  <2> QED
    BY <1>6, <2>1, <2>2
<1>7. port.lease => rootOpen'
  BY DEF PortHolds
<1>8. port.state \in {"open", "close-pending"} => port.lease
  BY DEF PortHolds
<1> QED
  BY <1>3, <1>4, <1>5, <1>6, <1>7, <1>8 DEF PortHolds

LEMMA OwnWritesAreTyped ==
    ASSUME FilesTypeOK, OnlyOwnIsWritten
    PROVE  /\ disk' = [file \in FileNames |-> disk'[file]]
           /\ \A file \in FileNames : disk'[file] = Schema(file) \/ IsDatabase(disk'[file])
BY DEF FilesTypeOK, OnlyOwnIsWritten

LEMMA ScrubbedFiles ==
    ASSUME outbox \subseteq [expires : Int, text : BOOLEAN], today \in Nat
    PROVE  /\ ScrubExpiredOutboxPlaintext(outbox) \subseteq [expires : Int, text : BOOLEAN]
           /\ \A e \in ScrubExpiredOutboxPlaintext(outbox) : e.text => e \in outbox /\ e.expires >= today
<1>1. ASSUME NEW e \in ScrubExpiredOutboxPlaintext(outbox)
      PROVE  e \in [expires : Int, text : BOOLEAN] /\ (e.text => e \in outbox /\ e.expires >= today)
  <2>1. PICK old \in outbox : e = IF old.expires < today THEN [old EXCEPT !.text = FALSE] ELSE old
    BY <1>1 DEF ScrubExpiredOutboxPlaintext
  <2>2. old \in [expires : Int, text : BOOLEAN]
    OBVIOUS
  <2>3. CASE old.expires < today
    BY <2>1, <2>2, <2>3
  <2>4. CASE ~(old.expires < today)
    BY <2>1, <2>2, <2>4
  <2> QED
    BY <2>3, <2>4
<1> QED
  BY <1>1

LEMMA OpenHolds ==
    ASSUME FilesInv, NEW h \in Handles, OpenFile(h)
    PROVE  FilesInv'
<1> USE DEF FilesInv
<1>1. /\ OnlyOwnIsWritten /\ rootOpen' = rootOpen /\ today' = today /\ today \in Nat
      /\ outbox' \in {outbox, ScrubExpiredOutboxPlaintext(outbox)}
  BY OpenWrites DEF OpenFile, FilesTypeOK
<1>2. outbox' \subseteq [expires : Int, text : BOOLEAN] /\ \A e \in outbox' : e.text => e \in outbox
  BY <1>1, ScrubbedFiles DEF FilesTypeOK
<1>3. PICK port \in Port :
                /\ ports' = [ports EXCEPT ![h] = port] /\ port.openedAt = today
                /\ port.state \in {"open", "close-pending"} => port.lease
                /\ port.lease => rootOpen
                /\ port.reason = "SQLITE_SCHEMA_MISMATCH" => disk'[port.file] \notin {Schema(port.file), EmptyDatabase}
                /\ port.state = "open" => Verifies(port.file, disk'[port.file])
                /\ port.state = "open" /\ port.file = "communication" => outbox' = ScrubExpiredOutboxPlaintext(outbox)
  BY OpenWrites
<1>4. ports' \in [Handles -> Port]
  BY <1>3 DEF FilesTypeOK
<1>5. FilesTypeOK'
  BY <1>1, <1>2, <1>4, OwnWritesAreTyped DEF FilesTypeOK
<1>6. PortHolds(port)'
  <2>1. port.state = "open" /\ port.file = "communication" => \A e \in outbox' : e.text => e.expires >= port.openedAt
    BY <1>3, ScrubbedFiles DEF FilesTypeOK
  <2>2. port.openedAt <= today'
    BY <1>1, <1>3
  <2> QED
    BY <1>1, <1>3, <2>1, <2>2 DEF PortHolds
<1>7. ASSUME NEW g \in Handles
      PROVE  PortHolds(ports[g])'
  <2>1. CASE g = h
    <3>1. ports'[g] = port
      BY <1>3, <2>1 DEF FilesTypeOK
    <3> QED
      BY <1>6, <3>1 DEF PortHolds
  <2>2. CASE g # h
    <3>1. PICK old \in Port : old = ports[g]
      BY DEF FilesTypeOK
    <3>2. ports'[g] = old
      BY <1>3, <2>2, <3>1 DEF FilesTypeOK
    <3>3. PortHolds(old)
      BY <3>1
    <3>4. PortHolds(old)'
      BY <1>1, <1>2, <3>3, PortStays
    <3> QED
      BY <3>2, <3>4 DEF PortHolds
  <2> QED
    BY <2>1, <2>2
<1> QED
  BY <1>5, <1>7

\* What does not open a file neither writes the schemas nor says anything new of them.
LEMMA OthersHold ==
    ASSUME FilesInv, UNCHANGED disk, rootOpen' \in BOOLEAN, today' \in Nat, today' >= today,
           outbox' \subseteq [expires : Int, text : BOOLEAN],
           \A e \in outbox' : e.text => e \in outbox \/ e.expires > today,
           ports' \in [Handles -> Port],
           \A h \in Handles :
             /\ rootOpen' = rootOpen \/ ~ports'[h].lease
             /\ \/ ports'[h] = NoPort
                \/ ports'[h] = ports[h]
                \/ ports[h].state \in {"open", "close-pending"} /\ ports'[h] = [ports[h] EXCEPT !.state = "close-pending"]
                \/ ports'[h] = [ports[h] EXCEPT !.state = "closed", !.lease = FALSE]
    PROVE  FilesInv'
<1> USE DEF FilesInv
<1>1. FilesTypeOK'
  BY OwnWritesAreTyped DEF FilesTypeOK, OnlyOwnIsWritten
<1>2. ASSUME NEW h \in Handles
      PROVE  PortHolds(ports[h])'
  <2>1. PICK old \in Port : old = ports[h]
    BY DEF FilesTypeOK
  <2>2. PICK new \in Port : new = ports'[h]
    OBVIOUS
  <2>3. PortHolds(old)
    BY <2>1
  <2>4. PortHolds(new)
    <3>1. CASE new = NoPort
      BY <3>1, NoPortHolds DEF FilesTypeOK
    <3>2. CASE new = old
      BY <2>3, <3>2
    <3>3. CASE old.state \in {"open", "close-pending"} /\ new = [old EXCEPT !.state = "close-pending"]
      BY <2>3, <3>3 DEF PortHolds, Port
    <3>4. CASE new = [old EXCEPT !.state = "closed", !.lease = FALSE]
      BY <2>3, <3>4 DEF PortHolds, Port
    <3> QED
      BY <2>1, <2>2, <3>1, <3>2, <3>3, <3>4
  <2>5. rootOpen' = rootOpen \/ ~new.lease
    BY <2>2
  <2>6. PortHolds(new)'
    BY <2>4, <2>5, PortStays DEF OnlyOwnIsWritten
  <2> QED
    BY <2>2, <2>6 DEF PortHolds
<1> QED
  BY <1>1, <1>2

LEMMA FilesStepHolds == FilesInv /\ [FilesNext]_fileVars => FilesInv'
<1> SUFFICES ASSUME FilesInv, [FilesNext]_fileVars
             PROVE  FilesInv'
  OBVIOUS
<1>1. /\ FilesTypeOK /\ today \in Nat /\ rootOpen \in BOOLEAN /\ outbox \subseteq [expires : Int, text : BOOLEAN]
      /\ ports \in [Handles -> Port] /\ \A h \in Handles : ports[h] \in Port
  BY DEF FilesInv, FilesTypeOK
<1>2. ASSUME NEW h \in Handles, OpenFile(h)
      PROVE  FilesInv'
  BY <1>2, OpenHolds
<1>3. ASSUME NEW h \in Handles, PutEntry(h)
      PROVE  FilesInv'
  <2>1. PICK expires \in today + 1 .. MaxFileTime : outbox' = outbox \cup {[expires |-> expires, text |-> TRUE]}
    BY <1>3 DEF PutEntry
  <2>2. expires \in Int /\ expires > today
    BY <1>1, <2>1
  <2>3. /\ outbox' \subseteq [expires : Int, text : BOOLEAN]
        /\ \A e \in outbox' : e.text => e \in outbox \/ e.expires > today
    <3>1. [expires |-> expires, text |-> TRUE] \in [expires : Int, text : BOOLEAN]
      BY <2>2
    <3>2. \A e \in outbox' : e \in outbox \/ (e = [expires |-> expires, text |-> TRUE] /\ e.expires = expires)
      BY <2>1
    <3>3. outbox' \subseteq [expires : Int, text : BOOLEAN]
      BY <1>1, <2>1, <3>1
    <3> QED
      BY <2>2, <3>2, <3>3
  <2> QED
    BY <1>1, <1>3, <2>3, OthersHold DEF PutEntry, FilesTypeOK
<1>4. ASSUME NEW h \in Handles, CloseFile(h)
      PROVE  FilesInv'
  <2>1. UNCHANGED <<disk, outbox, rootOpen, today>> /\ ports[h].state \in {"open", "close-pending"}
    BY <1>4 DEF CloseFile
  <2>2. \/ ports' = [ports EXCEPT ![h] = [ports[h] EXCEPT !.state = "closed", !.lease = FALSE]]
        \/ ports' = [ports EXCEPT ![h] = [ports[h] EXCEPT !.state = "close-pending"]]
    BY <1>1, <1>4 DEF CloseFile, FilesTypeOK, Port
  <2>3. /\ [ports[h] EXCEPT !.state = "closed", !.lease = FALSE] \in Port
        /\ [ports[h] EXCEPT !.state = "close-pending"] \in Port
    BY <1>1 DEF Port, PortStates
  <2>4. ports' \in [Handles -> Port]
    BY <1>1, <2>2, <2>3 DEF FilesTypeOK
  <2>5. ASSUME NEW g \in Handles
        PROVE  \/ ports'[g] = ports[g]
               \/ ports[g].state \in {"open", "close-pending"} /\ ports'[g] = [ports[g] EXCEPT !.state = "close-pending"]
               \/ ports'[g] = [ports[g] EXCEPT !.state = "closed", !.lease = FALSE]
    <3> DEFINE shut == [ports[h] EXCEPT !.state = "closed", !.lease = FALSE]
               pending == [ports[h] EXCEPT !.state = "close-pending"]
    <3>1. /\ shut = [ports[h] EXCEPT !.state = "closed", !.lease = FALSE]
          /\ pending = [ports[h] EXCEPT !.state = "close-pending"]
      OBVIOUS
    <3>2. ports' = [ports EXCEPT ![h] = shut] \/ ports' = [ports EXCEPT ![h] = pending]
      BY <2>2
    <3> HIDE DEF shut, pending
    <3>3. ports'[g] = ports[g] \/ (g = h /\ (ports'[g] = shut \/ ports'[g] = pending))
      BY <1>1, <3>2 DEF FilesTypeOK
    <3> QED
      BY <2>1, <3>1, <3>3
  <2>6. today' \in Nat /\ today' >= today /\ rootOpen' \in BOOLEAN /\ outbox' \subseteq [expires : Int, text : BOOLEAN]
    BY <1>1, <2>1 DEF FilesTypeOK
  <2> QED
    BY <2>1, <2>4, <2>5, <2>6, OthersHold
<1>5. ASSUME CloseStorageRoot
      PROVE  FilesInv'
  <2>1. UNCHANGED <<disk, outbox, ports, today>> /\ rootOpen' = FALSE /\ \A h \in Handles : ~ports[h].lease
    BY <1>5 DEF CloseStorageRoot
  <2>2. /\ today' \in Nat /\ today' >= today /\ rootOpen' \in BOOLEAN /\ outbox' \subseteq [expires : Int, text : BOOLEAN]
        /\ ports' \in [Handles -> Port]
    <3>1. rootOpen' \in BOOLEAN
      BY <2>1, Zenon
    <3>2. today' = today /\ outbox' = outbox /\ ports' = ports
      BY <2>1
    <3> QED
      BY <1>1, <3>1, <3>2
  <2> QED
    BY <2>1, <2>2, OthersHold
<1>6. ASSUME Restart
      PROVE  FilesInv'
  <2>1. NoPort \in Port /\ ~NoPort.lease
    BY DEF NoPort, Port, FileNames, PortStates, Reasons
  <2>2. UNCHANGED <<disk, outbox, today>> /\ rootOpen' = TRUE /\ ports' = [h \in Handles |-> NoPort]
    BY <1>6 DEF Restart
  <2>3. /\ today' \in Nat /\ today' >= today /\ rootOpen' \in BOOLEAN /\ outbox' \subseteq [expires : Int, text : BOOLEAN]
        /\ ports' \in [Handles -> Port]
    BY <1>1, <2>1, <2>2 DEF FilesTypeOK
  <2>4. \A h \in Handles : ports'[h] = NoPort
    BY <2>2
  <2> QED
    BY <2>1, <2>2, <2>3, <2>4, OthersHold
<1>7. ASSUME PassTime
      PROVE  FilesInv'
  BY <1>1, <1>7, OthersHold DEF PassTime, FilesTypeOK
<1>8. CASE UNCHANGED fileVars
  BY <1>1, <1>8, OthersHold DEF fileVars, FilesTypeOK
<1> QED
  BY <1>2, <1>3, <1>4, <1>5, <1>6, <1>7, <1>8 DEF FilesNext

LEMMA FilesInvHolds == FilesSpec => []FilesInv
<1> QED
  BY FilesInitHolds, FilesStepHolds, PTL DEF FilesSpec

LEMMA FilesAreSound == FilesInv => OpenedFilesAreSound
<1> SUFFICES ASSUME FilesInv
             PROVE  OpenedFilesAreSound
  OBVIOUS
<1>1. ASSUME NEW h \in Handles
      PROVE  ports[h].file \in FileNames /\ PortHolds(ports[h])
  BY DEF FilesInv, FilesTypeOK, Port
<1>2. OwnFilesAreAccepted
  BY <1>1 DEF OwnFilesAreAccepted, PortHolds
<1>3. ASSUME NEW file \in FileNames, Verifies(file, disk[file])
      PROVE  HasTables(file, disk[file])
  <2>1. CASE disk[file] = Schema(file)
    BY <2>1 DEF HasTables
  <2>2. CASE IsDatabase(disk[file])
    BY <1>3, <2>2, AcceptedMemoryHasTables, AcceptedCommunicationHasTables DEF Verifies, FileNames
  <2> QED
    BY <2>1, <2>2 DEF FilesInv, FilesTypeOK
<1>4. OpenPortsHaveTheirTables
  <2>1. ASSUME NEW h \in Handles, ports[h].state = "open"
        PROVE  HasTables(ports[h].file, disk[ports[h].file])
    BY <1>1, <1>3, <2>1 DEF PortHolds
  <2>2. ASSUME NEW h \in Handles, ports[h].state \in {"open", "close-pending"}
        PROVE  rootOpen
    BY <1>1, <2>2 DEF PortHolds
  <2> QED
    BY <2>1, <2>2 DEF OpenPortsHaveTheirTables, HasTables
<1>5. OpenedOutboxIsScrubbed
  BY <1>1 DEF OpenedOutboxIsScrubbed, PortHolds
<1> QED
  BY <1>2, <1>4, <1>5 DEF OpenedFilesAreSound

\* Whatever lay at the two paths, and however often an opening failed, the process
\* died or SQLite would not close: a file this code made is accepted again, ports
\* are handed out over its own tables only, and over no expired text
\* (OpenedFilesAreSound, the openers of the two SQLite ports).
THEOREM OpenedFilesAreAlwaysSound == FilesSpec => []OpenedFilesAreSound
BY FilesInvHolds, FilesAreSound, PTL
===============================================================================
