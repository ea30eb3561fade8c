-------------------------- MODULE ConversationState --------------------------
(***************************************************************************)
(* The durable conversation state: one snapshot per conversation and the   *)
(* idempotency records of the operations that wrote it.  Each method is    *)
(* one transaction.  A snapshot's text is abstracted to the turns whose    *)
(* text it holds, in order; the byte limit of the serialised context is    *)
(* MaxContextEntries.  The clients write the successor of the revision     *)
(* they read, as the processing of a turn does, and are otherwise free.    *)
(***************************************************************************)
EXTENDS CommunicationDomain

CONSTANT MaxContextEntries

ASSUME ContextAssumption == MaxContextEntries \in Nat

VARIABLES
    snapshots,      \* table conversation_snapshots
    checkpointOps   \* table checkpoint_ops

conversationVars == <<snapshots, checkpointOps>>

PauseStates == {"active", "paused", "degraded"}
BarrierReasons ==
    { "llm-outcome-unknown", "delivery-outcome-unknown", "checkpoint-failed",
      "recovery-context-unavailable-after-delivery" }

\* Operation keys are hashes of a purpose and the turn.
OperationKeys == ({"checkpoint", "reconcile"} \cup BarrierReasons) \X Turns

Snapshots ==
    [ revision   : 0 .. MaxSafeInteger,
      pause      : PauseStates,
      checkpoint : CheckpointStatuses,
      context    : Seq(Turns) ]

\* No row: load answers not-found, and writers expect revision 0.
NoSnapshot ==
    [revision |-> 0, pause |-> "active", checkpoint |-> "not_required", context |-> <<>>]

ConversationInit ==
    /\ snapshots = [c \in Conversations |-> NoSnapshot]
    /\ checkpointOps = [c \in Conversations |-> {}]

OpsWithKey(c, key) == {op \in checkpointOps[c] : op.key = key}

\* The compare-and-set every writer of a snapshot starts with.
NeverStale(c, expectedRevision) == FALSE    \* mutant
Stale(c, expectedRevision) == snapshots[c].revision # expectedRevision

WriteSnapshot(c, key, kind, next) ==
    /\ snapshots' = [snapshots EXCEPT ![c] = next]
    /\ checkpointOps' = [checkpointOps EXCEPT
         ![c] = @ \cup {[key |-> key, kind |-> kind, snapshot |-> next]}]

\* A degraded snapshot with a failed checkpoint takes no ordinary checkpoint.
NoBarrier(snapshot) == FALSE    \* mutant
BarrierActive(snapshot) == snapshot.checkpoint = "failed" /\ snapshot.pause = "degraded"

----------------------------------------------------------------------------
CheckpointOutcome(c, key, expectedRevision, next) ==
    CASE Len(next.context) > MaxContextEntries -> "unavailable"
      [] \E op \in OpsWithKey(c, key) : op.kind = "checkpoint" /\ op.snapshot = next -> "already-applied"
      [] OpsWithKey(c, key) # {} -> "unavailable"
      [] Stale(c, expectedRevision) -> "stale-revision"
      [] BarrierActive(snapshots[c]) -> "barrier-active"
      [] OTHER -> "stored"

Checkpoint(c, key, expectedRevision, next) ==
    IF CheckpointOutcome(c, key, expectedRevision, next) = "stored"
    THEN WriteSnapshot(c, key, "checkpoint", next)
    ELSE UNCHANGED conversationVars

----------------------------------------------------------------------------
\* The snapshot a barrier leaves: the same context, degraded and failed.
Degrade(snapshot) ==
    [snapshot EXCEPT !.revision = @ + 1, !.pause = "degraded", !.checkpoint = "failed"]

BarrierOutcome(c, key, expectedRevision) ==
    CASE \E op \in OpsWithKey(c, key) : op.kind = "barrier" -> "already-recorded"
      [] OpsWithKey(c, key) # {} -> "unavailable"
      [] Stale(c, expectedRevision) -> "stale-revision"
      [] Exhausted(snapshots[c].revision) -> "unavailable"
      [] OTHER -> "recorded"

RecordCheckpointBarrier(c, key, expectedRevision) ==
    IF BarrierOutcome(c, key, expectedRevision) = "recorded"
    THEN WriteSnapshot(c, key, "barrier", Degrade(snapshots[c]))
    ELSE UNCHANGED conversationVars

----------------------------------------------------------------------------
\* reconcileCheckpoint has no caller in the repository: the tests drive it.
ReconcileOutcome(c, key, expectedRevision) ==
    CASE \E op \in OpsWithKey(c, key) : op.kind = "reconcile" -> "already-reconciled"
      [] OpsWithKey(c, key) # {} -> "idempotency-conflict"
      [] snapshots[c] = NoSnapshot -> "not-found"
      [] Stale(c, expectedRevision) -> "stale-revision"
      [] snapshots[c].checkpoint \notin {"pending", "failed"} -> "not-eligible"
      [] Exhausted(snapshots[c].revision) -> "unavailable"
      [] OTHER -> "reconciled"

ReconcileCheckpoint(c, key, expectedRevision) ==
    IF ReconcileOutcome(c, key, expectedRevision) = "reconciled"
    THEN WriteSnapshot(c, key, "reconcile",
                       [snapshots[c] EXCEPT !.revision = @ + 1, !.checkpoint = "succeeded"])
    ELSE UNCHANGED conversationVars

----------------------------------------------------------------------------
\* The snapshot the processing of a turn checkpoints over the one it loaded:
\* it appends the owner's text and never lifts a degraded pause.
NextCheckpoint(loaded, t) ==
    [ revision   |-> loaded.revision + 1,
      pause      |-> IF loaded.pause = "degraded" THEN "degraded" ELSE "active",
      checkpoint |-> "succeeded",
      context    |-> Append(loaded.context, t) ]

\* The execution gate: what may go on to memory, prompt and model.
GateEligible(snapshot) ==
    snapshot.pause # "degraded" /\ snapshot.checkpoint \notin {"pending", "failed"}

ConversationNext ==
    \E c \in Conversations, t \in Turns :
      \E revision \in 0 .. snapshots[c].revision :
        \/ /\ revision < MaxSafeInteger
           /\ \E loaded \in {op.snapshot : op \in checkpointOps[c]} \cup {NoSnapshot} :
                /\ loaded.revision = revision
                /\ Checkpoint(c, <<"checkpoint", t>>, revision, NextCheckpoint(loaded, t))
        \/ \E reason \in BarrierReasons :
             RecordCheckpointBarrier(c, <<reason, t>>, revision)
        \/ ReconcileCheckpoint(c, <<"reconcile", t>>, revision)

ConversationSpec == ConversationInit /\ [][ConversationNext]_conversationVars
----------------------------------------------------------------------------
\* Both tables hold values of their columns' domains.
ConversationTypeOK ==
    /\ snapshots \in [Conversations -> Snapshots]
    /\ checkpointOps \in [Conversations ->
         SUBSET [key : OperationKeys, kind : {"checkpoint", "barrier", "reconcile"},
                 snapshot : Snapshots]]

\* Every revision of a snapshot was written by exactly one idempotent
\* operation, and the newest one wrote the stored snapshot: a retry, a stale
\* writer or a barrier never writes a revision twice.
EveryRevisionHasOneOperation ==
    \A c \in Conversations :
      /\ {op.snapshot.revision : op \in checkpointOps[c]} = 1 .. snapshots[c].revision
      /\ \A o, p \in checkpointOps[c] :
           o.key = p.key \/ o.snapshot.revision = p.snapshot.revision => o = p
      /\ \A op \in checkpointOps[c] :
           op.snapshot.revision = snapshots[c].revision => op.snapshot = snapshots[c]

\* A degraded conversation stays degraded through checkpoints, barriers and
\* reconciliation (nothing in the repository lifts the pause), and while its barrier
\* is active, that is until it is reconciled, no write adds a turn to what the next
\* prompt would be built from.  Once reconciled it takes checkpoints again, degraded
\* as it still is.
BarrierFreezesContext ==
    [][\A c \in Conversations : snapshots[c].pause = "degraded" =>
         /\ snapshots'[c].pause = "degraded"
         /\ snapshots[c].checkpoint = "failed" =>
              snapshots'[c].context = snapshots[c].context]_conversationVars
===============================================================================
