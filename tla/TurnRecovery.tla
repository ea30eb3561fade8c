---------------------------- MODULE TurnRecovery ----------------------------
(***************************************************************************)
(* recoverCommunicationTurns: before a runtime takes new work it walks the *)
(* turns a former process left unfinished, page by page, and ends each     *)
(* without calling the model or delivering.  Recovery works on the rows as *)
(* the page listed them; the stage of `recovery` names its next port call. *)
(***************************************************************************)
EXTENDS TextTurn

CONSTANT PageLimit   \* PAGE_LIMIT

ASSUME RecoveryAssumption == PageLimit \in Nat \ {0}

VARIABLE recovery

RecoveryStages ==
    { "idle", "list", "pick", "cancel", "llm-fact", "llm-cancel", "read-outbox", "tombstone",
      "delivery-fact", "delivery-move", "assess", "barrier-load", "barrier-write", "reconcile",
      "completion-fact", "complete", "error", "done" }

NoRecovery ==
    [ stage |-> "idle", listed |-> {}, rows |-> <<>>, turn |-> None, row |-> AbsentRow,
      revision |-> 0, at |-> "absent", delivery |-> None, checkpoint |-> None, reason |-> None,
      loaded |-> NoSnapshot, attempts |-> 0 ]

RecoveryInit == recovery = NoRecovery

Recovering(stage) == recovery.stage = stage
Candidate == recovery.turn
CandidateHome == recovery.row.conversation

RecoveryMove(from, to, stage) ==
    LET kind == TransitionOutcome(Candidate, recovery.revision, from, to) IN
    /\ Transition(Candidate, recovery.revision, from, to)
    /\ recovery' = [AfterLedger(recovery, kind, stage) EXCEPT !.at = to]
    /\ LedgerCall

RecoveryFacts(facts, stage) ==
    /\ RecordFactualOutcome(Candidate, recovery.revision, facts)
    /\ recovery' = AfterLedger(recovery, RecordFactualOutcomeKind(Candidate, recovery.revision, facts), stage)
    /\ LedgerCall

----------------------------------------------------------------------------
\* listRecoveryCandidates, oldest first.  An order the clock decides is any order.
ListCandidates ==
    /\ Recovering("list")
    /\ \E page \in SUBSET UnfinishedTurns :
         /\ IF Cardinality(UnfinishedTurns) <= PageLimit
            THEN page = UnfinishedTurns
            ELSE Cardinality(page) = PageLimit
         /\ recovery' =
              CASE page = {} -> [NoRecovery EXCEPT !.stage = "done"]
                [] page # {} /\ page = recovery.listed -> [NoRecovery EXCEPT !.stage = "error"]
                [] OTHER -> [NoRecovery EXCEPT !.stage = "pick", !.listed = page,
                                               !.rows = [t \in page |-> turns[t]]]
    /\ UNCHANGED storeVars /\ NoEffect

\* recoverOne: what a candidate's state asks for.
FirstStage(row) ==
    CASE row.state = "delivery_started" -> "read-outbox"
      [] row.state = "llm_started" /\ row.facts.llm = None -> "llm-fact"
      [] row.state \in {"delivered", "delivery_failed", "delivery_outcome_unknown"} -> "assess"
      [] row.state \in {"authentication_rejected", "cancelled"} -> "complete"
      [] OTHER -> "cancel"

DeliveryOfState(state) ==
    CASE state = "delivered" -> "delivered"
      [] state = "delivery_failed" -> "failed"
      [] state = "delivery_outcome_unknown" -> "outcome_unknown"
      [] OTHER -> None

PickCandidate(t) ==
    /\ Recovering("pick")
    /\ t \in DOMAIN recovery.rows
    /\ LET row == recovery.rows[t] IN
         recovery' = [NoRecovery EXCEPT
           !.stage = FirstStage(row), !.listed = recovery.listed,
           !.rows = [u \in DOMAIN recovery.rows \ {t} |-> recovery.rows[u]],
           !.turn = t, !.row = row, !.revision = row.revision, !.at = row.state,
           !.delivery = DeliveryOfState(row.state), !.checkpoint = row.facts.checkpoint]
    /\ UNCHANGED storeVars /\ NoEffect

StopsAfterPage ==    \* mutant
    Recovering("pick") /\ DOMAIN recovery.rows = {} /\
      recovery' = [NoRecovery EXCEPT !.stage = "done"] /\ UNCHANGED storeVars /\ NoEffect

PageIsDone ==
    /\ Recovering("pick")
    /\ DOMAIN recovery.rows = {}
    /\ recovery' = [NoRecovery EXCEPT !.stage = "list", !.listed = recovery.listed]
    /\ UNCHANGED storeVars /\ NoEffect

\* cancelAndComplete
CancelCandidate == Recovering("cancel") /\ RecoveryMove(recovery.at, "cancelled", "complete")
CompleteCandidate == Recovering("complete") /\ RecoveryMove(recovery.at, "completed", "pick")

----------------------------------------------------------------------------
\* A model call that was started and never recorded: unknown, cancelled, barrier.
RecoverLlmFacts ==
    /\ Recovering("llm-fact")
    /\ RecoveryFacts(FactsOf("outcome-unknown", "not_started", "failed",
                             recovery.row.facts.auditStart, recovery.row.facts.auditCompletion,
                             "LLM_OUTCOME_UNKNOWN"), "llm-cancel")

RecoverLlmCancel == Recovering("llm-cancel") /\ RecoveryMove("llm_started", "cancelled", "barrier-load")

----------------------------------------------------------------------------
\* A delivery that was started: the outbox says what became of it.
OptimisticOutcome(outcome) == IF outcome = "known-failure" THEN "failed" ELSE "delivered"    \* mutant
DeliveryOfOutcome(outcome) ==
    CASE outcome = "delivered" -> "delivered"
      [] outcome = "known-failure" -> "failed"
      [] OTHER -> "outcome_unknown"

RecoverOutbox ==
    /\ Recovering("read-outbox")
    /\ LET outcome == ReadDeliveryOutcome(Candidate) IN
         recovery' = [recovery EXCEPT
           !.stage = IF outcome \in {"not-recorded", "not-found"} THEN "tombstone" ELSE "delivery-fact",
           !.delivery = DeliveryOfOutcome(outcome),
           !.checkpoint = IF DeliveryOfOutcome(outcome) = "outcome_unknown" THEN "failed"
                          ELSE IF @ = "not_required" THEN "pending" ELSE @]
    /\ UNCHANGED storeVars /\ NoEffect

RecoverTombstone ==
    /\ Recovering("tombstone")
    /\ RecordDeliveryOutcome(Candidate, "outcome-unknown")
    /\ recovery' = AfterRecord(recovery, RecordDeliveryOutcomeKind(Candidate, "outcome-unknown"),
                               "delivery-fact")
    /\ OutboxCall

RecoverDeliveryFacts ==
    /\ Recovering("delivery-fact")
    /\ RecoveryFacts(FactsOf(None, recovery.delivery, recovery.checkpoint,
                             recovery.row.facts.auditStart, recovery.row.facts.auditCompletion,
                             CASE recovery.delivery = "delivered" -> None
                               [] recovery.delivery = "failed" -> "DELIVERY_FAILED"
                               [] OTHER -> "DELIVERY_OUTCOME_UNKNOWN"), "delivery-move")

RecoverDeliveryMove ==
    /\ Recovering("delivery-move")
    /\ RecoveryMove("delivery_started",
                    CASE recovery.delivery = "delivered" -> "delivered"
                      [] recovery.delivery = "failed" -> "delivery_failed"
                      [] OTHER -> "delivery_outcome_unknown", "assess")

----------------------------------------------------------------------------
\* completeDeliveryLike: assessCheckpointRecovery, requireBarrier and
\* reconcileCompletionAudit, then completed.
RecoveryBarrier(reason) == [recovery EXCEPT !.stage = "barrier-load", !.reason = reason]

AssessCheckpoint ==
    /\ Recovering("assess")
    /\ recovery' =
         IF recovery.delivery = "outcome_unknown" THEN RecoveryBarrier("delivery-outcome-unknown")
         ELSE IF recovery.checkpoint # "succeeded"
              THEN RecoveryBarrier(IF recovery.delivery = "delivered"
                                   THEN "recovery-context-unavailable-after-delivery" ELSE "checkpoint-failed")
         ELSE IF snapshots[CandidateHome].checkpoint = "succeeded" /\ snapshots[CandidateHome].pause # "degraded"
              THEN [recovery EXCEPT !.stage = "reconcile"]
         ELSE [recovery EXCEPT !.stage = "error"]
    /\ UNCHANGED storeVars /\ NoEffect

RecoverBarrierLoad ==
    /\ Recovering("barrier-load")
    /\ recovery' = AfterBarrierLoad(recovery, CandidateHome)
    /\ UNCHANGED storeVars /\ NoEffect

\* A delivery goes on to its audit, a cancelled model call has no more to record.
RecoverBarrierWrite ==
    LET key == <<IF recovery.delivery = None THEN "llm-outcome-unknown" ELSE recovery.reason, Candidate>>
        kind == BarrierOutcome(CandidateHome, key, recovery.loaded.revision)
    IN /\ Recovering("barrier-write")
       /\ RecordCheckpointBarrier(CandidateHome, key, recovery.loaded.revision)
       /\ recovery' = [AfterBarrierWrite(recovery, kind,
                         IF recovery.delivery = None THEN "complete" ELSE "reconcile")
                       EXCEPT !.checkpoint = "failed"]
       /\ ConversationCall

RecoveredCompletion ==
    IF recovery.delivery = "delivered" /\ recovery.checkpoint = "succeeded" THEN "succeeded" ELSE "failed"

RecoveredEvent ==
    [ policy |-> policy, delivery |-> recovery.delivery, checkpoint |-> recovery.checkpoint,
      completion |-> RecoveredCompletion ]

RecoveredFacts(completion, error) ==
    FactsOf(recovery.row.facts.llm, recovery.delivery, recovery.checkpoint, "succeeded", completion, error)

\* Neither phase of the audit may contradict what recovery is about to record.
AuditContradicts ==
    LET recorded == recovery.row.facts IN
    \/ recorded.auditStart # "succeeded"
    \/ recorded.auditCompletion = "succeeded" /\ RecoveredCompletion = "failed"
    \/ recorded.auditCompletion = "failed" /\ recovery.checkpoint = "succeeded"

ReconcileContradiction ==
    /\ Recovering("reconcile")
    /\ AuditContradicts
    /\ recovery' = [recovery EXCEPT !.stage = "error"]
    /\ UNCHANGED storeVars /\ NoEffect

ReconcileRecorded ==
    /\ Recovering("reconcile")
    /\ ~AuditContradicts
    /\ recovery.row.facts.auditCompletion = "succeeded"
    /\ recovery' = [recovery EXCEPT !.stage = "complete"]
    /\ UNCHANGED storeVars /\ NoEffect

ReconcileFailed ==
    /\ Recovering("reconcile")
    /\ ~AuditContradicts
    /\ recovery.row.facts.auditCompletion = "failed"
    /\ RecoveryFacts(RecoveredFacts("failed", "CONVERSATION_CHECKPOINT_FAILED"), "complete")

ReconcileAudit ==
    /\ Recovering("reconcile")
    /\ ~AuditContradicts
    /\ recovery.row.facts.auditCompletion \notin {"succeeded", "failed"}
    /\ RecordCompletion(Candidate, RecoveredEvent)
    /\ recovery' = AfterRecord(recovery, RecordCompletionKind(Candidate, RecoveredEvent), "completion-fact")
    /\ AuditCall

ReconcileFacts ==
    /\ Recovering("completion-fact")
    /\ RecoveryFacts(RecoveredFacts(RecoveredCompletion,
                       IF recovery.checkpoint = "failed" THEN "CONVERSATION_CHECKPOINT_FAILED"
                       ELSE IF recovery.delivery = "delivered" THEN None ELSE "DELIVERY_FAILED"), "complete")

\* Any port call of recovery answers with an error and has written nothing.
RecoveryFails ==
    /\ faults < MaxFaults
    /\ faults' = faults + 1
    /\ recovery.stage \notin {"idle", "pick", "error", "done"}
    /\ recovery' = [recovery EXCEPT !.stage = "error"]
    /\ UNCHANGED <<storeVars, generation, sideEffects, policy, effects>>

RecoveryStep ==
    \/ ListCandidates \/ PageIsDone \/ \E t \in Turns : PickCandidate(t)
    \/ CancelCandidate \/ CompleteCandidate
    \/ RecoverLlmFacts \/ RecoverLlmCancel
    \/ RecoverOutbox \/ RecoverTombstone \/ RecoverDeliveryFacts \/ RecoverDeliveryMove
    \/ AssessCheckpoint \/ RecoverBarrierLoad \/ RecoverBarrierWrite
    \/ ReconcileContradiction \/ ReconcileRecorded \/ ReconcileFailed
    \/ ReconcileAudit \/ ReconcileFacts
===============================================================================
