------------------------------ MODULE TextTurn ------------------------------
(***************************************************************************)
(* processTextTurn: the pipeline that takes a queued turn through audit,   *)
(* gate, language model, output, delivery and checkpoint to completed.     *)
(* Each await of the code is a point where other work runs, so a turn is a *)
(* job whose stage names the port call it makes next, and each port call   *)
(* with the synchronous code after it is one action.  jobs[t] holds the    *)
(* locals of the call: the revision it believes the row has, the           *)
(* generation it was created in, its abort signal, what it has learnt.     *)
(* effects counts what reached the providers, which no crash undoes.       *)
(***************************************************************************)
EXTENDS TurnLedger, CommunicationStores

CONSTANTS
    OfferedLlmResults,  \* what the model may answer: outcomes, or "error"
    MaxFaults           \* how many port calls fail in a behaviour

ASSUME PipelineAssumption ==
    /\ OfferedLlmResults \subseteq LlmCompletionOutcomes \cup {"error"}
    /\ None # "error"
    /\ MaxFaults \in Nat

VARIABLES
    jobs,         \* the locals of the pipeline of each turn
    generation,   \* the orchestrator's generation counter
    sideEffects,  \* whether the sideEffects counters have left zero
    policy,       \* deps.policyVersion of the running process
    effects,      \* per turn: calls made to the model and to delivery, and the answer
    faults        \* port calls that have failed so far

pipelineVars == <<jobs, generation, sideEffects, policy, effects, faults>>
storeVars == <<ledgerVars, conversationVars, outboxVars, auditVars>>

BarrierAttempts == 3

Stages ==
    { "idle", "queued", "kill-switch", "audit-start", "gate", "gate-cancel", "gate-complete",
      "llm-start", "llm-call", "llm-wait", "llm-unknown", "llm-cancel", "failed-move",
      "failed-fact", "failed-complete", "notice", "llm-complete", "validate", "outbox-put",
      "delivery-start", "delivery-call", "delivery-wait", "outbox-outcome",
      "delivery-unknown", "unknown-fact", "unknown-move", "delivery-fact", "delivery-move",
      "checkpoint-load", "checkpoint-write", "checkpoint-fact", "checkpoint-failed",
      "barrier-load", "barrier-write", "audit-completion", "completion-fact", "complete",
      "error", "done" }

\* The abort signal is read for the last time when the delivery settles.
AbortableStages ==
    { "queued", "kill-switch", "audit-start", "gate", "llm-start", "llm-call", "llm-wait",
      "failed-move", "failed-fact", "notice", "llm-complete", "validate", "outbox-put", "delivery-start",
      "delivery-call", "delivery-wait" }

\* Stages whose next step may end in an error: all but the model and delivery
\* calls, whose errors are outcomes of their own.
FallibleStages ==
    Stages \ {"idle", "queued", "llm-call", "llm-wait", "delivery-call", "delivery-wait", "error", "done"}

NoJob ==
    [ stage |-> "idle", revision |-> 0, generation |-> 0, aborted |-> FALSE, llm |-> None,
      delivery |-> None, checkpoint |-> "pending", loaded |-> NoSnapshot, attempts |-> 0 ]

NoEffects == [llm |-> 0, delivery |-> 0, answer |-> None]

PipelineInit ==
    /\ jobs = [t \in Turns |-> NoJob]
    /\ generation = 0
    /\ sideEffects = FALSE
    /\ policy \in PolicyVersions
    /\ effects = [t \in Turns |-> NoEffects]
    /\ faults = 0

At(t, stage) == jobs[t].stage = stage
Home(t) == turns[t].conversation
AnyGeneration(t) == TRUE    \* mutant
GenerationCurrent(t) == jobs[t].generation = generation

Only(t, job) == jobs' = [jobs EXCEPT ![t] = job]
Goto(t, stage) == Only(t, [jobs[t] EXCEPT !.stage = stage])
NoEffect == UNCHANGED <<generation, sideEffects, policy, effects, faults>>
LedgerCall == UNCHANGED <<conversationVars, outboxVars, auditVars>> /\ NoEffect
ConversationCall == UNCHANGED <<ledgerVars, outboxVars, auditVars>> /\ NoEffect
OutboxCall == UNCHANGED <<ledgerVars, conversationVars, auditVars>> /\ NoEffect
AuditCall == UNCHANGED <<ledgerVars, conversationVars, outboxVars>> /\ NoEffect

\* requireTransitionSuccess, requireFactualSuccess: only a proven outcome goes on.
AfterLedger(local, kind, stage) ==
    CASE kind \in {"transitioned", "recorded"} ->
           [local EXCEPT !.stage = stage, !.revision = @ + 1]
      [] kind \in {"already-transitioned", "already-recorded"} -> [local EXCEPT !.stage = stage]
      [] OTHER -> [local EXCEPT !.stage = "error"]

\* requireAuditSuccess, requireOutboxRecordSuccess.
AfterRecord(local, kind, stage) ==
    [local EXCEPT !.stage = IF kind \in {"recorded", "already-recorded"} THEN stage ELSE "error"]

Move(t, from, to, stage) ==
    /\ Transition(t, jobs[t].revision, from, to)
    /\ Only(t, AfterLedger(jobs[t], TransitionOutcome(t, jobs[t].revision, from, to), stage))
    /\ LedgerCall

WriteFacts(t, facts, stage) ==
    /\ RecordFactualOutcome(t, jobs[t].revision, facts)
    /\ Only(t, AfterLedger(jobs[t], RecordFactualOutcomeKind(t, jobs[t].revision, facts), stage))
    /\ LedgerCall

----------------------------------------------------------------------------
\* processTextTurn: nothing is read or called before the audit start is durable.

SkipsAuditStart(t) ==    \* mutant
    At(t, "kill-switch") /\ Goto(t, "gate") /\ UNCHANGED storeVars /\ NoEffect

\* The kill switch snapshot is eligible; otherwise PhaseFails.
ReadKillSwitch(t) ==
    /\ At(t, "kill-switch")
    /\ Goto(t, "audit-start")
    /\ UNCHANGED storeVars /\ NoEffect

RecordAuditStart(t) ==
    /\ At(t, "audit-start")
    /\ RecordStart(t, policy)
    /\ Only(t, AfterRecord(jobs[t], RecordStartKind(t, policy), "gate"))
    /\ AuditCall

\* evaluateConversationExecutionGate, and the memory call right after an eligible gate.
EvaluateGate(t) ==
    /\ At(t, "gate")
    /\ Goto(t, IF GateEligible(snapshots[Home(t)]) THEN "llm-start" ELSE "gate-cancel")
    /\ sideEffects' = (sideEffects \/ GateEligible(snapshots[Home(t)]))
    /\ UNCHANGED <<storeVars, generation, policy, effects, faults>>

CancelAtGate(t) == At(t, "gate-cancel") /\ Move(t, "queued", "cancelled", "gate-complete")
CompleteAtGate(t) == At(t, "gate-complete") /\ Move(t, "cancelled", "completed", "done")

----------------------------------------------------------------------------
\* executeAfterAuditStart

\* Memory is read and the prompt assembled; otherwise PhaseFails.
StartLlm(t) == At(t, "llm-start") /\ Move(t, "queued", "llm_started", "llm-call")

LlmUnknown(job) == [job EXCEPT !.stage = "llm-unknown", !.llm = "outcome-unknown"]

\* A stale generation makes no call.  An abort raised before the call does not
\* stop it: the call is made and its answer ignored.
InvokeLlm(t) ==
    /\ At(t, "llm-call")
    /\ IF GenerationCurrent(t) /\ ~jobs[t].aborted
       THEN Goto(t, "llm-wait")
       ELSE Only(t, LlmUnknown(jobs[t]))
    /\ effects' = IF GenerationCurrent(t) THEN [effects EXCEPT ![t].llm = @ + 1] ELSE effects
    /\ UNCHANGED <<storeVars, generation, sideEffects, policy, faults>>

\* routeLlmResult
LlmRoute(job, result) ==
    CASE result = "completed" -> [job EXCEPT !.stage = "llm-complete", !.llm = result]
      [] result \in NoticeEligibleFailures \cup NoticeIneligibleFailures ->
           [job EXCEPT !.stage = "failed-move", !.llm = result]
      [] OTHER -> LlmUnknown(job)

\* The answer, an error or the abort signal, whichever is first, settles the call.
LlmSettles(t, result) ==
    /\ At(t, "llm-wait")
    /\ Only(t, IF jobs[t].aborted \/ ~GenerationCurrent(t)
               THEN LlmUnknown(jobs[t])
               ELSE LlmRoute(jobs[t], result))
    /\ UNCHANGED storeVars /\ NoEffect

\* finalizeLlmOutcomeUnknown, which ends in the barrier and in complete.
UnknownLlmFacts ==
    FactsOf("outcome-unknown", "not_started", "failed", "succeeded", "failed", "LLM_OUTCOME_UNKNOWN")

RecordLlmUnknown(t) == At(t, "llm-unknown") /\ WriteFacts(t, UnknownLlmFacts, "llm-cancel")
CancelUnknownLlm(t) == At(t, "llm-cancel") /\ Move(t, "llm_started", "cancelled", "barrier-load")

\* A known failure: recorded, then completed or answered with a fixed notice.
RecordKnownFailure(t) == At(t, "failed-move") /\ Move(t, "llm_started", "llm_known_failed", "failed-fact")

RecordKnownFailureFacts(t) ==
    /\ At(t, "failed-fact")
    /\ WriteFacts(t, FactsOf(jobs[t].llm, "not_started", "not_required", "succeeded", "not_started", None),
                  IF jobs[t].llm \in NoticeIneligibleFailures THEN "failed-complete" ELSE "notice")

CompleteKnownFailure(t) == At(t, "failed-complete") /\ Move(t, "llm_known_failed", "completed", "done")
PrepareNotice(t) ==
    At(t, "notice") /\ Move(t, "llm_known_failed", "deterministic_notice_prepared", "validate")

\* validateTextOutput accepts the answer; otherwise PhaseFails.
RecordLlmCompleted(t) == At(t, "llm-complete") /\ Move(t, "llm_started", "llm_completed", "validate")

----------------------------------------------------------------------------
\* finalizeDeliveryAfterValidatedOutput

ValidateOutput(t) ==
    /\ At(t, "validate")
    /\ Move(t, IF jobs[t].llm = "completed" THEN "llm_completed" ELSE "deterministic_notice_prepared",
            "output_validated", "outbox-put")

SendsUnrecorded(t) ==    \* mutant
    At(t, "outbox-put") /\ OutboxPut(t) /\ Goto(t, "delivery-call") /\ OutboxCall

PutOutput(t) ==
    /\ At(t, "outbox-put")
    /\ OutboxPut(t)
    /\ Goto(t, "delivery-start")
    /\ OutboxCall

StartDelivery(t) ==
    At(t, "delivery-start") /\ Move(t, "output_validated", "delivery_started", "delivery-call")

DeliveryUnknown(job) == [job EXCEPT !.stage = "delivery-unknown", !.delivery = "outcome-unknown"]

InvokeDelivery(t) ==
    /\ At(t, "delivery-call")
    /\ IF GenerationCurrent(t) /\ ~jobs[t].aborted
       THEN Goto(t, "delivery-wait")
       ELSE Only(t, DeliveryUnknown(jobs[t]))
    /\ effects' = IF GenerationCurrent(t) THEN [effects EXCEPT ![t].delivery = @ + 1] ELSE effects
    /\ UNCHANGED <<storeVars, generation, sideEffects, policy, faults>>

\* The provider answers whether or not the pipeline still listens.
DeliverySettles(t, result) ==
    /\ At(t, "delivery-wait")
    /\ effects' = [effects EXCEPT ![t].answer = result]
    /\ Only(t, IF jobs[t].aborted \/ ~GenerationCurrent(t) \/ result = "error"
               THEN DeliveryUnknown(jobs[t])
               ELSE [jobs[t] EXCEPT !.stage = "outbox-outcome", !.delivery = result])
    /\ UNCHANGED <<storeVars, generation, sideEffects, policy, faults>>

RecordOutboxOutcome(t) ==
    /\ At(t, "outbox-outcome")
    /\ RecordDeliveryOutcome(t, jobs[t].delivery)
    /\ Only(t, AfterRecord(jobs[t], RecordDeliveryOutcomeKind(t, jobs[t].delivery),
               IF jobs[t].delivery = "outcome-unknown" THEN "delivery-unknown" ELSE "delivery-fact"))
    /\ OutboxCall

\* finalizeDeliveryOutcomeUnknown, which ends in the barrier and in complete.
RecordOutboxUnknown(t) ==
    /\ At(t, "delivery-unknown")
    /\ RecordDeliveryOutcome(t, "outcome-unknown")
    /\ Only(t, AfterRecord(jobs[t], RecordDeliveryOutcomeKind(t, "outcome-unknown"), "unknown-fact"))
    /\ OutboxCall

RecordDeliveryUnknown(t) ==
    /\ At(t, "unknown-fact")
    /\ WriteFacts(t, FactsOf(jobs[t].llm, "outcome_unknown", "failed", "succeeded", "failed",
                             "DELIVERY_OUTCOME_UNKNOWN"), "unknown-move")

UnknownWithoutBarrier(t) ==    \* mutant
    At(t, "unknown-move") /\ Move(t, "delivery_started", "delivery_outcome_unknown", "complete")

MoveToDeliveryUnknown(t) ==
    At(t, "unknown-move") /\ Move(t, "delivery_started", "delivery_outcome_unknown", "barrier-load")

\* A proven delivery: the facts first, then the state.
DeliveryStatus(job) == IF job.delivery = "delivered" THEN "delivered" ELSE "failed"
DeliveryError(job) == IF job.delivery = "delivered" THEN None ELSE "DELIVERY_FAILED"

\* The state the row is in while the last steps run.
FinalState(job) ==
    CASE job.delivery = "delivered" -> "delivered"
      [] job.delivery = "known-failure" -> "delivery_failed"
      [] job.delivery = "outcome-unknown" -> "delivery_outcome_unknown"
      [] OTHER -> "cancelled"

RecordProvenDelivery(t) ==
    /\ At(t, "delivery-fact")
    /\ WriteFacts(t, FactsOf(jobs[t].llm, DeliveryStatus(jobs[t]), "pending", "succeeded",
                             "pending", DeliveryError(jobs[t])), "delivery-move")

MoveToProven(t) ==
    At(t, "delivery-move") /\ Move(t, "delivery_started", FinalState(jobs[t]), "checkpoint-load")

----------------------------------------------------------------------------
\* finalizeCheckpointAfterDelivery

LoadForCheckpoint(t) ==
    /\ At(t, "checkpoint-load")
    /\ Only(t, [jobs[t] EXCEPT !.stage = "checkpoint-write", !.loaded = snapshots[Home(t)]])
    /\ UNCHANGED storeVars /\ NoEffect

CheckpointFailed(job) == [job EXCEPT !.stage = "checkpoint-failed", !.checkpoint = "failed"]

WriteCheckpoint(t) ==
    LET key == <<"checkpoint", t>>
        next == NextCheckpoint(jobs[t].loaded, t)
        kind == CheckpointOutcome(Home(t), key, jobs[t].loaded.revision, next)
    IN /\ At(t, "checkpoint-write")
       /\ Checkpoint(Home(t), key, jobs[t].loaded.revision, next)
       /\ Only(t, IF kind \in {"stored", "already-applied"}
                  THEN [jobs[t] EXCEPT !.stage = "checkpoint-fact", !.checkpoint = "succeeded"]
                  ELSE CheckpointFailed(jobs[t]))
       /\ ConversationCall

RecordCheckpointSucceeded(t) ==
    /\ At(t, "checkpoint-fact")
    /\ WriteFacts(t, FactsOf(jobs[t].llm, DeliveryStatus(jobs[t]), "succeeded", "succeeded",
                             "pending", DeliveryError(jobs[t])), "audit-completion")

\* failCheckpointPath, which goes on with the barrier.
RecordCheckpointFailed(t) ==
    /\ At(t, "checkpoint-failed")
    /\ WriteFacts(t, FactsOf(jobs[t].llm, DeliveryStatus(jobs[t]), "failed", "succeeded",
                             "pending", "CONVERSATION_CHECKPOINT_FAILED"), "barrier-load")

\* recordCompletionAuditAndLedger
CompletionStatus(job) ==
    IF job.delivery = "delivered" /\ job.checkpoint = "succeeded" THEN "succeeded" ELSE "failed"


CompletionEvent(job) ==
    [ policy |-> policy, delivery |-> DeliveryStatus(job), checkpoint |-> job.checkpoint,
      completion |-> CompletionStatus(job) ]

RecordAuditCompletion(t) ==
    /\ At(t, "audit-completion")
    /\ RecordCompletion(t, CompletionEvent(jobs[t]))
    /\ Only(t, AfterRecord(jobs[t], RecordCompletionKind(t, CompletionEvent(jobs[t])), "completion-fact"))
    /\ AuditCall

RecordCompletionFacts(t) ==
    /\ At(t, "completion-fact")
    /\ WriteFacts(t, FactsOf(jobs[t].llm, DeliveryStatus(jobs[t]), jobs[t].checkpoint, "succeeded",
                             CompletionStatus(jobs[t]),
                             IF jobs[t].checkpoint = "failed"
                             THEN "CONVERSATION_CHECKPOINT_FAILED"
                             ELSE DeliveryError(jobs[t])), "complete")

----------------------------------------------------------------------------
\* recordDurableCheckpointBarrier: at most BarrierAttempts rounds of load and CAS.
\* `local` is the locals of a pipeline job or of recovery.

AfterBarrierLoad(local, c) == [local EXCEPT !.stage = "barrier-write", !.loaded = snapshots[c]]

AfterBarrierWrite(local, kind, stage) ==
    CASE kind \in {"recorded", "already-recorded"} -> [local EXCEPT !.stage = stage]
      [] kind = "stale-revision" /\ local.attempts + 1 < BarrierAttempts ->
           [local EXCEPT !.stage = "barrier-load", !.attempts = @ + 1]
      [] OTHER -> [local EXCEPT !.stage = "error"]

BarrierReason(job) ==
    CASE job.checkpoint = "failed" -> "checkpoint-failed"
      [] job.delivery = "outcome-unknown" -> "delivery-outcome-unknown"
      [] OTHER -> "llm-outcome-unknown"

LoadForBarrier(t) ==
    /\ At(t, "barrier-load")
    /\ Only(t, AfterBarrierLoad(jobs[t], Home(t)))
    /\ UNCHANGED storeVars /\ NoEffect

WriteBarrier(t) ==
    LET key == <<BarrierReason(jobs[t]), t>>
        kind == BarrierOutcome(Home(t), key, jobs[t].loaded.revision)
    IN /\ At(t, "barrier-write")
       /\ RecordCheckpointBarrier(Home(t), key, jobs[t].loaded.revision)
       /\ Only(t, AfterBarrierWrite(jobs[t], kind,
                  IF jobs[t].checkpoint = "failed" THEN "audit-completion" ELSE "complete"))
       /\ ConversationCall

CompleteTurn(t) == At(t, "complete") /\ Move(t, FinalState(jobs[t]), "completed", "done")

----------------------------------------------------------------------------
\* The deadline of a job, or anything else that raises its abort signal.
Deadline(t) ==
    /\ jobs[t].stage \in AbortableStages
    /\ ~jobs[t].aborted
    /\ Only(t, [jobs[t] EXCEPT !.aborted = TRUE])
    /\ UNCHANGED storeVars /\ NoEffect

\* A port answers with an error, or a policy refuses, and nothing was written.
\* Only a failed checkpoint load or write goes on.
PhaseFails(t) ==
    /\ faults < MaxFaults
    /\ faults' = faults + 1
    /\ jobs[t].stage \in FallibleStages
    /\ Only(t, IF jobs[t].stage \in {"checkpoint-load", "checkpoint-write"}
               THEN CheckpointFailed(jobs[t])
               ELSE [jobs[t] EXCEPT !.stage = "error"])
    /\ UNCHANGED <<storeVars, generation, sideEffects, policy, effects>>

TextTurnStep(t) ==
    \/ ReadKillSwitch(t) \/ RecordAuditStart(t)
    \/ EvaluateGate(t) \/ CancelAtGate(t) \/ CompleteAtGate(t)
    \/ StartLlm(t) \/ InvokeLlm(t)
    \/ \E result \in OfferedLlmResults : LlmSettles(t, result)
    \/ RecordLlmUnknown(t) \/ CancelUnknownLlm(t)
    \/ RecordKnownFailure(t) \/ RecordKnownFailureFacts(t) \/ CompleteKnownFailure(t)
    \/ PrepareNotice(t) \/ RecordLlmCompleted(t)
    \/ ValidateOutput(t) \/ PutOutput(t) \/ StartDelivery(t) \/ InvokeDelivery(t)
    \/ \E result \in DeliveryOutcomes \cup {"error"} : DeliverySettles(t, result)
    \/ RecordOutboxOutcome(t)
    \/ RecordOutboxUnknown(t) \/ RecordDeliveryUnknown(t) \/ MoveToDeliveryUnknown(t)
    \/ RecordProvenDelivery(t) \/ MoveToProven(t)
    \/ LoadForCheckpoint(t) \/ WriteCheckpoint(t)
    \/ RecordCheckpointSucceeded(t) \/ RecordCheckpointFailed(t)
    \/ LoadForBarrier(t) \/ WriteBarrier(t)
    \/ RecordAuditCompletion(t) \/ RecordCompletionFacts(t) \/ CompleteTurn(t)
===============================================================================
