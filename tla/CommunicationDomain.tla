------------------------- MODULE CommunicationDomain -------------------------
(***************************************************************************)
(* The vocabulary every communication module shares: the durable states of *)
(* a text turn and the moves between them, the factual statuses the ledger *)
(* keeps beside the state, the outcomes of a language model completion,    *)
(* and the limits of the queue.  It has no variables.                      *)
(***************************************************************************)
EXTENDS Integers, FiniteSets, Sequences

CONSTANTS
    Turns,                    \* turn identifiers, one per observed transport event
    Conversations,            \* (owner, conversation) pairs
    TransportKeys,            \* idempotency keys derived from transport events
    None,                     \* SQL NULL
    MaxDepthPerConversation,  \* queueConfig.maxDepthPerConversation
    MaxGlobalPending,         \* queueConfig.maxGlobalPending
    MaxSafeInteger            \* Number.MAX_SAFE_INTEGER, scaled down by the runs

TurnStates ==
    { "observed", "authentication_rejected", "authenticated", "accepted", "queued",
      "llm_started", "llm_known_failed", "deterministic_notice_prepared",
      "llm_completed", "output_validated", "delivery_started", "delivered",
      "delivery_failed", "delivery_outcome_unknown", "cancelled", "completed" }

\* The normative table of legal ledger moves.
LegalTransitions ==
    [ observed                      |-> {"authenticated", "authentication_rejected", "cancelled"},
      authentication_rejected       |-> {"completed"},
      authenticated                 |-> {"accepted", "cancelled"},
      accepted                      |-> {"queued", "cancelled"},
      queued                        |-> {"llm_started", "cancelled"},
      llm_started                   |-> {"llm_completed", "llm_known_failed", "cancelled"},
      llm_known_failed              |-> {"deterministic_notice_prepared", "completed"},
      deterministic_notice_prepared |-> {"output_validated", "cancelled"},
      llm_completed                 |-> {"output_validated", "cancelled"},
      output_validated              |-> {"delivery_started", "cancelled"},
      delivery_started              |-> {"delivered", "delivery_failed", "delivery_outcome_unknown"},
      delivered                     |-> {"completed"},
      delivery_failed               |-> {"completed"},
      delivery_outcome_unknown      |-> {"completed"},
      cancelled                     |-> {"completed"},
      completed                     |-> {} ]

NoticeEligibleFailures ==
    { "provider-unavailable", "quota-unavailable", "known-timeout",
      "cancelled-before-invocation" }

NoticeIneligibleFailures == {"policy-rejected", "invalid-response"}

LlmCompletionOutcomes ==
    {"completed", "outcome-unknown"} \cup NoticeEligibleFailures \cup NoticeIneligibleFailures

DeliveryStatuses == {"not_started", "started", "delivered", "failed", "outcome_unknown"}
CheckpointStatuses == {"not_required", "pending", "succeeded", "failed"}
AuditStartStatuses == {"pending", "succeeded", "failed"}
AuditCompletionStatuses == {"not_started", "pending", "succeeded", "failed"}

\* The error codes the processing of a turn writes beside its facts.
FactErrorCodes ==
    { "LLM_OUTCOME_UNKNOWN", "DELIVERY_FAILED", "DELIVERY_OUTCOME_UNKNOWN",
      "CONVERSATION_CHECKPOINT_FAILED" }

\* The factual columns of a ledger row, written together by recordFactualOutcome.
Facts ==
    [ llm             : LlmCompletionOutcomes \cup {None},
      delivery        : DeliveryStatuses,
      checkpoint      : CheckpointStatuses,
      auditStart      : AuditStartStatuses,
      auditCompletion : AuditCompletionStatuses,
      error           : FactErrorCodes \cup {None} ]

FactsOf(llm, delivery, checkpoint, auditStart, auditCompletion, error) ==
    [ llm |-> llm, delivery |-> delivery, checkpoint |-> checkpoint,
      auditStart |-> auditStart, auditCompletion |-> auditCompletion, error |-> error ]

\* The facts of a row as the INSERT of observeTransportEvent creates it.
InitialFacts == FactsOf(None, "not_started", "not_required", "pending", "not_started", None)

\* A number one past which the tables hold no integer: a write that would need
\* the next one is refused.
Exhausted(number) == number >= MaxSafeInteger

ASSUME ConstantsAssumption ==
    /\ IsFiniteSet(Turns)
    /\ None \notin Turns \cup Conversations \cup TransportKeys
    /\ None \notin LlmCompletionOutcomes \cup FactErrorCodes \cup DeliveryStatuses
    /\ MaxDepthPerConversation \in Nat \ {0}
    /\ MaxGlobalPending \in Nat \ {0}
    /\ MaxSafeInteger \in Nat \ {0}
===============================================================================
