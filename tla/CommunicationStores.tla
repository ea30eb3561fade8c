------------------------- MODULE CommunicationStores -------------------------
(***************************************************************************)
(* The three tables of the communication database beside the ledger: the   *)
(* conversation state, the delivery outbox and the audit.  Each operation  *)
(* is one transaction on one of them; together they are the record that    *)
(* the processing of a turn and recovery go by.                            *)
(***************************************************************************)
EXTENDS ConversationState

----------------------------------------------------------------------------
(* The durable delivery outbox: the plaintext waiting to be delivered, the   *)
(* outcome proven for it, and the reconciliations of unknown outcomes.       *)
(* Every method but readDeliveryOutcome first scrubs the plaintext whose     *)
(* time to live has passed.                                                  *)

VARIABLES
    outboxEntries,     \* table outbox_entries: absent, pending, expired or scrubbed
    outboxOutcomes,    \* table outbox_outcomes
    outboxReconciled   \* table outbox_reconcile_ops: the turns reconciled

outboxVars == <<outboxEntries, outboxOutcomes, outboxReconciled>>

DeliveryOutcomes == {"delivered", "known-failure", "outcome-unknown"}

ASSUME OutboxAssumption == None \notin DeliveryOutcomes

OutboxInit ==
    /\ outboxEntries = [t \in Turns |-> "absent"]
    /\ outboxOutcomes = [t \in Turns |-> None]
    /\ outboxReconciled = {}

Scrubbed(entries) ==
    [t \in Turns |-> IF entries[t] = "expired" THEN "scrubbed" ELSE entries[t]]

\* put of a live output: stored, or already-stored for the same digest.
EntryAfterPut(entry) == IF entry = "absent" THEN "pending" ELSE entry

OutboxPut(t) ==
    /\ outboxEntries' = [Scrubbed(outboxEntries) EXCEPT ![t] = EntryAfterPut(@)]
    /\ UNCHANGED <<outboxOutcomes, outboxReconciled>>

RecordDeliveryOutcomeKind(t, outcome) ==
    CASE outboxOutcomes[t] = None -> "recorded"
      [] outboxOutcomes[t] \in {"outcome-unknown", outcome} -> "already-recorded"
      [] OTHER -> "unavailable"

RecordDeliveryOutcome(t, outcome) ==
    /\ outboxOutcomes' = IF RecordDeliveryOutcomeKind(t, outcome) = "recorded"
                         THEN [outboxOutcomes EXCEPT ![t] = outcome]
                         ELSE outboxOutcomes
    /\ outboxEntries' = Scrubbed(outboxEntries)
    /\ UNCHANGED outboxReconciled

\* Read-only: it neither scrubs nor writes.
ReadDeliveryOutcome(t) ==
    CASE outboxOutcomes[t] # None -> outboxOutcomes[t]
      [] outboxEntries[t] = "absent" -> "not-found"
      [] OTHER -> "not-recorded"

\* loadPending and getReconciliationCandidate: queries that scrub first.
QueryOutbox ==
    /\ outboxEntries' = Scrubbed(outboxEntries)
    /\ UNCHANGED <<outboxOutcomes, outboxReconciled>>

ReconcileDelivery(t) ==
    /\ outboxReconciled' = IF outboxOutcomes[t] = "outcome-unknown"
                           THEN outboxReconciled \cup {t}
                           ELSE outboxReconciled
    /\ outboxEntries' = Scrubbed(outboxEntries)
    /\ UNCHANGED outboxOutcomes

\* Time passes the expiry of a pending entry.
OutboxEntryExpires(t) ==
    /\ outboxEntries[t] = "pending"
    /\ outboxEntries' = [outboxEntries EXCEPT ![t] = "expired"]
    /\ UNCHANGED <<outboxOutcomes, outboxReconciled>>

OutboxNext ==
    \/ QueryOutbox
    \/ \E t \in Turns :
         \/ OutboxPut(t)
         \/ \E outcome \in DeliveryOutcomes : RecordDeliveryOutcome(t, outcome)
         \/ ReconcileDelivery(t)
         \/ OutboxEntryExpires(t)

OutboxSpec == OutboxInit /\ [][OutboxNext]_outboxVars
----------------------------------------------------------------------------
\* The tables hold values of their columns' domains.
OutboxTypeOK ==
    /\ outboxEntries \in [Turns -> {"absent", "pending", "expired", "scrubbed"}]
    /\ outboxOutcomes \in [Turns -> DeliveryOutcomes \cup {None}]
    /\ outboxReconciled \subseteq Turns

\* Only a delivery whose outcome is durably unknown, and stays so, is ever
\* reconciled: the proof that a message arrived cannot be overwritten later.
ReconciledStaysUnknown == \A t \in outboxReconciled : outboxOutcomes[t] = "outcome-unknown"

\* Plaintext that a method scrubbed never comes back, not even by a repeated put.
ScrubbedStaysScrubbed ==
    [][\A t \in Turns : outboxEntries[t] = "scrubbed" => outboxEntries'[t] = "scrubbed"]_outboxVars

----------------------------------------------------------------------------
(* The durable two-phase audit: one start event and one completion event per *)
(* turn.  A completion needs a start event of the same policy version.       *)
(* Repeating an equivalent event is accepted, a different one under the same *)
(* key is rejected.                                                          *)

CONSTANT PolicyVersions

ASSUME PolicyAssumption == None \notin PolicyVersions

VARIABLES
    auditStarts,        \* table audit_start: the policy version it was written under
    auditCompletions    \* table audit_completion

auditVars == <<auditStarts, auditCompletions>>

CompletionEvents ==
    [ policy     : PolicyVersions,
      delivery   : {"delivered", "failed", "outcome_unknown"},
      checkpoint : {"succeeded", "failed"},
      completion : {"succeeded", "failed"} ]

ASSUME AuditAssumption == None \notin CompletionEvents

AuditInit ==
    /\ auditStarts = [t \in Turns |-> None]
    /\ auditCompletions = [t \in Turns |-> None]

RecordStartKind(t, policy) ==
    CASE auditStarts[t] = None -> "recorded"
      [] auditStarts[t] = policy -> "already-recorded"
      [] OTHER -> "rejected"

RecordStart(t, policy) ==
    /\ auditStarts' = IF RecordStartKind(t, policy) = "recorded"
                      THEN [auditStarts EXCEPT ![t] = policy]
                      ELSE auditStarts
    /\ UNCHANGED auditCompletions

RecordCompletionKind(t, event) ==
    CASE auditStarts[t] = event.policy /\ auditCompletions[t] = None -> "recorded"
      [] auditStarts[t] = event.policy /\ auditCompletions[t] = event -> "already-recorded"
      [] OTHER -> "rejected"

RecordCompletion(t, event) ==
    /\ auditCompletions' = IF RecordCompletionKind(t, event) = "recorded"
                           THEN [auditCompletions EXCEPT ![t] = event]
                           ELSE auditCompletions
    /\ UNCHANGED auditStarts

AuditNext ==
    \E t \in Turns :
      \/ \E policy \in PolicyVersions : RecordStart(t, policy)
      \/ \E event \in CompletionEvents : RecordCompletion(t, event)

AuditSpec == AuditInit /\ [][AuditNext]_auditVars
----------------------------------------------------------------------------
\* The tables hold values of their columns' domains.
AuditTypeOK ==
    /\ auditStarts \in [Turns -> PolicyVersions \cup {None}]
    /\ auditCompletions \in [Turns -> CompletionEvents \cup {None}]

\* A completion event is never without the start event it closes, and was
\* judged under the same policy version.
CompletionClosesItsStart ==
    \A t \in Turns : auditCompletions[t] # None => auditStarts[t] = auditCompletions[t].policy

----------------------------------------------------------------------------
(* The three stores together.                                                *)

recordVars == <<conversationVars, outboxVars, auditVars>>

StoresInit == ConversationInit /\ OutboxInit /\ AuditInit

StoresNext ==
    \/ ConversationNext /\ UNCHANGED <<outboxVars, auditVars>>
    \/ OutboxNext /\ UNCHANGED <<conversationVars, auditVars>>
    \/ AuditNext /\ UNCHANGED <<conversationVars, outboxVars>>

StoresSpec == StoresInit /\ [][StoresNext]_recordVars

----------------------------------------------------------------------------
\* What the three stores hold stays provable: every revision of a snapshot was
\* written by exactly one idempotent operation, only a delivery whose outcome
\* stays unknown was reconciled, and a completion event closes a start event of
\* its own policy (each is stated in the store's module).
StoresKeepTheirRecords ==
    EveryRevisionHasOneOperation /\ ReconciledStaysUnknown /\ CompletionClosesItsStart
===============================================================================
