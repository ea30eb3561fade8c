------------------------------ MODULE MCRuntime ------------------------------
(***************************************************************************)
(* The runtime for TLC, with what docs/communication/text-state-machines.md*)
(* says of it and the code does not do: each definition states a sentence  *)
(* of the text; a run of its own shows the behaviour that violates it.     *)
(***************************************************************************)
EXTENDS CommunicationRuntime

CONSTANTS t1, t2, t3, c1, c2, k1, k2, p1, p2

Unoffered == {}

\* Any two of what goes wrong: a second crash meets a recovery, a fault meets a crash
\* or a drain.
TwoFailures == crashes + faults + drains <= 2

RecoveryStuckOn(state) == recovery.stage = "error" /\ faults = 0 /\ recovery.row.state = state

\* Line 131: after a restart a turn in llm_known_failed is completed.
KnownFailureIsRecovered == ~RecoveryStuckOn("llm_known_failed")

\* Line 132: after a restart a turn in delivery_started is given the outcome the outbox
\* has of it, or an unknown one, and completed.
StartedDeliveryIsRecovered == ~RecoveryStuckOn("delivery_started")

\* Line 133: after a restart a turn that has only to be completed is completed.
EndedTurnIsRecovered ==
    \A state \in {"delivered", "delivery_failed", "delivery_outcome_unknown", "authentication_rejected"} :
      ~RecoveryStuckOn(state)

\* Lines 130 and 213: an unknown model outcome leaves a checkpoint barrier, so a
\* turn completed with one leaves its conversation degraded.
UnknownLlmDegrades ==
    \A t \in Turns : turns[t].state = "completed" /\ turns[t].facts.llm = "outcome-unknown" =>
      snapshots[turns[t].conversation].pause = "degraded"
===============================================================================
