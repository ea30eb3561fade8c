---------------------------- MODULE RuntimeProofs ----------------------------
(***************************************************************************)
(* Theorems about CommunicationRuntime, for any number of turns, events,   *)
(* crashes, faults and drains.  The invariant of the runtime relates, turn *)
(* by turn, the row of the ledger, the job that works on it, what reached  *)
(* the providers, and what recovery believes of the row.  Its core is the  *)
(* compare-and-set: whoever holds the revision of a row knows its state.   *)
(***************************************************************************)
EXTENDS CommunicationRuntime, StoreProofs, TLAPS

EndedDelivery == {"delivered", "delivery_failed", "delivery_outcome_unknown"}
DeliveryStates == {"delivery_started"} \cup EndedDelivery
SettledDeliveries == {"delivered", "failed", "outcome_unknown"}
ProvenOutcomes == {"delivered", "known-failure"}

\* States of a row only a turn whose model was asked can be in.
AskedStates ==
    {"llm_known_failed", "deterministic_notice_prepared", "llm_completed", "output_validated"} \cup DeliveryStates

\* The stages of a job before the model is called, between the two calls, and after
\* the delivery was called; among the last, those of a delivery that was answered.
UnaskedStages ==
    {"queued", "kill-switch", "audit-start", "gate", "gate-cancel", "gate-complete", "llm-start", "llm-call"}
UnsentStages ==
    { "llm-wait", "failed-move", "failed-fact", "failed-complete", "notice", "llm-complete", "validate",
      "outbox-put", "delivery-start", "delivery-call" }
AnsweredStages ==
    { "delivery-fact", "delivery-move", "checkpoint-load", "checkpoint-write", "checkpoint-fact",
      "checkpoint-failed", "audit-completion", "completion-fact" }
UnknownStages == {"delivery-unknown", "unknown-fact", "unknown-move"}

Settled(t) == turns[t].facts.delivery \in SettledDeliveries
Working(t) == jobs[t].stage \notin {"idle", "error", "done"}

\* The state of the row while the job of the turn is the only one that writes it.
StateAt(stage, job) ==
    CASE stage \in UnaskedStages \ {"gate-complete", "llm-call"} -> "queued"
      [] stage = "gate-complete" -> "cancelled"
      [] stage \in {"llm-call", "llm-wait", "llm-unknown", "llm-cancel", "failed-move", "llm-complete"} ->
           "llm_started"
      [] stage \in {"failed-fact", "failed-complete", "notice"} -> "llm_known_failed"
      [] stage = "validate" /\ job.llm = "completed" -> "llm_completed"
      [] stage = "validate" /\ job.llm # "completed" -> "deterministic_notice_prepared"
      [] stage \in {"outbox-put", "delivery-start"} -> "output_validated"
      [] stage \in {"delivery-call", "delivery-wait", "outbox-outcome", "delivery-fact", "delivery-move"}
                     \cup UnknownStages -> "delivery_started"
      [] OTHER -> FinalState(job)

----------------------------------------------------------------------------
\* The types the argument needs; what a snapshot holds does not matter to it.
EffectRecords ==
    [llm : {0, 1}, delivery : {0, 1}, answer : DeliveryOutcomes \cup {"error", None}]

JobTyped(job) ==
    job \in [ stage : Stages, revision : Nat, generation : Nat, aborted : BOOLEAN,
              llm : LlmCompletionOutcomes \cup {None}, delivery : DeliveryOutcomes \cup {None},
              checkpoint : {"pending", "succeeded", "failed"}, loaded : {job.loaded}, attempts : Nat ]

RecoveryRecord(local) ==
    local \in [ stage : RecoveryStages, listed : {local.listed}, rows : {local.rows},
                turn : Turns \cup {None}, row : Rows, revision : Nat, at : TurnStates \cup {"absent"},
                delivery : SettledDeliveries \cup {None}, checkpoint : CheckpointStatuses \cup {None},
                reason : {local.reason}, loaded : {local.loaded}, attempts : Nat ]

RecoveryTyped ==
    /\ RecoveryRecord(recovery)
    /\ DOMAIN recovery.rows \subseteq Turns
    /\ \A u \in DOMAIN recovery.rows : recovery.rows[u] \in Rows

SubmissionRecords ==
    [stage : SubmissionStages, revision : Nat, conversation : Conversations \cup {None}]

Typed ==
    /\ turns \in [Turns -> Rows]
    /\ sequenceCounters \in [Conversations -> 1 .. MaxSafeInteger]
    /\ DOMAIN jobs = Turns /\ jobs = [t \in Turns |-> jobs[t]]
    /\ \A t \in Turns : JobTyped(jobs[t])
    /\ effects \in [Turns -> EffectRecords]
    /\ submissions \in [Turns -> SubmissionRecords]
    /\ outboxOutcomes \in [Turns -> DeliveryOutcomes \cup {None}]
    /\ auditStarts \in [Turns -> PolicyVersions \cup {None}]
    /\ policy \in PolicyVersions
    /\ generation \in Nat /\ draining \in BOOLEAN
    /\ RecoveryTyped

----------------------------------------------------------------------------
\* What the row says of the effects, and the outbox of the answer.
RowInv(t) ==
    /\ ~Present(t) => turns[t] = AbsentRow
    /\ turns[t].facts.delivery \in SettledDeliveries \cup {"not_started"}
    /\ turns[t].state \in EndedDelivery => Settled(t)
    /\ Settled(t) => turns[t].state \in DeliveryStates \cup {"completed"}
    /\ turns[t].state \in AskedStates \/ Settled(t) => effects[t].llm = 1
    /\ turns[t].state = "delivered" \/ turns[t].facts.delivery = "delivered" =>
         effects[t].answer = "delivered"
    /\ turns[t].state = "delivery_failed" \/ turns[t].facts.delivery = "failed" =>
         effects[t].answer = "known-failure"
    /\ outboxOutcomes[t] \in ProvenOutcomes => effects[t].answer = outboxOutcomes[t]
    /\ effects[t].delivery = 1 =>
         turns[t].state \in DeliveryStates \/ (turns[t].state = "completed" /\ Settled(t))
    /\ effects[t].llm = 1 => auditStarts[t] # None

\* How far the effects of a turn are, by the stage of its submission and its job.
EffectsAt(t, stage) ==
    /\ stage \in UnaskedStages => effects[t] = NoEffects
    /\ stage \in UnsentStages => effects[t].llm = 1 /\ effects[t].delivery = 0
    /\ stage \in {"llm-unknown", "llm-cancel"} => effects[t].delivery = 0
    /\ stage \in AnsweredStages \cup UnknownStages \cup {"delivery-wait", "outbox-outcome"} =>
         effects[t].llm = 1
    /\ stage = "delivery-wait" => effects[t].delivery = 1 /\ effects[t].answer = None
    /\ stage \in {"gate", "llm-start", "llm-call"} => auditStarts[t] # None

EffectsInv(t) ==
    /\ effects[t].delivery = 1 => effects[t].llm = 1
    /\ effects[t].answer # None => effects[t].delivery = 1
    /\ submissions[t].stage # "ended" => jobs[t].stage = "idle" /\ effects[t] = NoEffects
    /\ EffectsAt(t, jobs[t].stage)

\* What a job has learnt of its two calls, by its stage.
LearntAt(stage, job) ==
    /\ stage = "llm-complete" => job.llm = "completed"
    /\ stage \in {"failed-move", "failed-fact", "failed-complete", "notice"} => job.llm # "completed"
    /\ stage \in AnsweredStages => job.delivery \in ProvenOutcomes
    /\ stage \in UnknownStages => job.delivery = "outcome-unknown"
    /\ stage \in UnaskedStages \cup UnsentStages \cup {"llm-unknown", "llm-cancel", "delivery-wait"} =>
         job.delivery = None
    /\ stage = "outbox-outcome" => job.delivery # None
    /\ job.checkpoint = "failed" => job.delivery \in ProvenOutcomes

\* What a job believes: of the row as long as it holds its revision, always of the answer.
JobInv(t) ==
    Working(t) =>
      /\ jobs[t].revision <= turns[t].revision
      /\ jobs[t].generation <= generation
      /\ draining => jobs[t].generation < generation
      /\ GenerationCurrent(t) => jobs[t].revision = turns[t].revision
      /\ jobs[t].revision = turns[t].revision => turns[t].state = StateAt(jobs[t].stage, jobs[t])
      /\ jobs[t].delivery \in ProvenOutcomes => effects[t].answer = jobs[t].delivery
      /\ LearntAt(jobs[t].stage, jobs[t])
      /\ jobs[t].stage = "delivery-move" /\ jobs[t].revision = turns[t].revision =>
           turns[t].facts.delivery = DeliveryStatus(jobs[t])
      /\ jobs[t].stage = "unknown-move" /\ jobs[t].revision = turns[t].revision =>
           turns[t].facts.delivery = "outcome_unknown"

\* Outside a drain nobody but the submission writes the row of a turn not yet published.
SubmittedState(stage) ==
    CASE stage \in {"binding", "authenticate"} -> "observed"
      [] stage = "accept" -> "authenticated"
      [] stage = "queue" -> "accepted"
      [] OTHER -> "queued"

SubmissionInv(t) ==
    ~draining /\ submissions[t].stage \notin {"none", "ended"} =>
      /\ submissions[t].revision = turns[t].revision
      /\ turns[t].state = SubmittedState(submissions[t].stage)

TurnInv(t) == RowInv(t) /\ EffectsInv(t) /\ JobInv(t) /\ SubmissionInv(t)

\* A listed row is the row of the ledger, or an older one.
ListedInv(u) ==
    LET row == recovery.rows[u] IN
    /\ row.state \notin {"absent", "completed"}
    /\ row.revision <= turns[u].revision
    /\ row.revision = turns[u].revision => row.state = turns[u].state
    /\ row.state = "delivered" => effects[u].answer = "delivered"
    /\ row.state = "delivery_failed" => effects[u].answer = "known-failure"

AtCandidate == recovery.stage \notin {"idle", "list", "pick", "error", "done"}

\* What recovery believes of its candidate.
CandidateInv ==
    AtCandidate =>
      /\ Candidate \in Turns
      /\ recovery.revision <= turns[Candidate].revision
      /\ recovery.revision = turns[Candidate].revision => turns[Candidate].state = recovery.at
      /\ recovery.delivery = "delivered" => effects[Candidate].answer = "delivered"
      /\ recovery.delivery = "failed" => effects[Candidate].answer = "known-failure"
      /\ recovery.at \notin {"absent", "completed"}
      /\ recovery.checkpoint \in CheckpointStatuses
      /\ recovery.stage \in {"llm-fact", "llm-cancel"} => recovery.at = "llm_started" /\ recovery.delivery = None
      /\ recovery.stage \in {"read-outbox", "tombstone", "delivery-fact", "delivery-move"} =>
           recovery.at = "delivery_started"
      /\ recovery.stage \in {"tombstone", "delivery-fact", "delivery-move", "assess", "reconcile",
                             "completion-fact"} => recovery.delivery # None
      /\ recovery.stage \in {"assess", "barrier-load", "barrier-write", "reconcile", "completion-fact"}
           /\ recovery.delivery # None => recovery.at \in EndedDelivery
      /\ recovery.stage = "delivery-move" /\ recovery.revision = turns[Candidate].revision =>
           turns[Candidate].facts.delivery = recovery.delivery

\* Recovery runs only beside jobs and submissions that a drain has made stale.
NoWork == \A t \in Turns : jobs[t].stage = "idle" /\ submissions[t].stage \in {"none", "ended"}

ProcessInv ==
    /\ recovery.stage # "idle" => lifecycle = "recovering" \/ draining
    /\ lifecycle \in {"new", "recovering", "failed"} /\ ~draining => NoWork
    /\ closing => draining

RecoveryInv == (\A u \in DOMAIN recovery.rows : ListedInv(u)) /\ CandidateInv

RuntimeInv == Typed /\ (\A t \in Turns : TurnInv(t)) /\ RecoveryInv /\ ProcessInv /\ OneTurnPerTransportEvent

----------------------------------------------------------------------------
\* Steps that leave a turn alone, and what a step of one turn leaves of the rest.
LEMMA OtherTurnsKeep ==
    ASSUME NEW u \in Turns, TurnInv(u),
           UNCHANGED <<turns[u], jobs[u], effects[u], submissions[u], outboxOutcomes[u], auditStarts[u]>>,
           UNCHANGED <<generation, draining>>
    PROVE  TurnInv(u)'
<1>1. RowInv(u)'
  BY DEF TurnInv, RowInv, Present, Settled
<1>2. EffectsInv(u)'
  BY DEF TurnInv, EffectsInv, EffectsAt
<1>3. JobInv(u)'
  BY DEF TurnInv, JobInv, Working, GenerationCurrent
<1>4. SubmissionInv(u)'
  BY DEF TurnInv, SubmissionInv
<1> QED
  BY <1>1, <1>2, <1>3, <1>4 DEF TurnInv

\* A write of a row advances its revision and keeps its key; an answer is final.
RowAdvances(u) ==
    \/ turns'[u] = turns[u]
    \/ /\ Present(u) /\ turns'[u].state # "absent"
       /\ turns'[u].revision = turns[u].revision + 1 /\ turns'[u].key = turns[u].key

\* The INSERT of a row counts as its first write.
RowGrows(u) == turns'[u] = turns[u] \/ turns'[u].revision = turns[u].revision + 1

AnswerStays(u) == effects[u].answer # None => effects'[u].answer = effects[u].answer

LEMMA RecoveryKeeps ==
    ASSUME Typed, RecoveryInv, UNCHANGED recovery,
           \A u \in Turns : RowGrows(u) /\ AnswerStays(u)
    PROVE  RecoveryInv'
<1>1. \A u \in Turns : turns[u] \in Rows /\ turns[u].revision \in Nat
  BY ConstantsAssumption DEF Typed, Rows
<1>2. None # "delivered" /\ None # "known-failure"
  BY OutboxAssumption DEF DeliveryOutcomes
<1>3. ASSUME NEW u \in Turns
      PROVE  /\ turns'[u].revision \in Nat /\ turns'[u].revision >= turns[u].revision
             /\ turns'[u].revision = turns[u].revision => turns'[u] = turns[u]
  BY <1>1 DEF RowGrows
<1>4. ASSUME NEW u \in DOMAIN recovery.rows, ListedInv(u)
      PROVE  ListedInv(u)'
  <2> DEFINE row == recovery.rows[u]
  <2>1. u \in Turns /\ row \in Rows /\ row.revision \in Nat
    BY ConstantsAssumption DEF Typed, RecoveryTyped, Rows
  <2>2. /\ row.state \notin {"absent", "completed"}
        /\ row.revision <= turns[u].revision
        /\ row.revision = turns[u].revision => row.state = turns[u].state
        /\ row.state = "delivered" => effects[u].answer = "delivered"
        /\ row.state = "delivery_failed" => effects[u].answer = "known-failure"
    BY <1>4 DEF ListedInv
  <2>3. recovery'.rows[u] = row
    OBVIOUS
  <2>4. row.state = "delivered" => effects'[u].answer = "delivered"
    BY <1>2, <2>1, <2>2 DEF AnswerStays
  <2>5. row.state = "delivery_failed" => effects'[u].answer = "known-failure"
    BY <1>2, <2>1, <2>2 DEF AnswerStays
  <2> HIDE DEF row
  <2>6. row.revision <= turns'[u].revision /\ (row.revision = turns'[u].revision => row.state = turns'[u].state)
    BY <1>1, <1>3, <2>1, <2>2
  <2> QED
    BY <2>2, <2>3, <2>4, <2>5, <2>6 DEF ListedInv
<1>5. CandidateInv'
  <2>1. SUFFICES ASSUME AtCandidate
                 PROVE  CandidateInv'
    BY DEF CandidateInv, AtCandidate
  <2>2. Candidate \in Turns /\ Candidate' = Candidate /\ recovery' = recovery /\ recovery.revision \in Nat
    BY <2>1 DEF RecoveryInv, CandidateInv, Candidate, Typed, RecoveryTyped, RecoveryRecord
  <2> DEFINE t == Candidate
  <2>3. /\ turns[t].revision \in Nat /\ turns'[t].revision >= turns[t].revision
        /\ turns'[t].revision \in Nat
        /\ turns'[t].revision = turns[t].revision => turns'[t] = turns[t]
    BY <1>1, <1>3, <2>2 DEF RowGrows
  <2>4. effects[t].answer \in {"delivered", "known-failure"} => effects'[t].answer = effects[t].answer
    BY <1>2, <2>2 DEF AnswerStays
  <2> HIDE DEF t
  <2>5. recovery.revision <= turns[t].revision
    BY <2>1 DEF RecoveryInv, CandidateInv, t
  <2>6. /\ recovery.revision <= turns'[t].revision
        /\ recovery.revision = turns'[t].revision => recovery.revision = turns[t].revision /\ turns'[t] = turns[t]
    BY <2>2, <2>3, <2>5
  <2> QED
    BY <2>1, <2>2, <2>4, <2>6 DEF RecoveryInv, CandidateInv, AtCandidate, t
<1> QED
  BY <1>4, <1>5 DEF RecoveryInv

\* What a step of the job of one turn leaves alone.
JobFrame(t) ==
    /\ turns' = [turns EXCEPT ![t] = turns'[t]]
    /\ jobs' = [jobs EXCEPT ![t] = jobs'[t]]
    /\ effects' = [effects EXCEPT ![t] = effects'[t]]
    /\ outboxOutcomes' = [outboxOutcomes EXCEPT ![t] = outboxOutcomes'[t]]
    /\ auditStarts' = [auditStarts EXCEPT ![t] = auditStarts'[t]]
    /\ UNCHANGED <<sequenceCounters, submissions, generation, draining, policy, recovery, lifecycle, closing>>

RecordsTyped(t) ==
    /\ turns'[t] \in Rows
    /\ JobTyped(jobs'[t])
    /\ effects'[t] \in EffectRecords
    /\ outboxOutcomes'[t] \in DeliveryOutcomes \cup {None}
    /\ auditStarts'[t] \in PolicyVersions \cup {None}

LEMMA KeysStay ==
    ASSUME OneTurnPerTransportEvent, \A u \in Turns : RowAdvances(u)
    PROVE  OneTurnPerTransportEvent'
  BY DEF OneTurnPerTransportEvent, RowAdvances, Present

LEMMA JobStepHolds ==
    ASSUME RuntimeInv, NEW t \in Turns, jobs[t].stage # "idle",
           JobFrame(t), RecordsTyped(t), TurnInv(t)', RowAdvances(t), AnswerStays(t)
    PROVE  RuntimeInv'
<1>1. ASSUME NEW u \in Turns, u # t
      PROVE  /\ UNCHANGED <<turns[u], jobs[u], effects[u], submissions[u], outboxOutcomes[u], auditStarts[u]>>
             /\ UNCHANGED <<generation, draining>>
  BY <1>1 DEF JobFrame, RuntimeInv, Typed
<1>2. Typed'
  <2>1. turns' \in [Turns -> Rows] /\ effects' \in [Turns -> EffectRecords]
    BY DEF JobFrame, RecordsTyped, RuntimeInv, Typed
  <2>2. /\ outboxOutcomes' \in [Turns -> DeliveryOutcomes \cup {None}]
        /\ auditStarts' \in [Turns -> PolicyVersions \cup {None}]
    BY DEF JobFrame, RecordsTyped, RuntimeInv, Typed
  <2>3. DOMAIN jobs' = Turns /\ jobs' = [u \in Turns |-> jobs'[u]]
    BY DEF JobFrame, RuntimeInv, Typed
  <2>4. \A u \in Turns : JobTyped(jobs'[u])
    BY <1>1 DEF RecordsTyped, RuntimeInv, Typed
  <2>5. RecoveryTyped'
    BY DEF JobFrame, RuntimeInv, Typed, RecoveryTyped, RecoveryRecord
  <2> QED
    BY <2>1, <2>2, <2>3, <2>4, <2>5 DEF JobFrame, RuntimeInv, Typed, JobTyped
<1>3. \A u \in Turns : TurnInv(u)'
  BY <1>1, OtherTurnsKeep DEF RuntimeInv
<1>4. \A u \in Turns : RowAdvances(u) /\ AnswerStays(u)
  BY <1>1 DEF RowAdvances, AnswerStays
<1>5. RecoveryInv' /\ OneTurnPerTransportEvent'
  <2>1. \A u \in Turns : RowGrows(u)
    BY <1>4 DEF RowAdvances, RowGrows
  <2> QED
    BY <1>4, <2>1, RecoveryKeeps, KeysStay DEF RuntimeInv, JobFrame
<1>6. ProcessInv'
  BY DEF RuntimeInv, ProcessInv, NoWork, JobFrame
<1> QED
  BY <1>2, <1>3, <1>5, <1>6 DEF RuntimeInv

----------------------------------------------------------------------------
\* What a write of the ledger leaves of the row, told field by field.
RowMoved(t, state) ==
    /\ turns' = [turns EXCEPT ![t] = turns'[t]]
    /\ turns'[t] \in Rows
    /\ turns'[t].state = state
    /\ turns'[t].revision = turns[t].revision + 1
    /\ turns'[t].facts = turns[t].facts
    /\ turns'[t].key = turns[t].key

RowTold(t, facts) ==
    /\ turns' = [turns EXCEPT ![t] = turns'[t]]
    /\ turns'[t] \in Rows
    /\ turns'[t].state = turns[t].state
    /\ turns'[t].revision = turns[t].revision + 1
    /\ turns'[t].facts = facts
    /\ turns'[t].key = turns[t].key
    /\ turns'[t].conversation = turns[t].conversation
    /\ turns'[t].sequence = turns[t].sequence

LEMMA TransitionEffect ==
    ASSUME Typed, NEW t \in Turns, NEW revision, NEW from \in TurnStates, NEW to \in TurnStates,
           Transition(t, revision, from, to)
    PROVE  /\ sequenceCounters' = sequenceCounters
           /\ \/ /\ TransitionOutcome(t, revision, from, to) = "transitioned"
                 /\ turns[t].revision = revision /\ turns[t].state = from
                 /\ to \in LegalTransitions[from] /\ RowMoved(t, to)
              \/ /\ TransitionOutcome(t, revision, from, to) = "already-transitioned"
                 /\ turns[t].state = to /\ turns' = turns
              \/ /\ TransitionOutcome(t, revision, from, to) \notin
                      {"transitioned", "already-transitioned", "recorded", "already-recorded"}
                 /\ turns' = turns
<1>1. turns[t] \in Rows /\ turns \in [Turns -> Rows]
  BY DEF Typed
<1>2. turns[t].revision \in Nat /\ MaxSafeInteger \in Nat
  BY <1>1, ConstantsAssumption DEF Rows
<1>3. CASE TransitionOutcome(t, revision, from, to) = "transitioned"
  <2>1. /\ turns[t].revision = revision /\ turns[t].state = from /\ to \in LegalTransitions[from]
        /\ ~Exhausted(turns[t].revision)
    BY <1>3 DEF TransitionOutcome
  <2>2. turns[t].revision < MaxSafeInteger
    BY <1>2, <2>1 DEF Exhausted
  <2>3. turns' = [turns EXCEPT ![t] = MovedTo(turns[t], to)]
    BY <1>3 DEF Transition
  <2>4. RowMoved(t, to)
    BY <1>1, <2>2, <2>3, MovedRow DEF RowMoved
  <2> QED
    BY <1>3, <2>1, <2>4 DEF Transition
<1>4. CASE TransitionOutcome(t, revision, from, to) # "transitioned"
  <2>1. turns' = turns /\ sequenceCounters' = sequenceCounters
    BY <1>4 DEF Transition
  <2>2. TransitionOutcome(t, revision, from, to) = "already-transitioned" => turns[t].state = to
    BY DEF TransitionOutcome
  <2>3. TransitionOutcome(t, revision, from, to) \notin {"recorded", "already-recorded"}
    BY DEF TransitionOutcome
  <2> QED
    BY <1>4, <2>1, <2>2, <2>3
<1> QED
  BY <1>3, <1>4

LEMMA FactsEffect ==
    ASSUME Typed, NEW t \in Turns, NEW revision, NEW facts \in Facts, RecordFactualOutcome(t, revision, facts)
    PROVE  /\ sequenceCounters' = sequenceCounters
           /\ \/ /\ RecordFactualOutcomeKind(t, revision, facts) = "recorded"
                 /\ Present(t) /\ turns[t].revision = revision
                 /\ ~RewritesProvenFact(turns[t].facts, facts) /\ RowTold(t, facts)
              \/ /\ RecordFactualOutcomeKind(t, revision, facts) = "already-recorded"
                 /\ turns[t].revision = revision /\ turns[t].facts = facts /\ turns' = turns
              \/ /\ RecordFactualOutcomeKind(t, revision, facts) \notin
                      {"transitioned", "already-transitioned", "recorded", "already-recorded"}
                 /\ turns' = turns
<1>1. turns[t] \in Rows /\ turns \in [Turns -> Rows]
  BY DEF Typed
<1>2. turns[t].revision \in Nat /\ MaxSafeInteger \in Nat
  BY <1>1, ConstantsAssumption DEF Rows
<1>3. CASE RecordFactualOutcomeKind(t, revision, facts) = "recorded"
  <2>1. /\ turns[t].revision = revision /\ Present(t) /\ ~RewritesProvenFact(turns[t].facts, facts)
        /\ ~Exhausted(turns[t].revision)
    BY <1>3 DEF RecordFactualOutcomeKind
  <2>2. turns[t].revision < MaxSafeInteger
    BY <1>2, <2>1 DEF Exhausted
  <2>3. turns' = [turns EXCEPT ![t] = WithFacts(turns[t], facts)]
    BY <1>3 DEF RecordFactualOutcome
  <2>4. RowTold(t, facts)
    BY <1>1, <2>2, <2>3, FactsRow DEF RowTold
  <2> QED
    BY <1>3, <2>1, <2>4 DEF RecordFactualOutcome
<1>4. CASE RecordFactualOutcomeKind(t, revision, facts) # "recorded"
  <2>1. turns' = turns /\ sequenceCounters' = sequenceCounters
    BY <1>4 DEF RecordFactualOutcome
  <2>2. RecordFactualOutcomeKind(t, revision, facts) = "already-recorded" =>
          turns[t].revision = revision /\ turns[t].facts = facts
    BY DEF RecordFactualOutcomeKind
  <2>3. RecordFactualOutcomeKind(t, revision, facts) \notin {"transitioned", "already-transitioned"}
    BY DEF RecordFactualOutcomeKind
  <2> QED
    BY <1>4, <2>1, <2>2, <2>3
<1> QED
  BY <1>3, <1>4

\* The moves into and out of the states of a delivery.
LEMMA DeliveryMoves ==
    ASSUME NEW state \in TurnStates, NEW target \in LegalTransitions[state]
    PROVE  /\ target \in TurnStates /\ state # "completed"
           /\ state \in DeliveryStates => target \in EndedDelivery \cup {"completed"}
           /\ state = "delivery_started" => target # "completed"
           /\ target \in EndedDelivery => state = "delivery_started"
<1>1. target \in TurnStates /\ state # "completed"
  BY LegalTargets
<1>2. CASE state \in {"observed", "authentication_rejected", "authenticated", "accepted"}
  BY <1>1, <1>2 DEF LegalTransitions, TurnStates, DeliveryStates, EndedDelivery
<1>3. CASE state \in {"queued", "llm_started", "llm_known_failed", "deterministic_notice_prepared"}
  BY <1>1, <1>3 DEF LegalTransitions, TurnStates, DeliveryStates, EndedDelivery
<1>4. CASE state \in {"llm_completed", "output_validated", "delivery_started", "delivered"}
  BY <1>1, <1>4 DEF LegalTransitions, TurnStates, DeliveryStates, EndedDelivery
<1>5. CASE state \in {"delivery_failed", "delivery_outcome_unknown", "cancelled", "completed"}
  BY <1>1, <1>5 DEF LegalTransitions, TurnStates, DeliveryStates, EndedDelivery
<1> QED
  BY <1>2, <1>3, <1>4, <1>5 DEF TurnStates

\* A row that moves stays true to the effects, if its new state is.
LEMMA RowMoveHolds ==
    ASSUME Typed, NEW t \in Turns, RowInv(t), NEW from \in TurnStates, turns[t].state = from,
           NEW to \in LegalTransitions[from], RowMoved(t, to),
           UNCHANGED <<effects[t], outboxOutcomes[t], auditStarts[t]>>,
           to \in AskedStates => effects[t].llm = 1,
           to \in EndedDelivery => Settled(t),
           to = "delivered" => effects[t].answer = "delivered",
           to = "delivery_failed" => effects[t].answer = "known-failure"
    PROVE  RowInv(t)' /\ RowAdvances(t)
<1>1. /\ to \in TurnStates /\ from # "completed" /\ from # "absent"
      /\ from \in DeliveryStates => to \in EndedDelivery \cup {"completed"}
      /\ from = "delivery_started" => to # "completed"
  BY DeliveryMoves DEF TurnStates
<1>2. to # "absent" /\ Present(t) /\ Present(t)'
  BY <1>1 DEF TurnStates, Present, RowMoved
<1>3. Settled(t)' <=> Settled(t)
  BY DEF Settled, RowMoved
<1>4. Settled(t) => to \in DeliveryStates \cup {"completed"}
  BY <1>1 DEF RowInv, DeliveryStates
<1>5. effects[t].delivery = 1 => to \in DeliveryStates \/ (to = "completed" /\ Settled(t))
  BY <1>1 DEF RowInv, DeliveryStates
<1>6. RowInv(t)'
  BY <1>2, <1>3, <1>4, <1>5 DEF RowInv, RowMoved
<1> QED
  BY <1>2, <1>6 DEF RowAdvances, RowMoved, Present

\* So does one whose facts are written.
LEMMA RowToldHolds ==
    ASSUME Typed, NEW t \in Turns, RowInv(t), Present(t), NEW facts \in Facts, RowTold(t, facts),
           UNCHANGED <<effects[t], outboxOutcomes[t], auditStarts[t]>>,
           facts.delivery \in SettledDeliveries \cup {"not_started"},
           facts.delivery \in SettledDeliveries => turns[t].state \in DeliveryStates,
           facts.delivery = "not_started" => turns[t].state \notin EndedDelivery \cup {"completed"},
           facts.delivery = "delivered" => effects[t].answer = "delivered",
           facts.delivery = "failed" => effects[t].answer = "known-failure"
    PROVE  RowInv(t)' /\ RowAdvances(t)
<1>1. Present(t)' /\ turns'[t].state = turns[t].state /\ turns'[t].facts = facts
  BY DEF RowTold, Present
<1>2. Settled(t)' <=> facts.delivery \in SettledDeliveries
  BY <1>1 DEF Settled
<1>3. RowInv(t)'
  BY <1>1, <1>2 DEF RowInv, DeliveryStates, AskedStates
<1> QED
  BY <1>1, <1>3 DEF RowAdvances, RowTold, Present

----------------------------------------------------------------------------
\* What a step leaves of the locals of a job.
JobGoes(t, stage, revision) ==
    /\ jobs' = [jobs EXCEPT ![t] = jobs'[t]]
    /\ JobTyped(jobs'[t])
    /\ jobs'[t].stage = stage /\ jobs'[t].revision = revision
    /\ jobs'[t].generation = jobs[t].generation
    /\ jobs'[t].llm = jobs[t].llm
    /\ jobs'[t].delivery = jobs[t].delivery
    /\ jobs'[t].checkpoint = jobs[t].checkpoint

LEMMA LedgerLeavesJob ==
    ASSUME Typed, NEW t \in Turns, NEW stage \in Stages, NEW kind, Only(t, AfterLedger(jobs[t], kind, stage))
    PROVE  /\ kind \in {"transitioned", "recorded"} => JobGoes(t, stage, jobs[t].revision + 1)
           /\ kind \in {"already-transitioned", "already-recorded"} => JobGoes(t, stage, jobs[t].revision)
           /\ kind \notin {"transitioned", "recorded", "already-transitioned", "already-recorded"} =>
                JobGoes(t, "error", jobs[t].revision)
<1>1. DOMAIN jobs = Turns /\ JobTyped(jobs[t]) /\ jobs[t].revision \in Nat /\ "error" \in Stages
  BY DEF Typed, JobTyped, Stages
<1>2. jobs' = [jobs EXCEPT ![t] = AfterLedger(jobs[t], kind, stage)]
  BY DEF Only
<1>3. jobs'[t] = AfterLedger(jobs[t], kind, stage) /\ jobs' = [jobs EXCEPT ![t] = jobs'[t]]
  BY <1>1, <1>2
<1>4. CASE kind \in {"transitioned", "recorded"}
  <2> DEFINE moved == [jobs[t] EXCEPT !.stage = stage]
  <2>1. jobs'[t] = [moved EXCEPT !.revision = jobs[t].revision + 1]
    BY Zenon, <1>3, <1>4 DEF AfterLedger
  <2>2. /\ JobTyped(moved) /\ moved.stage = stage /\ moved.generation = jobs[t].generation
        /\ moved.llm = jobs[t].llm /\ moved.delivery = jobs[t].delivery /\ moved.checkpoint = jobs[t].checkpoint
    BY <1>1 DEF JobTyped
  <2> HIDE DEF moved
  <2>3. JobGoes(t, stage, jobs[t].revision + 1)
    BY <1>1, <1>3, <2>1, <2>2 DEF JobGoes, JobTyped
  <2> QED
    BY <1>4, <2>3
<1>5. CASE kind \in {"already-transitioned", "already-recorded"}
  <2>1. jobs'[t] = [jobs[t] EXCEPT !.stage = stage]
    BY <1>3, <1>5 DEF AfterLedger
  <2> QED
    BY <1>1, <1>3, <1>5, <2>1 DEF JobGoes, JobTyped
<1>6. CASE kind \notin {"transitioned", "recorded", "already-transitioned", "already-recorded"}
  <2>1. jobs'[t] = [jobs[t] EXCEPT !.stage = "error"]
    BY <1>3, <1>6 DEF AfterLedger
  <2> QED
    BY <1>1, <1>3, <1>6, <2>1 DEF JobGoes, JobTyped
<1> QED
  BY <1>4, <1>5, <1>6

\* A step of a job leaves the other actors alone.
OthersAlone == UNCHANGED <<recovery, dispatcherVars, orchestratorVars, boundVars>>

\* The stages at which a job believes the facts of the row.
FactStages == {"delivery-move", "unknown-move"}

LEMMA StagesMatter ==
    ASSUME NEW stage, NEW job, NEW other, job.llm = other.llm, job.delivery = other.delivery,
           job.checkpoint = other.checkpoint
    PROVE  /\ StateAt(stage, job) = StateAt(stage, other)
           /\ LearntAt(stage, job) <=> LearntAt(stage, other)
           /\ DeliveryStatus(job) = DeliveryStatus(other)
<1>1. FinalState(job) = FinalState(other)
  BY DEF FinalState
<1> QED
  BY <1>1 DEF StateAt, LearntAt, DeliveryStatus

\* A move to a state and a stage that fit each other, the effects and what was learnt.
MoveFits(t, to, stage) ==
    /\ stage \in Stages \ (FactStages \cup {"idle", "error"})
    /\ stage # "done" => StateAt(stage, jobs[t]) = to
    /\ EffectsAt(t, stage) /\ LearntAt(stage, jobs[t])
    /\ to \in AskedStates => effects[t].llm = 1
    /\ to \in EndedDelivery /\ jobs[t].revision = turns[t].revision => Settled(t)
    /\ to = "delivered" => effects[t].answer = "delivered"
    /\ to = "delivery_failed" => effects[t].answer = "known-failure"

\* A job that moves its row: the row moves with it, was moved there before, or the
\* job ends in an error.
LEMMA MoveHolds ==
    ASSUME RuntimeInv, NEW t \in Turns, OthersAlone, Working(t),
           NEW from \in TurnStates, NEW to \in TurnStates, NEW stage,
           Move(t, from, to, stage), MoveFits(t, to, stage)
    PROVE  RuntimeInv'
<1> USE DEF MoveFits
<1> DEFINE kind == TransitionOutcome(t, jobs[t].revision, from, to)
<1>1. /\ Typed /\ TurnInv(t) /\ turns[t].revision \in Nat /\ jobs[t].revision \in Nat
      /\ jobs[t].generation \in Nat /\ generation \in Nat /\ turns[t] \in Rows
      /\ jobs[t].revision <= turns[t].revision
  BY ConstantsAssumption DEF RuntimeInv, Typed, JobTyped, Rows, TurnInv, JobInv
<1>2. /\ Transition(t, jobs[t].revision, from, to)
      /\ Only(t, AfterLedger(jobs[t], kind, stage))
      /\ UNCHANGED <<conversationVars, outboxVars, auditVars, generation, sideEffects, policy, effects, faults>>
  BY DEF Move, LedgerCall, NoEffect
<1> HIDE DEF kind
<1>3. UNCHANGED <<effects, outboxOutcomes, auditStarts, submissions, generation, draining, policy, recovery,
                  lifecycle, closing>>
  BY <1>2 DEF outboxVars, auditVars, OthersAlone, dispatcherVars, orchestratorVars
<1>4. /\ sequenceCounters' = sequenceCounters
      /\ \/ /\ kind = "transitioned" /\ turns[t].revision = jobs[t].revision /\ turns[t].state = from
            /\ to \in LegalTransitions[from] /\ RowMoved(t, to)
         \/ kind = "already-transitioned" /\ turns[t].state = to /\ turns' = turns
         \/ /\ kind \notin {"transitioned", "already-transitioned", "recorded", "already-recorded"}
            /\ turns' = turns
  BY <1>1, <1>2, TransitionEffect DEF kind
<1>5. /\ kind = "transitioned" => JobGoes(t, stage, jobs[t].revision + 1)
      /\ kind = "already-transitioned" => JobGoes(t, stage, jobs[t].revision)
      /\ kind \notin {"transitioned", "already-transitioned", "recorded", "already-recorded"} =>
           JobGoes(t, "error", jobs[t].revision)
  BY <1>1, <1>2, LedgerLeavesJob
<1>6. RowInv(t)' /\ RowAdvances(t) /\ turns'[t] \in Rows /\ turns' = [turns EXCEPT ![t] = turns'[t]]
  <2>1. CASE turns' = turns
    BY <1>1, <1>3, <2>1 DEF TurnInv, RowInv, Present, Settled, RowAdvances, Typed
  <2>2. CASE turns[t].revision = jobs[t].revision /\ turns[t].state = from /\ to \in LegalTransitions[from]
             /\ RowMoved(t, to)
    BY <1>1, <1>3, <2>2, RowMoveHolds DEF RowMoved, TurnInv
  <2> QED
    BY <1>4, <2>1, <2>2
<1>7. /\ jobs' = [jobs EXCEPT ![t] = jobs'[t]] /\ JobTyped(jobs'[t])
      /\ jobs'[t].generation = jobs[t].generation
      /\ jobs'[t].llm = jobs[t].llm /\ jobs'[t].delivery = jobs[t].delivery
      /\ jobs'[t].checkpoint = jobs[t].checkpoint
      /\ jobs'[t].stage \in {stage, "error"}
  BY <1>4, <1>5 DEF JobGoes
<1>8. jobs'[t].stage = stage =>
        /\ jobs'[t].revision <= turns'[t].revision
        /\ jobs'[t].revision = turns'[t].revision => turns'[t].state = to
        /\ jobs[t].revision = turns[t].revision => jobs'[t].revision = turns'[t].revision
  BY <1>1, <1>4, <1>5 DEF JobGoes, RowMoved
<1>9. EffectsInv(t)'
  <2>1. submissions[t].stage = "ended"
    BY <1>1 DEF TurnInv, EffectsInv, Working
  <2> QED
    BY <1>1, <1>3, <1>7, <2>1 DEF TurnInv, EffectsInv, EffectsAt, UnaskedStages, UnsentStages, AnsweredStages,
                                  UnknownStages
<1>10. JobInv(t)'
  <2> SUFFICES ASSUME jobs'[t].stage = stage, stage # "done"
               PROVE  JobInv(t)'
    BY <1>7 DEF JobInv, Working
  <2>1. /\ StateAt(stage, jobs'[t]) = to /\ LearntAt(stage, jobs'[t])
    BY <1>7, StagesMatter
  <2> QED
    BY <1>1, <1>3, <1>7, <1>8, <2>1 DEF JobInv, TurnInv, Working, GenerationCurrent, FactStages
<1>11. SubmissionInv(t)'
  BY <1>1, <1>3 DEF TurnInv, EffectsInv, SubmissionInv, Working
<1>12. /\ TurnInv(t)' /\ AnswerStays(t) /\ RecordsTyped(t) /\ JobFrame(t)
  BY <1>1, <1>3, <1>4, <1>6, <1>7, <1>9, <1>10, <1>11 DEF TurnInv, AnswerStays, RecordsTyped, JobFrame, Typed
<1> QED
  BY <1>6, <1>12, JobStepHolds DEF Working

\* Facts that are true of the effects, and fit the state the row has while the job
\* holds its revision.
FactsFit(t, facts, stage) ==
    /\ stage \in Stages \ {"idle", "error", "done"}
    /\ StateAt(stage, jobs[t]) = StateAt(jobs[t].stage, jobs[t])
    /\ EffectsAt(t, stage) /\ LearntAt(stage, jobs[t])
    /\ facts.delivery \in SettledDeliveries \cup {"not_started"}
    /\ facts.delivery \in SettledDeliveries => StateAt(jobs[t].stage, jobs[t]) \in DeliveryStates
    /\ facts.delivery = "not_started" =>
         StateAt(jobs[t].stage, jobs[t]) \notin EndedDelivery \cup {"completed"}
    /\ facts.delivery = "delivered" => effects[t].answer = "delivered"
    /\ facts.delivery = "failed" => effects[t].answer = "known-failure"
    /\ stage = "delivery-move" => facts.delivery = DeliveryStatus(jobs[t])
    /\ stage = "unknown-move" => facts.delivery = "outcome_unknown"

\* A job that writes facts: the row takes them, has them, or the job ends in an error.
LEMMA WriteFactsHolds ==
    ASSUME RuntimeInv, NEW t \in Turns, OthersAlone, Working(t),
           NEW facts \in Facts, NEW stage, WriteFacts(t, facts, stage), FactsFit(t, facts, stage)
    PROVE  RuntimeInv'
<1> USE DEF FactsFit
<1> DEFINE kind == RecordFactualOutcomeKind(t, jobs[t].revision, facts)
<1>1. /\ Typed /\ TurnInv(t) /\ turns[t].revision \in Nat /\ jobs[t].revision \in Nat
      /\ jobs[t].generation \in Nat /\ generation \in Nat /\ turns[t] \in Rows
      /\ jobs[t].revision <= turns[t].revision
  BY ConstantsAssumption DEF RuntimeInv, Typed, JobTyped, Rows, TurnInv, JobInv
<1>2. /\ RecordFactualOutcome(t, jobs[t].revision, facts)
      /\ Only(t, AfterLedger(jobs[t], kind, stage))
      /\ UNCHANGED <<conversationVars, outboxVars, auditVars, generation, sideEffects, policy, effects, faults>>
  BY DEF WriteFacts, LedgerCall, NoEffect
<1> HIDE DEF kind
<1>3. UNCHANGED <<effects, outboxOutcomes, auditStarts, submissions, generation, draining, policy, recovery,
                  lifecycle, closing>>
  BY <1>2 DEF outboxVars, auditVars, OthersAlone, dispatcherVars, orchestratorVars
<1>4. /\ sequenceCounters' = sequenceCounters
      /\ \/ /\ kind = "recorded" /\ Present(t) /\ turns[t].revision = jobs[t].revision /\ RowTold(t, facts)
         \/ /\ kind = "already-recorded" /\ turns[t].revision = jobs[t].revision /\ turns[t].facts = facts
            /\ turns' = turns
         \/ /\ kind \notin {"transitioned", "already-transitioned", "recorded", "already-recorded"}
            /\ turns' = turns
  BY <1>1, <1>2, FactsEffect DEF kind
<1>5. /\ kind = "recorded" => JobGoes(t, stage, jobs[t].revision + 1)
      /\ kind = "already-recorded" => JobGoes(t, stage, jobs[t].revision)
      /\ kind \notin {"transitioned", "already-transitioned", "recorded", "already-recorded"} =>
           JobGoes(t, "error", jobs[t].revision)
  BY <1>1, <1>2, LedgerLeavesJob
<1>6. turns[t].revision = jobs[t].revision => turns[t].state = StateAt(jobs[t].stage, jobs[t])
  BY <1>1 DEF TurnInv, JobInv
<1>7. RowInv(t)' /\ RowAdvances(t) /\ turns'[t] \in Rows /\ turns' = [turns EXCEPT ![t] = turns'[t]]
  <2>1. CASE turns' = turns
    BY <1>1, <1>3, <2>1 DEF TurnInv, RowInv, Present, Settled, RowAdvances, Typed
  <2>2. CASE Present(t) /\ turns[t].revision = jobs[t].revision /\ RowTold(t, facts)
    BY <1>1, <1>3, <1>6, <2>2, RowToldHolds DEF RowTold, TurnInv
  <2> QED
    BY <1>4, <2>1, <2>2
<1>8. /\ jobs' = [jobs EXCEPT ![t] = jobs'[t]] /\ JobTyped(jobs'[t])
      /\ jobs'[t].generation = jobs[t].generation
      /\ jobs'[t].llm = jobs[t].llm /\ jobs'[t].delivery = jobs[t].delivery
      /\ jobs'[t].checkpoint = jobs[t].checkpoint
      /\ jobs'[t].stage \in {stage, "error"}
  BY <1>4, <1>5 DEF JobGoes
<1>9. jobs'[t].stage = stage =>
        /\ jobs'[t].revision = turns'[t].revision
        /\ turns'[t].state = StateAt(jobs[t].stage, jobs[t])
        /\ turns'[t].facts = facts
  BY <1>1, <1>4, <1>5, <1>6 DEF JobGoes, RowTold
<1>10. EffectsInv(t)'
  <2>1. submissions[t].stage = "ended"
    BY <1>1 DEF TurnInv, EffectsInv, Working
  <2> QED
    BY <1>1, <1>3, <1>8, <2>1 DEF TurnInv, EffectsInv, EffectsAt, UnaskedStages, UnsentStages, AnsweredStages,
                                  UnknownStages
<1>11. JobInv(t)'
  <2> SUFFICES ASSUME jobs'[t].stage = stage
               PROVE  JobInv(t)'
    BY <1>8 DEF JobInv, Working
  <2>1. /\ StateAt(stage, jobs'[t]) = StateAt(stage, jobs[t]) /\ LearntAt(stage, jobs'[t])
        /\ DeliveryStatus(jobs'[t]) = DeliveryStatus(jobs[t])
    BY <1>8, StagesMatter
  <2>2. jobs'[t].revision \in Nat
    BY <1>8 DEF JobTyped
  <2> QED
    BY <1>1, <1>3, <1>8, <1>9, <2>1, <2>2 DEF JobInv, TurnInv, Working, GenerationCurrent, FactStages
<1>12. SubmissionInv(t)'
  BY <1>1, <1>3 DEF TurnInv, EffectsInv, SubmissionInv, Working
<1>13. /\ TurnInv(t)' /\ AnswerStays(t) /\ RecordsTyped(t) /\ JobFrame(t)
  BY <1>1, <1>3, <1>4, <1>7, <1>8, <1>10, <1>11, <1>12 DEF TurnInv, AnswerStays, RecordsTyped, JobFrame, Typed
<1> QED
  BY <1>7, <1>13, JobStepHolds DEF Working

\* A job whose step leaves its row alone: what it has learnt, and what it did, has
\* to fit the stage it goes to.
LEMMA LocalStepHolds ==
    ASSUME RuntimeInv, NEW t \in Turns, OthersAlone, Working(t),
           UNCHANGED <<turns, sequenceCounters, generation, policy>>,
           jobs' = [jobs EXCEPT ![t] = jobs'[t]],
           effects' = [effects EXCEPT ![t] = effects'[t]],
           outboxOutcomes' = [outboxOutcomes EXCEPT ![t] = outboxOutcomes'[t]],
           auditStarts' = [auditStarts EXCEPT ![t] = auditStarts'[t]],
           RecordsTyped(t), AnswerStays(t), RowInv(t)',
           effects'[t].delivery = 1 => effects'[t].llm = 1,
           effects'[t].answer # None => effects'[t].delivery = 1,
           EffectsAt(t, jobs[t].stage)',
           jobs'[t].stage \notin FactStages,
           jobs'[t].revision = jobs[t].revision, jobs'[t].generation = jobs[t].generation,
           jobs'[t].stage \notin {"idle", "error", "done"} =>
             /\ StateAt(jobs'[t].stage, jobs'[t]) = StateAt(jobs[t].stage, jobs[t])
             /\ LearntAt(jobs'[t].stage, jobs'[t])
             /\ jobs'[t].delivery \in ProvenOutcomes => effects'[t].answer = jobs'[t].delivery
    PROVE  RuntimeInv'
<1>1. Typed /\ TurnInv(t) /\ submissions[t].stage = "ended"
  BY DEF RuntimeInv, TurnInv, EffectsInv, Working
<1>2. UNCHANGED <<submissions, draining, recovery, lifecycle, closing>>
  BY DEF OthersAlone, dispatcherVars, orchestratorVars
<1>3. EffectsInv(t)'
  BY <1>1, <1>2 DEF EffectsInv
<1>4. JobInv(t)'
  BY <1>1, <1>2 DEF JobInv, TurnInv, Working, GenerationCurrent, FactStages
<1>5. SubmissionInv(t)'
  BY <1>1, <1>2 DEF SubmissionInv
<1>6. TurnInv(t)' /\ RowAdvances(t) /\ JobFrame(t)
  BY <1>1, <1>2, <1>3, <1>4, <1>5 DEF TurnInv, RowAdvances, JobFrame, Typed
<1> QED
  BY <1>6, JobStepHolds DEF Working

----------------------------------------------------------------------------
\* The steps of a job, one by one.
LEMMA JobFacts ==
    ASSUME RuntimeInv, NEW t \in Turns, Working(t)
    PROVE  /\ Typed /\ RowInv(t) /\ JobTyped(jobs[t]) /\ effects[t] \in EffectRecords /\ turns[t] \in Rows
           /\ EffectsAt(t, jobs[t].stage) /\ LearntAt(jobs[t].stage, jobs[t])
           /\ effects[t].delivery = 1 => effects[t].llm = 1
           /\ effects[t].answer # None => effects[t].delivery = 1
           /\ jobs[t].delivery \in ProvenOutcomes => effects[t].answer = jobs[t].delivery
           /\ jobs[t].revision = turns[t].revision => turns[t].state = StateAt(jobs[t].stage, jobs[t])
           /\ GenerationCurrent(t) => jobs[t].revision = turns[t].revision
           /\ jobs[t].stage = "delivery-move" /\ jobs[t].revision = turns[t].revision =>
                turns[t].facts.delivery = DeliveryStatus(jobs[t])
           /\ jobs[t].stage = "unknown-move" /\ jobs[t].revision = turns[t].revision =>
                turns[t].facts.delivery = "outcome_unknown"
  BY DEF RuntimeInv, Typed, TurnInv, EffectsInv, JobInv

LEMMA MovesHold ==
    ASSUME RuntimeInv, NEW t \in Turns, OthersAlone,
           \/ CancelAtGate(t) \/ CompleteAtGate(t) \/ StartLlm(t) \/ CancelUnknownLlm(t)
           \/ RecordKnownFailure(t) \/ CompleteKnownFailure(t) \/ PrepareNotice(t) \/ RecordLlmCompleted(t)
           \/ ValidateOutput(t) \/ StartDelivery(t) \/ MoveToDeliveryUnknown(t) \/ MoveToProven(t)
           \/ CompleteTurn(t)
    PROVE  RuntimeInv'
<1> USE DEF At, Stages, StateAt, UnaskedStages, UnsentStages, AnsweredStages, UnknownStages, EffectsAt, LearntAt,
            FactStages, AskedStates, DeliveryStates, EndedDelivery, SettledDeliveries, Settled, ProvenOutcomes,
            DeliveryOutcomes
<1>1. CASE CancelAtGate(t)
  <2>1. Working(t) /\ Move(t, "queued", "cancelled", "gate-complete")
    BY <1>1 DEF CancelAtGate, At, Working
  <2>2. MoveFits(t, "cancelled", "gate-complete")
    BY <1>1, <2>1, JobFacts, OutboxAssumption DEF CancelAtGate, MoveFits
  <2> QED
    BY <2>1, <2>2, MoveHolds DEF TurnStates
<1>2. CASE CompleteAtGate(t)
  <2>1. Working(t) /\ Move(t, "cancelled", "completed", "done")
    BY <1>2 DEF CompleteAtGate, At, Working
  <2>2. MoveFits(t, "completed", "done")
    BY <1>2, <2>1, JobFacts, OutboxAssumption DEF CompleteAtGate, MoveFits
  <2> QED
    BY <2>1, <2>2, MoveHolds DEF TurnStates
<1>3. CASE StartLlm(t)
  <2>1. Working(t) /\ Move(t, "queued", "llm_started", "llm-call")
    BY <1>3 DEF StartLlm, At, Working
  <2>2. MoveFits(t, "llm_started", "llm-call")
    BY <1>3, <2>1, JobFacts, OutboxAssumption DEF StartLlm, MoveFits
  <2> QED
    BY <2>1, <2>2, MoveHolds DEF TurnStates
<1>4. CASE CancelUnknownLlm(t)
  <2>1. Working(t) /\ Move(t, "llm_started", "cancelled", "barrier-load")
    BY <1>4 DEF CancelUnknownLlm, At, Working
  <2>2. MoveFits(t, "cancelled", "barrier-load")
    BY <1>4, <2>1, JobFacts, OutboxAssumption DEF CancelUnknownLlm, MoveFits, FinalState, DeliveryStatus
  <2> QED
    BY <2>1, <2>2, MoveHolds DEF TurnStates
<1>5. CASE RecordKnownFailure(t)
  <2>1. Working(t) /\ Move(t, "llm_started", "llm_known_failed", "failed-fact")
    BY <1>5 DEF RecordKnownFailure, At, Working
  <2>2. MoveFits(t, "llm_known_failed", "failed-fact")
    BY <1>5, <2>1, JobFacts, OutboxAssumption DEF RecordKnownFailure, MoveFits
  <2> QED
    BY <2>1, <2>2, MoveHolds DEF TurnStates
<1>6. CASE CompleteKnownFailure(t)
  <2>1. Working(t) /\ Move(t, "llm_known_failed", "completed", "done")
    BY <1>6 DEF CompleteKnownFailure, At, Working
  <2>2. MoveFits(t, "completed", "done")
    BY <1>6, <2>1, JobFacts, OutboxAssumption DEF CompleteKnownFailure, MoveFits
  <2> QED
    BY <2>1, <2>2, MoveHolds DEF TurnStates
<1>7. CASE PrepareNotice(t)
  <2>1. Working(t) /\ Move(t, "llm_known_failed", "deterministic_notice_prepared", "validate")
    BY <1>7 DEF PrepareNotice, At, Working
  <2>2. MoveFits(t, "deterministic_notice_prepared", "validate")
    BY <1>7, <2>1, JobFacts, OutboxAssumption DEF PrepareNotice, MoveFits
  <2> QED
    BY <2>1, <2>2, MoveHolds DEF TurnStates
<1>8. CASE RecordLlmCompleted(t)
  <2>1. Working(t) /\ Move(t, "llm_started", "llm_completed", "validate")
    BY <1>8 DEF RecordLlmCompleted, At, Working
  <2>2. MoveFits(t, "llm_completed", "validate")
    BY <1>8, <2>1, JobFacts, OutboxAssumption DEF RecordLlmCompleted, MoveFits
  <2> QED
    BY <2>1, <2>2, MoveHolds DEF TurnStates
<1>9. CASE ValidateOutput(t)
  <2>1. Working(t) /\ Move(t, IF jobs[t].llm = "completed" THEN "llm_completed" ELSE "deterministic_notice_prepared", "output_validated", "outbox-put")
    BY <1>9 DEF ValidateOutput, At, Working
  <2>2. MoveFits(t, "output_validated", "outbox-put")
    BY <1>9, <2>1, JobFacts, OutboxAssumption DEF ValidateOutput, MoveFits
  <2> QED
    BY <2>1, <2>2, MoveHolds DEF TurnStates
<1>10. CASE StartDelivery(t)
  <2>1. Working(t) /\ Move(t, "output_validated", "delivery_started", "delivery-call")
    BY <1>10 DEF StartDelivery, At, Working
  <2>2. MoveFits(t, "delivery_started", "delivery-call")
    BY <1>10, <2>1, JobFacts, OutboxAssumption DEF StartDelivery, MoveFits
  <2> QED
    BY <2>1, <2>2, MoveHolds DEF TurnStates
<1>11. CASE MoveToDeliveryUnknown(t)
  <2>1. Working(t) /\ Move(t, "delivery_started", "delivery_outcome_unknown", "barrier-load")
    BY <1>11 DEF MoveToDeliveryUnknown, At, Working
  <2>2. MoveFits(t, "delivery_outcome_unknown", "barrier-load")
    BY <1>11, <2>1, JobFacts, OutboxAssumption DEF MoveToDeliveryUnknown, MoveFits, FinalState, DeliveryStatus
  <2> QED
    BY <2>1, <2>2, MoveHolds DEF TurnStates
<1>12. CASE MoveToProven(t)
  <2>1. Working(t) /\ Move(t, "delivery_started", FinalState(jobs[t]), "checkpoint-load")
    BY <1>12 DEF MoveToProven, At, Working
  <2>2. MoveFits(t, FinalState(jobs[t]), "checkpoint-load")
    BY <1>12, <2>1, JobFacts, OutboxAssumption DEF MoveToProven, MoveFits, FinalState, DeliveryStatus
  <2> QED
    BY <2>1, <2>2, MoveHolds DEF TurnStates, FinalState
<1>13. CASE CompleteTurn(t)
  <2>1. Working(t) /\ Move(t, FinalState(jobs[t]), "completed", "done")
    BY <1>13 DEF CompleteTurn, At, Working
  <2>2. MoveFits(t, "completed", "done")
    BY <1>13, <2>1, JobFacts, OutboxAssumption DEF CompleteTurn, MoveFits, FinalState, DeliveryStatus
  <2> QED
    BY <2>1, <2>2, MoveHolds DEF TurnStates, FinalState
<1> QED
  BY <1>1, <1>2, <1>3, <1>4, <1>5, <1>6, <1>7, <1>8, <1>9, <1>10, <1>11, <1>12, <1>13

\* The facts the processing of a turn writes are of the columns' domains.
LEMMA OwnStatuses ==
    ASSUME NEW t \in Turns, JobTyped(jobs[t])
    PROVE  /\ DeliveryStatus(jobs[t]) \in DeliveryStatuses
           /\ DeliveryError(jobs[t]) \in FactErrorCodes \cup {None}
           /\ CompletionStatus(jobs[t]) \in AuditCompletionStatuses
           /\ jobs[t].checkpoint \in CheckpointStatuses
           /\ jobs[t].llm \in LlmCompletionOutcomes \cup {None}
  BY DEF JobTyped, DeliveryStatus, DeliveryError, CompletionStatus,
         DeliveryStatuses, CheckpointStatuses, AuditCompletionStatuses, FactErrorCodes

LEMMA OwnFacts ==
    ASSUME NEW llm \in LlmCompletionOutcomes \cup {None}, NEW delivery \in DeliveryStatuses,
           NEW checkpoint \in CheckpointStatuses, NEW start \in AuditStartStatuses,
           NEW completion \in AuditCompletionStatuses, NEW error \in FactErrorCodes \cup {None}
    PROVE  FactsOf(llm, delivery, checkpoint, start, completion, error) \in Facts
  BY DEF FactsOf, Facts

LEMMA FactWritesHold ==
    ASSUME RuntimeInv, NEW t \in Turns, OthersAlone,
           \/ RecordLlmUnknown(t) \/ RecordKnownFailureFacts(t) \/ RecordDeliveryUnknown(t)
           \/ RecordProvenDelivery(t) \/ RecordCheckpointSucceeded(t) \/ RecordCheckpointFailed(t)
           \/ RecordCompletionFacts(t)
    PROVE  RuntimeInv'
<1> USE DEF At, Stages, StateAt, UnaskedStages, UnsentStages, AnsweredStages, UnknownStages, EffectsAt, LearntAt,
            FactStages, DeliveryStates, EndedDelivery, SettledDeliveries, Settled, ProvenOutcomes,
            DeliveryOutcomes
<1>1. CASE RecordLlmUnknown(t)
  <2> DEFINE facts == UnknownLlmFacts
  <2>1. Working(t) /\ WriteFacts(t, facts, "llm-cancel")
    BY <1>1 DEF RecordLlmUnknown, Working
  <2>2. facts \in Facts
    BY <2>1, JobFacts, OwnStatuses, OwnFacts
       DEF DeliveryStatuses, CheckpointStatuses, AuditStartStatuses, AuditCompletionStatuses, FactErrorCodes, UnknownLlmFacts, LlmCompletionOutcomes
  <2>3. FactsFit(t, facts, "llm-cancel")
    BY <1>1, <2>1, JobFacts, OutboxAssumption DEF RecordLlmUnknown, FactsFit, FactsOf, UnknownLlmFacts, DeliveryStatus, FinalState
  <2> HIDE DEF facts
  <2> QED
    BY <2>1, <2>2, <2>3, WriteFactsHolds
<1>2. CASE RecordKnownFailureFacts(t)
  <2> DEFINE facts == FactsOf(jobs[t].llm, "not_started", "not_required", "succeeded", "not_started", None)
         stage == IF jobs[t].llm \in NoticeIneligibleFailures THEN "failed-complete" ELSE "notice"
  <2>1. Working(t) /\ WriteFacts(t, facts, stage)
    BY <1>2 DEF RecordKnownFailureFacts, Working
  <2>2. facts \in Facts
    BY <2>1, JobFacts, OwnStatuses, OwnFacts
       DEF DeliveryStatuses, CheckpointStatuses, AuditStartStatuses, AuditCompletionStatuses, FactErrorCodes
  <2>3. FactsFit(t, facts, stage)
    BY <1>2, <2>1, JobFacts, OutboxAssumption DEF RecordKnownFailureFacts, FactsFit, FactsOf, UnknownLlmFacts, DeliveryStatus, FinalState
  <2> HIDE DEF facts, stage
  <2> QED
    BY <2>1, <2>2, <2>3, WriteFactsHolds
<1>3. CASE RecordDeliveryUnknown(t)
  <2> DEFINE facts == FactsOf(jobs[t].llm, "outcome_unknown", "failed", "succeeded", "failed",
                             "DELIVERY_OUTCOME_UNKNOWN")
  <2>1. Working(t) /\ WriteFacts(t, facts, "unknown-move")
    BY <1>3 DEF RecordDeliveryUnknown, Working
  <2>2. facts \in Facts
    BY <2>1, JobFacts, OwnStatuses, OwnFacts
       DEF DeliveryStatuses, CheckpointStatuses, AuditStartStatuses, AuditCompletionStatuses, FactErrorCodes
  <2>3. FactsFit(t, facts, "unknown-move")
    BY <1>3, <2>1, JobFacts, OutboxAssumption DEF RecordDeliveryUnknown, FactsFit, FactsOf, UnknownLlmFacts, DeliveryStatus, FinalState
  <2> HIDE DEF facts
  <2> QED
    BY <2>1, <2>2, <2>3, WriteFactsHolds
<1>4. CASE RecordProvenDelivery(t)
  <2> DEFINE facts == FactsOf(jobs[t].llm, DeliveryStatus(jobs[t]), "pending", "succeeded",
                             "pending", DeliveryError(jobs[t]))
  <2>1. Working(t) /\ WriteFacts(t, facts, "delivery-move")
    BY <1>4 DEF RecordProvenDelivery, Working
  <2>2. facts \in Facts
    BY <2>1, JobFacts, OwnStatuses, OwnFacts
       DEF DeliveryStatuses, CheckpointStatuses, AuditStartStatuses, AuditCompletionStatuses, FactErrorCodes
  <2>3. FactsFit(t, facts, "delivery-move")
    BY <1>4, <2>1, JobFacts, OutboxAssumption DEF RecordProvenDelivery, FactsFit, FactsOf, UnknownLlmFacts, DeliveryStatus, FinalState
  <2> HIDE DEF facts
  <2> QED
    BY <2>1, <2>2, <2>3, WriteFactsHolds
<1>5. CASE RecordCheckpointSucceeded(t)
  <2> DEFINE facts == FactsOf(jobs[t].llm, DeliveryStatus(jobs[t]), "succeeded", "succeeded",
                             "pending", DeliveryError(jobs[t]))
  <2>1. Working(t) /\ WriteFacts(t, facts, "audit-completion")
    BY <1>5 DEF RecordCheckpointSucceeded, Working
  <2>2. facts \in Facts
    BY <2>1, JobFacts, OwnStatuses, OwnFacts
       DEF DeliveryStatuses, CheckpointStatuses, AuditStartStatuses, AuditCompletionStatuses, FactErrorCodes
  <2>3. FactsFit(t, facts, "audit-completion")
    BY <1>5, <2>1, JobFacts, OutboxAssumption DEF RecordCheckpointSucceeded, FactsFit, FactsOf, UnknownLlmFacts, DeliveryStatus, FinalState
  <2> HIDE DEF facts
  <2> QED
    BY <2>1, <2>2, <2>3, WriteFactsHolds
<1>6. CASE RecordCheckpointFailed(t)
  <2> DEFINE facts == FactsOf(jobs[t].llm, DeliveryStatus(jobs[t]), "failed", "succeeded",
                             "pending", "CONVERSATION_CHECKPOINT_FAILED")
  <2>1. Working(t) /\ WriteFacts(t, facts, "barrier-load")
    BY <1>6 DEF RecordCheckpointFailed, Working
  <2>2. facts \in Facts
    BY <2>1, JobFacts, OwnStatuses, OwnFacts
       DEF DeliveryStatuses, CheckpointStatuses, AuditStartStatuses, AuditCompletionStatuses, FactErrorCodes
  <2>3. FactsFit(t, facts, "barrier-load")
    BY <1>6, <2>1, JobFacts, OutboxAssumption DEF RecordCheckpointFailed, FactsFit, FactsOf, UnknownLlmFacts, DeliveryStatus, FinalState
  <2> HIDE DEF facts
  <2> QED
    BY <2>1, <2>2, <2>3, WriteFactsHolds
<1>7. CASE RecordCompletionFacts(t)
  <2> DEFINE facts == FactsOf(jobs[t].llm, DeliveryStatus(jobs[t]), jobs[t].checkpoint, "succeeded",
                             CompletionStatus(jobs[t]),
                             IF jobs[t].checkpoint = "failed"
                             THEN "CONVERSATION_CHECKPOINT_FAILED"
                             ELSE DeliveryError(jobs[t]))
  <2>1. Working(t) /\ WriteFacts(t, facts, "complete")
    BY <1>7 DEF RecordCompletionFacts, Working
  <2>2. facts \in Facts
    BY <2>1, JobFacts, OwnStatuses, OwnFacts
       DEF DeliveryStatuses, CheckpointStatuses, AuditStartStatuses, AuditCompletionStatuses, FactErrorCodes
  <2>3. FactsFit(t, facts, "complete")
    BY <1>7, <2>1, JobFacts, OutboxAssumption DEF RecordCompletionFacts, FactsFit, FactsOf, UnknownLlmFacts, DeliveryStatus, FinalState
  <2> HIDE DEF facts
  <2> QED
    BY <2>1, <2>2, <2>3, WriteFactsHolds
<1> QED
  BY <1>1, <1>2, <1>3, <1>4, <1>5, <1>6, <1>7

----------------------------------------------------------------------------
\* A job that goes to another stage with what it has learnt.
Updated(new, old, stage, llm, delivery, checkpoint) ==
    /\ JobTyped(new)
    /\ new.stage = stage /\ new.revision = old.revision /\ new.generation = old.generation
    /\ new.llm = llm /\ new.delivery = delivery /\ new.checkpoint = checkpoint

LEMMA JobUpdates ==
    ASSUME NEW job, JobTyped(job), NEW stage \in Stages
    PROVE  /\ Updated([job EXCEPT !.stage = stage], job, stage, job.llm, job.delivery, job.checkpoint)
           /\ Updated([job EXCEPT !.aborted = TRUE], job, job.stage, job.llm, job.delivery, job.checkpoint)
           /\ \A loaded : Updated([job EXCEPT !.stage = stage, !.loaded = loaded],
                                  job, stage, job.llm, job.delivery, job.checkpoint)
           /\ \A llm \in LlmCompletionOutcomes :
                Updated([job EXCEPT !.stage = stage, !.llm = llm],
                        job, stage, llm, job.delivery, job.checkpoint)
           /\ \A delivery \in DeliveryOutcomes :
                Updated([job EXCEPT !.stage = stage, !.delivery = delivery],
                        job, stage, job.llm, delivery, job.checkpoint)
           /\ \A checkpoint \in {"succeeded", "failed"} :
                Updated([job EXCEPT !.stage = stage, !.checkpoint = checkpoint],
                        job, stage, job.llm, job.delivery, checkpoint)
           /\ Updated([job EXCEPT !.stage = stage, !.attempts = @ + 1],
                      job, stage, job.llm, job.delivery, job.checkpoint)
<1> USE DEF JobTyped, Updated
<1>1. Updated([job EXCEPT !.stage = stage], job, stage, job.llm, job.delivery, job.checkpoint)
  OBVIOUS
<1>2. Updated([job EXCEPT !.aborted = TRUE], job, job.stage, job.llm, job.delivery, job.checkpoint)
  OBVIOUS
<1>3. \A loaded : Updated([job EXCEPT !.stage = stage, !.loaded = loaded],
                          job, stage, job.llm, job.delivery, job.checkpoint)
  OBVIOUS
<1>4. \A llm \in LlmCompletionOutcomes :
        Updated([job EXCEPT !.stage = stage, !.llm = llm], job, stage, llm, job.delivery, job.checkpoint)
  OBVIOUS
<1>5. \A delivery \in DeliveryOutcomes :
        Updated([job EXCEPT !.stage = stage, !.delivery = delivery],
                job, stage, job.llm, delivery, job.checkpoint)
  OBVIOUS
<1>6. \A checkpoint \in {"succeeded", "failed"} :
        Updated([job EXCEPT !.stage = stage, !.checkpoint = checkpoint],
                job, stage, job.llm, job.delivery, checkpoint)
  OBVIOUS
<1>7. Updated([job EXCEPT !.stage = stage, !.attempts = @ + 1],
              job, stage, job.llm, job.delivery, job.checkpoint)
  <2>1. \A n \in Nat : Updated([job EXCEPT !.stage = stage, !.attempts = n],
                               job, stage, job.llm, job.delivery, job.checkpoint)
    OBVIOUS
  <2>2. job.attempts + 1 \in Nat
    OBVIOUS
  <2> HIDE DEF JobTyped, Updated
  <2> QED
    BY <2>1, <2>2, Zenon
<1> HIDE DEF JobTyped, Updated
<1> QED
  BY <1>1, <1>2, <1>3, <1>4, <1>5, <1>6, <1>7

\* A step of a job that touches nothing but its locals.
QuietStep(t, job) ==
    /\ Only(t, job)
    /\ UNCHANGED <<turns, sequenceCounters, outboxOutcomes, auditStarts, generation, policy, effects>>

JobFits(t, job) ==
    /\ JobTyped(job)
    /\ job.stage \notin FactStages \cup {"idle"}
    /\ job.revision = jobs[t].revision /\ job.generation = jobs[t].generation
    /\ job.delivery = jobs[t].delivery
    /\ job.stage \notin {"error", "done"} =>
         /\ StateAt(job.stage, job) = StateAt(jobs[t].stage, jobs[t])
         /\ LearntAt(job.stage, job)
         /\ EffectsAt(t, job.stage)

LEMMA EndsHaveNoEffects ==
    ASSUME NEW t, NEW stage \in {"idle", "error", "done"}
    PROVE  EffectsAt(t, stage)
  BY DEF EffectsAt, UnaskedStages, UnsentStages, AnsweredStages, UnknownStages

LEMMA QuietStepHolds ==
    ASSUME RuntimeInv, NEW t \in Turns, OthersAlone, Working(t), NEW job, QuietStep(t, job), JobFits(t, job)
    PROVE  RuntimeInv'
<1>1. jobs'[t] = job /\ jobs' = [jobs EXCEPT ![t] = jobs'[t]]
  BY DEF QuietStep, Only, RuntimeInv, Typed
<1>2. UNCHANGED <<turns, sequenceCounters, outboxOutcomes, auditStarts, generation, policy, effects>>
  BY DEF QuietStep
<1>3. RowInv(t)'
  BY <1>2, JobFacts DEF RowInv, Present, Settled
<1>4. EffectsAt(t, job.stage)
  BY EndsHaveNoEffects DEF JobFits
<1>5. EffectsAt(t, jobs[t].stage)'
  BY <1>1, <1>2, <1>4 DEF EffectsAt
<1>6. RecordsTyped(t) /\ AnswerStays(t)
  BY <1>1, <1>2 DEF RecordsTyped, AnswerStays, JobFits, RuntimeInv, Typed
<1>7. /\ effects' = [effects EXCEPT ![t] = effects'[t]]
      /\ outboxOutcomes' = [outboxOutcomes EXCEPT ![t] = outboxOutcomes'[t]]
      /\ auditStarts' = [auditStarts EXCEPT ![t] = auditStarts'[t]]
  BY <1>2 DEF RuntimeInv, Typed
<1>8. /\ effects'[t].delivery = 1 => effects'[t].llm = 1
      /\ effects'[t].answer # None => effects'[t].delivery = 1
      /\ jobs'[t].delivery \in ProvenOutcomes => effects'[t].answer = jobs'[t].delivery
  BY <1>1, <1>2, JobFacts DEF JobFits
<1>9. /\ jobs'[t].stage \notin FactStages
      /\ jobs'[t].revision = jobs[t].revision /\ jobs'[t].generation = jobs[t].generation
      /\ jobs'[t].stage \notin {"idle", "error", "done"} =>
           /\ StateAt(jobs'[t].stage, jobs'[t]) = StateAt(jobs[t].stage, jobs[t])
           /\ LearntAt(jobs'[t].stage, jobs'[t])
  BY <1>1 DEF JobFits
<1> QED
  BY <1>1, <1>2, <1>3, <1>5, <1>6, <1>7, <1>8, <1>9, LocalStepHolds

LEMMA QuietStepsHold ==
    ASSUME RuntimeInv, NEW t \in Turns, OthersAlone,
           \/ ReadKillSwitch(t) \/ EvaluateGate(t)
           \/ \E result \in OfferedLlmResults : LlmSettles(t, result)
           \/ LoadForCheckpoint(t) \/ WriteCheckpoint(t) \/ LoadForBarrier(t) \/ WriteBarrier(t)
           \/ RecordAuditCompletion(t) \/ PutOutput(t) \/ Deadline(t) \/ PhaseFails(t)
    PROVE  RuntimeInv'
<1> USE DEF At, Stages, StateAt, UnaskedStages, UnsentStages, AnsweredStages, UnknownStages, EffectsAt, LearntAt,
            FactStages, DeliveryStates, EndedDelivery, ProvenOutcomes, QuietStep, storeVars, ledgerVars, outboxVars,
            auditVars, NoEffect
<1>1. CASE ReadKillSwitch(t)
  <2> DEFINE job == [jobs[t] EXCEPT !.stage = "audit-start"]
  <2>1. Working(t) /\ QuietStep(t, job)
    BY <1>1, JobFacts DEF ReadKillSwitch, Goto, Working
  <2>2. Updated(job, jobs[t], "audit-start", jobs[t].llm, jobs[t].delivery, jobs[t].checkpoint)
    BY <1>1, <2>1, JobFacts, JobUpdates
  <2> HIDE DEF job
  <2>3. JobFits(t, job)
    BY <1>1, <2>1, <2>2, JobFacts, OutboxAssumption DEF ReadKillSwitch, Goto, JobFits, Updated, FinalState
  <2> QED
    BY <2>1, <2>3, QuietStepHolds
<1>2. CASE EvaluateGate(t)
  <2> DEFINE job == [jobs[t] EXCEPT !.stage = IF GateEligible(snapshots[Home(t)]) THEN "llm-start" ELSE "gate-cancel"]
  <2>1. Working(t) /\ QuietStep(t, job)
    BY <1>2, JobFacts DEF EvaluateGate, Goto, Working
  <2>2. Updated(job, jobs[t], IF GateEligible(snapshots[Home(t)]) THEN "llm-start" ELSE "gate-cancel", jobs[t].llm, jobs[t].delivery, jobs[t].checkpoint)
    BY <1>2, <2>1, JobFacts, JobUpdates
  <2> HIDE DEF job
  <2>3. JobFits(t, job)
    BY <1>2, <2>1, <2>2, JobFacts, OutboxAssumption DEF EvaluateGate, Goto, JobFits, Updated, FinalState
  <2> QED
    BY <2>1, <2>3, QuietStepHolds
<1>3. CASE \E result \in OfferedLlmResults : LlmSettles(t, result)
  <2> PICK result \in OfferedLlmResults : LlmSettles(t, result)
    BY <1>3
  <2> DEFINE job == IF jobs[t].aborted \/ ~GenerationCurrent(t) THEN LlmUnknown(jobs[t]) ELSE LlmRoute(jobs[t], result)
  <2>1. Working(t) /\ QuietStep(t, job)
    BY DEF LlmSettles, Working
  <2>2. \/ Updated(job, jobs[t], "llm-unknown", "outcome-unknown", jobs[t].delivery, jobs[t].checkpoint)
        \/ Updated(job, jobs[t], "llm-complete", "completed", jobs[t].delivery, jobs[t].checkpoint)
        \/ result # "completed" /\ Updated(job, jobs[t], "failed-move", result, jobs[t].delivery, jobs[t].checkpoint)
    BY <2>1, JobFacts, JobUpdates DEF LlmUnknown, LlmRoute, LlmCompletionOutcomes, NoticeEligibleFailures,
                                      NoticeIneligibleFailures
  <2> HIDE DEF job
  <2>3. JobFits(t, job)
    BY <2>1, <2>2, JobFacts DEF JobFits, Updated, LlmSettles
  <2> QED
    BY <2>1, <2>3, QuietStepHolds
<1>4. CASE LoadForCheckpoint(t)
  <2> DEFINE job == [jobs[t] EXCEPT !.stage = "checkpoint-write", !.loaded = snapshots[Home(t)]]
  <2>1. Working(t) /\ QuietStep(t, job)
    BY <1>4, JobFacts DEF LoadForCheckpoint, Working
  <2>2. Updated(job, jobs[t], "checkpoint-write", jobs[t].llm, jobs[t].delivery, jobs[t].checkpoint)
    BY <1>4, <2>1, JobFacts, JobUpdates
  <2> HIDE DEF job
  <2>3. JobFits(t, job)
    BY <1>4, <2>1, <2>2, JobFacts, OutboxAssumption DEF LoadForCheckpoint, JobFits, Updated, FinalState
  <2> QED
    BY <2>1, <2>3, QuietStepHolds
<1>5. CASE WriteCheckpoint(t)
  <2> DEFINE job == LET kind == CheckpointOutcome(Home(t), <<"checkpoint", t>>, jobs[t].loaded.revision,
                                               NextCheckpoint(jobs[t].loaded, t))
                    IN IF kind \in {"stored", "already-applied"}
                       THEN [jobs[t] EXCEPT !.stage = "checkpoint-fact", !.checkpoint = "succeeded"]
                       ELSE CheckpointFailed(jobs[t])
  <2>1. Working(t) /\ QuietStep(t, job)
    BY <1>5, JobFacts DEF WriteCheckpoint, ConversationCall, Working, Checkpoint, RecordCheckpointBarrier, conversationVars
  <2>2. \/ Updated(job, jobs[t], "checkpoint-fact", jobs[t].llm, jobs[t].delivery, "succeeded")
         \/ Updated(job, jobs[t], "checkpoint-failed", jobs[t].llm, jobs[t].delivery, "failed")
    BY <1>5, <2>1, JobFacts, JobUpdates DEF CheckpointFailed
  <2> HIDE DEF job
  <2>3. JobFits(t, job)
    BY <1>5, <2>1, <2>2, JobFacts, OutboxAssumption DEF WriteCheckpoint, ConversationCall, JobFits, Updated, FinalState
  <2> QED
    BY <2>1, <2>3, QuietStepHolds
<1>6. CASE LoadForBarrier(t)
  <2> DEFINE job == AfterBarrierLoad(jobs[t], Home(t))
  <2>1. Working(t) /\ QuietStep(t, job)
    BY <1>6, JobFacts DEF LoadForBarrier, Working
  <2>2. Updated(job, jobs[t], "barrier-write", jobs[t].llm, jobs[t].delivery, jobs[t].checkpoint)
    BY <1>6, <2>1, JobFacts, JobUpdates DEF AfterBarrierLoad
  <2> HIDE DEF job
  <2>3. JobFits(t, job)
    BY <1>6, <2>1, <2>2, JobFacts, OutboxAssumption DEF LoadForBarrier, JobFits, Updated, FinalState
  <2> QED
    BY <2>1, <2>3, QuietStepHolds
<1>7. CASE WriteBarrier(t)
  <2> DEFINE job == AfterBarrierWrite(jobs[t],
                      BarrierOutcome(Home(t), <<BarrierReason(jobs[t]), t>>, jobs[t].loaded.revision),
                      IF jobs[t].checkpoint = "failed" THEN "audit-completion" ELSE "complete")
  <2>1. Working(t) /\ QuietStep(t, job)
    BY <1>7, JobFacts DEF WriteBarrier, ConversationCall, Working, Checkpoint, RecordCheckpointBarrier, conversationVars
  <2>2. \E stage \in {"barrier-load", "error", IF jobs[t].checkpoint = "failed" THEN "audit-completion" ELSE "complete"} :
            Updated(job, jobs[t], stage, jobs[t].llm, jobs[t].delivery, jobs[t].checkpoint)
    BY <1>7, <2>1, JobFacts, JobUpdates DEF AfterBarrierWrite
  <2> HIDE DEF job
  <2>3. JobFits(t, job)
    <3>1. At(t, "barrier-write") /\ (jobs[t].checkpoint = "failed" => effects[t].llm = 1)
      BY <1>7, <2>1, JobFacts, OutboxAssumption DEF WriteBarrier, DeliveryOutcomes
    <3>2. PICK stage \in {"barrier-load", "error", IF jobs[t].checkpoint = "failed" THEN "audit-completion" ELSE "complete"} :
            Updated(job, jobs[t], stage, jobs[t].llm, jobs[t].delivery, jobs[t].checkpoint)
      BY <2>2
    <3>3. CASE stage \in {"barrier-load", "error"}
      BY <2>1, <3>1, <3>2, <3>3, JobFacts DEF JobFits, Updated, FinalState
    <3>4. CASE jobs[t].checkpoint = "failed" /\ stage = "audit-completion"
      BY <2>1, <3>1, <3>2, <3>4, JobFacts DEF JobFits, Updated, FinalState
    <3>5. CASE jobs[t].checkpoint # "failed" /\ stage = "complete"
      BY <2>1, <3>1, <3>2, <3>5, JobFacts DEF JobFits, Updated, FinalState
    <3> QED
      BY <3>2, <3>3, <3>4, <3>5
  <2> QED
    BY <2>1, <2>3, QuietStepHolds
<1>8. CASE RecordAuditCompletion(t)
  <2> DEFINE job == AfterRecord(jobs[t], RecordCompletionKind(t, CompletionEvent(jobs[t])), "completion-fact")
  <2>1. Working(t) /\ QuietStep(t, job)
    BY <1>8, JobFacts DEF RecordAuditCompletion, AuditCall, RecordCompletion, Working
  <2>2. \E stage \in {"completion-fact", "error"} : Updated(job, jobs[t], stage, jobs[t].llm, jobs[t].delivery, jobs[t].checkpoint)
    BY <1>8, <2>1, JobFacts, JobUpdates DEF AfterRecord
  <2> HIDE DEF job
  <2>3. JobFits(t, job)
    BY <1>8, <2>1, <2>2, JobFacts, OutboxAssumption DEF RecordAuditCompletion, AuditCall, RecordCompletion, JobFits, Updated, FinalState
  <2> QED
    BY <2>1, <2>3, QuietStepHolds
<1>9. CASE PutOutput(t)
  <2> DEFINE job == [jobs[t] EXCEPT !.stage = "delivery-start"]
  <2>1. Working(t) /\ QuietStep(t, job)
    BY <1>9, JobFacts DEF PutOutput, OutboxPut, OutboxCall, Goto, Working
  <2>2. Updated(job, jobs[t], "delivery-start", jobs[t].llm, jobs[t].delivery, jobs[t].checkpoint)
    BY <1>9, <2>1, JobFacts, JobUpdates
  <2> HIDE DEF job
  <2>3. JobFits(t, job)
    BY <1>9, <2>1, <2>2, JobFacts, OutboxAssumption DEF PutOutput, OutboxPut, OutboxCall, Goto, JobFits, Updated, FinalState
  <2> QED
    BY <2>1, <2>3, QuietStepHolds
<1>10. CASE Deadline(t)
  <2> DEFINE job == [jobs[t] EXCEPT !.aborted = TRUE]
  <2>1. Working(t) /\ QuietStep(t, job)
    BY <1>10, JobFacts DEF Deadline, AbortableStages, Working
  <2>2. Updated(job, jobs[t], jobs[t].stage, jobs[t].llm, jobs[t].delivery, jobs[t].checkpoint)
    BY <1>10, <2>1, JobFacts, JobUpdates
  <2> HIDE DEF job
  <2>3. JobFits(t, job)
    BY <1>10, <2>1, <2>2, JobFacts, OutboxAssumption DEF Deadline, AbortableStages, JobFits, Updated, FinalState
  <2> QED
    BY <2>1, <2>3, QuietStepHolds
<1>11. CASE PhaseFails(t)
  <2> DEFINE job == IF jobs[t].stage \in {"checkpoint-load", "checkpoint-write"}
                    THEN CheckpointFailed(jobs[t])
                    ELSE [jobs[t] EXCEPT !.stage = "error"]
  <2>1. Working(t) /\ QuietStep(t, job)
    BY <1>11, JobFacts DEF PhaseFails, FallibleStages, Working
  <2>2. IF jobs[t].stage \in {"checkpoint-load", "checkpoint-write"}
         THEN Updated(job, jobs[t], "checkpoint-failed", jobs[t].llm, jobs[t].delivery, "failed")
         ELSE Updated(job, jobs[t], "error", jobs[t].llm, jobs[t].delivery, jobs[t].checkpoint)
    BY <1>11, <2>1, JobFacts, JobUpdates DEF CheckpointFailed
  <2> HIDE DEF job
  <2>3. JobFits(t, job)
    BY <1>11, <2>1, <2>2, JobFacts, OutboxAssumption DEF PhaseFails, FallibleStages, JobFits, Updated, FinalState
  <2> QED
    BY <2>1, <2>3, QuietStepHolds
<1> QED
  BY <1>1, <1>2, <1>3, <1>4, <1>5, <1>6, <1>7, <1>8, <1>9, <1>10, <1>11

\* The steps that write the audit start or the outbox, or reach a provider.
LEMMA TellingStepsHold ==
    ASSUME RuntimeInv, NEW t \in Turns, OthersAlone,
           \/ RecordAuditStart(t) \/ InvokeLlm(t) \/ InvokeDelivery(t)
           \/ \E result \in DeliveryOutcomes \cup {"error"} : DeliverySettles(t, result)
           \/ RecordOutboxOutcome(t) \/ RecordOutboxUnknown(t)
    PROVE  RuntimeInv'
<1> USE DEF At, Stages, StateAt, UnaskedStages, UnsentStages, AnsweredStages, UnknownStages, EffectsAt, LearntAt,
            FactStages, ProvenOutcomes, storeVars, ledgerVars, outboxVars, auditVars, NoEffect
<1>1. CASE RecordAuditStart(t)
  <2> DEFINE job == AfterRecord(jobs[t], RecordStartKind(t, policy), "gate")
  <2>1. Working(t) /\ Only(t, job)
    BY <1>1 DEF RecordAuditStart, RecordStart, RecordStartKind, AuditCall, Working
  <2>2. \/ auditStarts[t] \in {None, policy} /\ Updated(job, jobs[t], "gate", jobs[t].llm, jobs[t].delivery, jobs[t].checkpoint)
        \/ Updated(job, jobs[t], "error", jobs[t].llm, jobs[t].delivery, jobs[t].checkpoint)
    BY <2>1, JobFacts, JobUpdates DEF AfterRecord, RecordStartKind
  <2> HIDE DEF job
  <2>3. jobs'[t] = job /\ jobs' = [jobs EXCEPT ![t] = jobs'[t]] /\ Typed
    BY <2>1, JobFacts DEF Only, Typed
  <2>4. UNCHANGED <<turns, sequenceCounters, generation, policy>>
    BY <1>1 DEF RecordAuditStart, RecordStart, RecordStartKind, AuditCall
  <2>5. /\ effects' = [effects EXCEPT ![t] = effects'[t]]
        /\ outboxOutcomes' = [outboxOutcomes EXCEPT ![t] = outboxOutcomes'[t]]
        /\ auditStarts' = [auditStarts EXCEPT ![t] = auditStarts'[t]]
    BY <1>1, <2>3 DEF RecordAuditStart, RecordStart, RecordStartKind, AuditCall, Typed
  <2>6. RecordsTyped(t)
    <3>1. /\ effects'[t] \in EffectRecords
          /\ outboxOutcomes'[t] \in DeliveryOutcomes \cup {None}
          /\ auditStarts'[t] \in PolicyVersions \cup {None}
      BY <1>1, <2>1, <2>3, JobFacts DEF RecordAuditStart, RecordStart, RecordStartKind, AuditCall, Typed, EffectRecords, NoEffects, DeliveryOutcomes, JobTyped
    <3> QED
      BY <2>1, <2>2, <2>3, <2>4, <3>1, JobFacts DEF RecordsTyped, Updated
  <2>7. RowInv(t)'
    BY <1>1, <2>1, <2>2, <2>3, JobFacts, OutboxAssumption, PolicyAssumption
       DEF RecordAuditStart, RecordStart, RecordStartKind, AuditCall, Typed, EffectRecords, NoEffects, RowInv, Present, Settled, DeliveryOutcomes, SettledDeliveries, DeliveryStates
  <2>8. /\ AnswerStays(t)
        /\ effects'[t].delivery = 1 => effects'[t].llm = 1
        /\ effects'[t].answer # None => effects'[t].delivery = 1
        /\ EffectsAt(t, jobs[t].stage)'
    BY <1>1, <2>1, <2>2, <2>3, JobFacts, OutboxAssumption, PolicyAssumption
       DEF RecordAuditStart, RecordStart, RecordStartKind, AuditCall, Updated, Typed, EffectRecords, NoEffects, AnswerStays, DeliveryOutcomes
  <2>9. /\ jobs'[t].stage \notin FactStages
        /\ jobs'[t].revision = jobs[t].revision /\ jobs'[t].generation = jobs[t].generation
        /\ jobs'[t].stage \notin {"idle", "error", "done"} =>
             /\ StateAt(jobs'[t].stage, jobs'[t]) = StateAt(jobs[t].stage, jobs[t])
             /\ LearntAt(jobs'[t].stage, jobs'[t])
             /\ jobs'[t].delivery \in ProvenOutcomes => effects'[t].answer = jobs'[t].delivery
    BY <1>1, <2>1, <2>2, <2>3, JobFacts, OutboxAssumption
       DEF RecordAuditStart, RecordStart, RecordStartKind, AuditCall, Updated, Typed, EffectRecords, DeliveryOutcomes, JobTyped
  <2> QED
    BY <2>1, <2>3, <2>4, <2>5, <2>6, <2>7, <2>8, <2>9, LocalStepHolds
<1>2. CASE InvokeLlm(t)
  <2> DEFINE job == IF GenerationCurrent(t) /\ ~jobs[t].aborted THEN [jobs[t] EXCEPT !.stage = "llm-wait"] ELSE LlmUnknown(jobs[t])
  <2>1. Working(t) /\ Only(t, job)
    BY <1>2 DEF InvokeLlm, Goto, Working
  <2>2. \/ GenerationCurrent(t) /\ Updated(job, jobs[t], "llm-wait", jobs[t].llm, jobs[t].delivery, jobs[t].checkpoint)
        \/ Updated(job, jobs[t], "llm-unknown", "outcome-unknown", jobs[t].delivery, jobs[t].checkpoint)
    BY <2>1, JobFacts, JobUpdates DEF LlmUnknown, LlmCompletionOutcomes
  <2> HIDE DEF job
  <2>3. jobs'[t] = job /\ jobs' = [jobs EXCEPT ![t] = jobs'[t]] /\ Typed
    BY <2>1, JobFacts DEF Only, Typed
  <2>4. UNCHANGED <<turns, sequenceCounters, generation, policy>>
    BY <1>2 DEF InvokeLlm, Goto
  <2>5. /\ effects' = [effects EXCEPT ![t] = effects'[t]]
        /\ outboxOutcomes' = [outboxOutcomes EXCEPT ![t] = outboxOutcomes'[t]]
        /\ auditStarts' = [auditStarts EXCEPT ![t] = auditStarts'[t]]
    BY <1>2, <2>3 DEF InvokeLlm, Goto, Typed
  <2>6. RecordsTyped(t)
    <3>1. /\ effects'[t] \in EffectRecords
          /\ outboxOutcomes'[t] \in DeliveryOutcomes \cup {None}
          /\ auditStarts'[t] \in PolicyVersions \cup {None}
      BY <1>2, <2>1, <2>3, JobFacts DEF InvokeLlm, Goto, Typed, EffectRecords, NoEffects, DeliveryOutcomes, JobTyped
    <3> QED
      BY <2>1, <2>2, <2>3, <2>4, <3>1, JobFacts DEF RecordsTyped, Updated
  <2>7. RowInv(t)'
    BY <1>2, <2>1, <2>2, <2>3, JobFacts, OutboxAssumption, PolicyAssumption
       DEF InvokeLlm, Goto, Typed, EffectRecords, NoEffects, RowInv, Present, Settled, DeliveryOutcomes, SettledDeliveries, DeliveryStates
  <2>8. /\ AnswerStays(t)
        /\ effects'[t].delivery = 1 => effects'[t].llm = 1
        /\ effects'[t].answer # None => effects'[t].delivery = 1
        /\ EffectsAt(t, jobs[t].stage)'
    BY <1>2, <2>1, <2>2, <2>3, JobFacts, OutboxAssumption, PolicyAssumption
       DEF InvokeLlm, Goto, Updated, Typed, EffectRecords, NoEffects, AnswerStays, DeliveryOutcomes
  <2>9. /\ jobs'[t].stage \notin FactStages
        /\ jobs'[t].revision = jobs[t].revision /\ jobs'[t].generation = jobs[t].generation
        /\ jobs'[t].stage \notin {"idle", "error", "done"} =>
             /\ StateAt(jobs'[t].stage, jobs'[t]) = StateAt(jobs[t].stage, jobs[t])
             /\ LearntAt(jobs'[t].stage, jobs'[t])
             /\ jobs'[t].delivery \in ProvenOutcomes => effects'[t].answer = jobs'[t].delivery
    BY <1>2, <2>1, <2>2, <2>3, JobFacts, OutboxAssumption
       DEF InvokeLlm, Goto, Updated, Typed, EffectRecords, DeliveryOutcomes, JobTyped
  <2> QED
    BY <2>1, <2>3, <2>4, <2>5, <2>6, <2>7, <2>8, <2>9, LocalStepHolds
<1>3. CASE InvokeDelivery(t)
  <2> DEFINE job == IF GenerationCurrent(t) /\ ~jobs[t].aborted THEN [jobs[t] EXCEPT !.stage = "delivery-wait"] ELSE DeliveryUnknown(jobs[t])
  <2>1. Working(t) /\ Only(t, job)
    BY <1>3 DEF InvokeDelivery, Goto, Working
  <2>2. \/ GenerationCurrent(t) /\ Updated(job, jobs[t], "delivery-wait", jobs[t].llm, jobs[t].delivery, jobs[t].checkpoint)
        \/ Updated(job, jobs[t], "delivery-unknown", jobs[t].llm, "outcome-unknown", jobs[t].checkpoint)
    BY <2>1, JobFacts, JobUpdates DEF DeliveryUnknown, DeliveryOutcomes
  <2> HIDE DEF job
  <2>3. jobs'[t] = job /\ jobs' = [jobs EXCEPT ![t] = jobs'[t]] /\ Typed
    BY <2>1, JobFacts DEF Only, Typed
  <2>4. UNCHANGED <<turns, sequenceCounters, generation, policy>>
    BY <1>3 DEF InvokeDelivery, Goto
  <2>5. /\ effects' = [effects EXCEPT ![t] = effects'[t]]
        /\ outboxOutcomes' = [outboxOutcomes EXCEPT ![t] = outboxOutcomes'[t]]
        /\ auditStarts' = [auditStarts EXCEPT ![t] = auditStarts'[t]]
    BY <1>3, <2>3 DEF InvokeDelivery, Goto, Typed
  <2>6. RecordsTyped(t)
    <3>1. /\ effects'[t] \in EffectRecords
          /\ outboxOutcomes'[t] \in DeliveryOutcomes \cup {None}
          /\ auditStarts'[t] \in PolicyVersions \cup {None}
      BY <1>3, <2>1, <2>3, JobFacts DEF InvokeDelivery, Goto, Typed, EffectRecords, NoEffects, DeliveryOutcomes, JobTyped
    <3> QED
      BY <2>1, <2>2, <2>3, <2>4, <3>1, JobFacts DEF RecordsTyped, Updated
  <2>7. RowInv(t)'
    BY <1>3, <2>1, <2>2, <2>3, JobFacts, OutboxAssumption, PolicyAssumption
       DEF InvokeDelivery, Goto, Typed, EffectRecords, NoEffects, RowInv, Present, Settled, DeliveryOutcomes, SettledDeliveries, DeliveryStates
  <2>8. /\ AnswerStays(t)
        /\ effects'[t].delivery = 1 => effects'[t].llm = 1
        /\ effects'[t].answer # None => effects'[t].delivery = 1
        /\ EffectsAt(t, jobs[t].stage)'
    BY <1>3, <2>1, <2>2, <2>3, JobFacts, OutboxAssumption, PolicyAssumption
       DEF InvokeDelivery, Goto, Updated, Typed, EffectRecords, NoEffects, AnswerStays, DeliveryOutcomes
  <2>9. /\ jobs'[t].stage \notin FactStages
        /\ jobs'[t].revision = jobs[t].revision /\ jobs'[t].generation = jobs[t].generation
        /\ jobs'[t].stage \notin {"idle", "error", "done"} =>
             /\ StateAt(jobs'[t].stage, jobs'[t]) = StateAt(jobs[t].stage, jobs[t])
             /\ LearntAt(jobs'[t].stage, jobs'[t])
             /\ jobs'[t].delivery \in ProvenOutcomes => effects'[t].answer = jobs'[t].delivery
    BY <1>3, <2>1, <2>2, <2>3, JobFacts, OutboxAssumption
       DEF InvokeDelivery, Goto, Updated, Typed, EffectRecords, DeliveryOutcomes, JobTyped
  <2> QED
    BY <2>1, <2>3, <2>4, <2>5, <2>6, <2>7, <2>8, <2>9, LocalStepHolds
<1>4. CASE \E result \in DeliveryOutcomes \cup {"error"} : DeliverySettles(t, result)
  <2>0. PICK result \in DeliveryOutcomes \cup {"error"} : DeliverySettles(t, result)
    BY <1>4
  <2> DEFINE job == IF jobs[t].aborted \/ ~GenerationCurrent(t) \/ result = "error" THEN DeliveryUnknown(jobs[t])
                    ELSE [jobs[t] EXCEPT !.stage = "outbox-outcome", !.delivery = result]
  <2>1. Working(t) /\ Only(t, job)
    BY <2>0 DEF DeliverySettles, Working
  <2>a. Updated(DeliveryUnknown(jobs[t]), jobs[t], "delivery-unknown", jobs[t].llm, "outcome-unknown", jobs[t].checkpoint)
    BY <2>1, JobFacts, JobUpdates DEF DeliveryUnknown, DeliveryOutcomes
  <2>b. result # "error" => Updated([jobs[t] EXCEPT !.stage = "outbox-outcome", !.delivery = result], jobs[t],
                                    "outbox-outcome", jobs[t].llm, result, jobs[t].checkpoint)
    <3> SUFFICES ASSUME result \in DeliveryOutcomes
                 PROVE  Updated([jobs[t] EXCEPT !.stage = "outbox-outcome", !.delivery = result], jobs[t],
                                "outbox-outcome", jobs[t].llm, result, jobs[t].checkpoint)
      BY <2>0
    <3> "outbox-outcome" \in Stages
      OBVIOUS
    <3> QED
      BY <2>1, JobFacts, JobUpdates, Zenon
  <2>2. \/ result # "error" /\ Updated(job, jobs[t], "outbox-outcome", jobs[t].llm, result, jobs[t].checkpoint)
        \/ Updated(job, jobs[t], "delivery-unknown", jobs[t].llm, "outcome-unknown", jobs[t].checkpoint)
    BY <2>a, <2>b
  <2> HIDE DEF job
  <2>3. jobs'[t] = job /\ jobs' = [jobs EXCEPT ![t] = jobs'[t]] /\ Typed
    BY <2>1, JobFacts DEF Only, Typed
  <2>4. UNCHANGED <<turns, sequenceCounters, generation, policy>>
    BY <2>0 DEF DeliverySettles
  <2>5. /\ effects' = [effects EXCEPT ![t] = effects'[t]]
        /\ outboxOutcomes' = [outboxOutcomes EXCEPT ![t] = outboxOutcomes'[t]]
        /\ auditStarts' = [auditStarts EXCEPT ![t] = auditStarts'[t]]
    BY <2>0, <2>3 DEF DeliverySettles, Typed
  <2>6. RecordsTyped(t)
    <3>1. /\ effects'[t] \in EffectRecords
          /\ outboxOutcomes'[t] \in DeliveryOutcomes \cup {None}
          /\ auditStarts'[t] \in PolicyVersions \cup {None}
      BY <2>0, <2>1, <2>3, JobFacts DEF DeliverySettles, Typed, EffectRecords, NoEffects, DeliveryOutcomes, JobTyped
    <3> QED
      BY <2>1, <2>2, <2>3, <2>4, <3>1, JobFacts DEF RecordsTyped, Updated
  <2>7. RowInv(t)'
    BY <2>0, <2>1, <2>2, <2>3, JobFacts, OutboxAssumption, PolicyAssumption
       DEF DeliverySettles, Typed, EffectRecords, NoEffects, RowInv, Present, Settled, DeliveryOutcomes, SettledDeliveries, DeliveryStates
  <2>8. /\ AnswerStays(t)
        /\ effects'[t].delivery = 1 => effects'[t].llm = 1
        /\ effects'[t].answer # None => effects'[t].delivery = 1
        /\ EffectsAt(t, jobs[t].stage)'
    BY <2>0, <2>1, <2>2, <2>3, JobFacts, OutboxAssumption, PolicyAssumption
       DEF DeliverySettles, Updated, Typed, EffectRecords, NoEffects, AnswerStays, DeliveryOutcomes
  <2>9. /\ jobs'[t].stage \notin FactStages
        /\ jobs'[t].revision = jobs[t].revision /\ jobs'[t].generation = jobs[t].generation
        /\ jobs'[t].stage \notin {"idle", "error", "done"} =>
             /\ StateAt(jobs'[t].stage, jobs'[t]) = StateAt(jobs[t].stage, jobs[t])
             /\ LearntAt(jobs'[t].stage, jobs'[t])
             /\ jobs'[t].delivery \in ProvenOutcomes => effects'[t].answer = jobs'[t].delivery
    BY <2>0, <2>1, <2>2, <2>3, JobFacts, OutboxAssumption
       DEF DeliverySettles, Updated, Typed, EffectRecords, DeliveryOutcomes, JobTyped
  <2> QED
    BY <2>1, <2>3, <2>4, <2>5, <2>6, <2>7, <2>8, <2>9, LocalStepHolds
<1>5. CASE RecordOutboxOutcome(t)
  <2> DEFINE job == AfterRecord(jobs[t], RecordDeliveryOutcomeKind(t, jobs[t].delivery),
                                IF jobs[t].delivery = "outcome-unknown" THEN "delivery-unknown" ELSE "delivery-fact")
  <2>1. Working(t) /\ Only(t, job)
    BY <1>5 DEF RecordOutboxOutcome, RecordDeliveryOutcome, OutboxCall, Working
  <2>2. \/ Updated(job, jobs[t], IF jobs[t].delivery = "outcome-unknown" THEN "delivery-unknown" ELSE "delivery-fact", jobs[t].llm, jobs[t].delivery, jobs[t].checkpoint)
        \/ Updated(job, jobs[t], "error", jobs[t].llm, jobs[t].delivery, jobs[t].checkpoint)
    BY <2>1, JobFacts, JobUpdates DEF AfterRecord
  <2> HIDE DEF job
  <2>3. jobs'[t] = job /\ jobs' = [jobs EXCEPT ![t] = jobs'[t]] /\ Typed
    BY <2>1, JobFacts DEF Only, Typed
  <2>4. UNCHANGED <<turns, sequenceCounters, generation, policy>>
    BY <1>5 DEF RecordOutboxOutcome, RecordDeliveryOutcome, OutboxCall
  <2>5. /\ effects' = [effects EXCEPT ![t] = effects'[t]]
        /\ outboxOutcomes' = [outboxOutcomes EXCEPT ![t] = outboxOutcomes'[t]]
        /\ auditStarts' = [auditStarts EXCEPT ![t] = auditStarts'[t]]
    BY <1>5, <2>3 DEF RecordOutboxOutcome, RecordDeliveryOutcome, OutboxCall, Typed
  <2>6. RecordsTyped(t)
    <3>1. /\ effects'[t] \in EffectRecords
          /\ outboxOutcomes'[t] \in DeliveryOutcomes \cup {None}
          /\ auditStarts'[t] \in PolicyVersions \cup {None}
      BY <1>5, <2>1, <2>3, JobFacts DEF RecordOutboxOutcome, RecordDeliveryOutcome, OutboxCall, Typed, EffectRecords, NoEffects, DeliveryOutcomes, JobTyped
    <3> QED
      BY <2>1, <2>2, <2>3, <2>4, <3>1, JobFacts DEF RecordsTyped, Updated
  <2>7. RowInv(t)'
    BY <1>5, <2>1, <2>2, <2>3, JobFacts, OutboxAssumption, PolicyAssumption
       DEF RecordOutboxOutcome, RecordDeliveryOutcome, OutboxCall, Typed, EffectRecords, NoEffects, RowInv, Present, Settled, DeliveryOutcomes, SettledDeliveries, DeliveryStates
  <2>8. /\ AnswerStays(t)
        /\ effects'[t].delivery = 1 => effects'[t].llm = 1
        /\ effects'[t].answer # None => effects'[t].delivery = 1
        /\ EffectsAt(t, jobs[t].stage)'
    BY <1>5, <2>1, <2>2, <2>3, JobFacts, OutboxAssumption, PolicyAssumption
       DEF RecordOutboxOutcome, RecordDeliveryOutcome, OutboxCall, Updated, Typed, EffectRecords, NoEffects, AnswerStays, DeliveryOutcomes
  <2>9. /\ jobs'[t].stage \notin FactStages
        /\ jobs'[t].revision = jobs[t].revision /\ jobs'[t].generation = jobs[t].generation
        /\ jobs'[t].stage \notin {"idle", "error", "done"} =>
             /\ StateAt(jobs'[t].stage, jobs'[t]) = StateAt(jobs[t].stage, jobs[t])
             /\ LearntAt(jobs'[t].stage, jobs'[t])
             /\ jobs'[t].delivery \in ProvenOutcomes => effects'[t].answer = jobs'[t].delivery
    BY <1>5, <2>1, <2>2, <2>3, JobFacts, OutboxAssumption
       DEF RecordOutboxOutcome, RecordDeliveryOutcome, OutboxCall, Updated, Typed, EffectRecords, DeliveryOutcomes, JobTyped
  <2> QED
    BY <2>1, <2>3, <2>4, <2>5, <2>6, <2>7, <2>8, <2>9, LocalStepHolds
<1>6. CASE RecordOutboxUnknown(t)
  <2> DEFINE job == AfterRecord(jobs[t], RecordDeliveryOutcomeKind(t, "outcome-unknown"), "unknown-fact")
  <2>1. Working(t) /\ Only(t, job)
    BY <1>6 DEF RecordOutboxUnknown, RecordDeliveryOutcome, OutboxCall, Working
  <2>2. \/ Updated(job, jobs[t], "unknown-fact", jobs[t].llm, jobs[t].delivery, jobs[t].checkpoint)
        \/ Updated(job, jobs[t], "error", jobs[t].llm, jobs[t].delivery, jobs[t].checkpoint)
    BY <2>1, JobFacts, JobUpdates DEF AfterRecord
  <2> HIDE DEF job
  <2>3. jobs'[t] = job /\ jobs' = [jobs EXCEPT ![t] = jobs'[t]] /\ Typed
    BY <2>1, JobFacts DEF Only, Typed
  <2>4. UNCHANGED <<turns, sequenceCounters, generation, policy>>
    BY <1>6 DEF RecordOutboxUnknown, RecordDeliveryOutcome, OutboxCall
  <2>5. /\ effects' = [effects EXCEPT ![t] = effects'[t]]
        /\ outboxOutcomes' = [outboxOutcomes EXCEPT ![t] = outboxOutcomes'[t]]
        /\ auditStarts' = [auditStarts EXCEPT ![t] = auditStarts'[t]]
    BY <1>6, <2>3 DEF RecordOutboxUnknown, RecordDeliveryOutcome, OutboxCall, Typed
  <2>6. RecordsTyped(t)
    <3>1. /\ effects'[t] \in EffectRecords
          /\ outboxOutcomes'[t] \in DeliveryOutcomes \cup {None}
          /\ auditStarts'[t] \in PolicyVersions \cup {None}
      BY <1>6, <2>1, <2>3, JobFacts DEF RecordOutboxUnknown, RecordDeliveryOutcome, OutboxCall, Typed, EffectRecords, NoEffects, DeliveryOutcomes, JobTyped
    <3> QED
      BY <2>1, <2>2, <2>3, <2>4, <3>1, JobFacts DEF RecordsTyped, Updated
  <2>7. RowInv(t)'
    BY <1>6, <2>1, <2>2, <2>3, JobFacts, OutboxAssumption, PolicyAssumption
       DEF RecordOutboxUnknown, RecordDeliveryOutcome, OutboxCall, Typed, EffectRecords, NoEffects, RowInv, Present, Settled, DeliveryOutcomes, SettledDeliveries, DeliveryStates
  <2>8. /\ AnswerStays(t)
        /\ effects'[t].delivery = 1 => effects'[t].llm = 1
        /\ effects'[t].answer # None => effects'[t].delivery = 1
        /\ EffectsAt(t, jobs[t].stage)'
    BY <1>6, <2>1, <2>2, <2>3, JobFacts, OutboxAssumption, PolicyAssumption
       DEF RecordOutboxUnknown, RecordDeliveryOutcome, OutboxCall, Updated, Typed, EffectRecords, NoEffects, AnswerStays, DeliveryOutcomes
  <2>9. /\ jobs'[t].stage \notin FactStages
        /\ jobs'[t].revision = jobs[t].revision /\ jobs'[t].generation = jobs[t].generation
        /\ jobs'[t].stage \notin {"idle", "error", "done"} =>
             /\ StateAt(jobs'[t].stage, jobs'[t]) = StateAt(jobs[t].stage, jobs[t])
             /\ LearntAt(jobs'[t].stage, jobs'[t])
             /\ jobs'[t].delivery \in ProvenOutcomes => effects'[t].answer = jobs'[t].delivery
    BY <1>6, <2>1, <2>2, <2>3, JobFacts, OutboxAssumption
       DEF RecordOutboxUnknown, RecordDeliveryOutcome, OutboxCall, Updated, Typed, EffectRecords, DeliveryOutcomes, JobTyped
  <2> QED
    BY <2>1, <2>3, <2>4, <2>5, <2>6, <2>7, <2>8, <2>9, LocalStepHolds
<1> QED
  BY <1>1, <1>2, <1>3, <1>4, <1>5, <1>6

\* A step of the job of a turn: of the pipeline, of its deadline, or of a port that fails.
LEMMA JobHolds ==
    ASSUME RuntimeInv, NEW t \in Turns, JobStep(t)
    PROVE  RuntimeInv'
<1>1. OthersAlone
  BY DEF JobStep, OthersAlone
<1>2. CASE TextTurnStep(t)
  BY <1>1, <1>2, MovesHold, FactWritesHold, QuietStepsHold, TellingStepsHold DEF TextTurnStep
<1>3. CASE PhaseFails(t) \/ Deadline(t)
  BY <1>1, <1>3, QuietStepsHold
<1> QED
  BY <1>2, <1>3 DEF JobStep

----------------------------------------------------------------------------
\* The steps of recovery.  The jobs it runs beside are stale: they cannot believe
\* they hold the revision recovery advances.

\* The locals of recovery at another stage.
Recovered(new, old, stage, revision, at, delivery, checkpoint) ==
    /\ RecoveryRecord(new)
    /\ new.stage = stage /\ new.revision = revision /\ new.at = at
    /\ new.delivery = delivery /\ new.checkpoint = checkpoint
    /\ new.rows = old.rows /\ new.turn = old.turn /\ new.row = old.row

\* Recovery goes to another stage with what it knows.
RecoveryTo(new, old, stage) ==
    Recovered(new, old, stage, old.revision, old.at, old.delivery, old.checkpoint)

LEMMA RecoveryUpdates ==
    ASSUME NEW local, RecoveryRecord(local), NEW stage \in RecoveryStages
    PROVE  /\ RecoveryTo([local EXCEPT !.stage = stage], local, stage)
           /\ \A n \in Nat : Recovered([local EXCEPT !.stage = stage, !.revision = n], local, stage,
                                       n, local.at, local.delivery, local.checkpoint)
           /\ \A at \in TurnStates : Recovered([local EXCEPT !.at = at], local, local.stage,
                                               local.revision, at, local.delivery, local.checkpoint)
           /\ \A loaded : RecoveryTo([local EXCEPT !.stage = stage, !.loaded = loaded], local, stage)
           /\ \A n \in Nat : RecoveryTo([local EXCEPT !.stage = stage, !.attempts = n], local, stage)
           /\ \A reason : RecoveryTo([local EXCEPT !.stage = stage, !.reason = reason], local, stage)
           /\ \A checkpoint \in CheckpointStatuses :
                Recovered([local EXCEPT !.checkpoint = checkpoint], local, local.stage,
                          local.revision, local.at, local.delivery, checkpoint)
           /\ \A delivery \in SettledDeliveries :
                Recovered([local EXCEPT !.stage = stage, !.delivery = delivery], local, stage,
                          local.revision, local.at, delivery, local.checkpoint)
<1> USE DEF RecoveryRecord, Recovered, RecoveryTo
<1>1. RecoveryTo([local EXCEPT !.stage = stage], local, stage)
  OBVIOUS
<1>2. \A n \in Nat : Recovered([local EXCEPT !.stage = stage, !.revision = n], local, stage,
                               n, local.at, local.delivery, local.checkpoint)
  OBVIOUS
<1>3. \A at \in TurnStates : Recovered([local EXCEPT !.at = at], local, local.stage,
                                       local.revision, at, local.delivery, local.checkpoint)
  OBVIOUS
<1>4. \A loaded : RecoveryTo([local EXCEPT !.stage = stage, !.loaded = loaded], local, stage)
  OBVIOUS
<1>5. \A n \in Nat : RecoveryTo([local EXCEPT !.stage = stage, !.attempts = n], local, stage)
  OBVIOUS
<1>6. \A reason : RecoveryTo([local EXCEPT !.stage = stage, !.reason = reason], local, stage)
  OBVIOUS
<1>7. \A checkpoint \in CheckpointStatuses :
        Recovered([local EXCEPT !.checkpoint = checkpoint], local, local.stage,
                  local.revision, local.at, local.delivery, checkpoint)
  OBVIOUS
<1>8. \A delivery \in SettledDeliveries :
        Recovered([local EXCEPT !.stage = stage, !.delivery = delivery], local, stage,
                  local.revision, local.at, delivery, local.checkpoint)
  OBVIOUS
<1> HIDE DEF RecoveryRecord, Recovered, RecoveryTo
<1> QED
  BY <1>1, <1>2, <1>3, <1>4, <1>5, <1>6, <1>7, <1>8

\* What a move of the ledger leaves of recovery.
LEMMA RecoveryLeftBy ==
    ASSUME RecoveryRecord(recovery), NEW kind, kind \notin {"recorded", "already-recorded"}, NEW to \in TurnStates,
           NEW stage \in RecoveryStages, recovery' = [AfterLedger(recovery, kind, stage) EXCEPT !.at = to]
    PROVE  /\ kind = "transitioned" => Recovered(recovery', recovery, stage, recovery.revision + 1, to,
                                                 recovery.delivery, recovery.checkpoint)
           /\ kind = "already-transitioned" => Recovered(recovery', recovery, stage, recovery.revision, to,
                                                         recovery.delivery, recovery.checkpoint)
           /\ kind \notin {"transitioned", "already-transitioned"} =>
                Recovered(recovery', recovery, "error", recovery.revision, to, recovery.delivery, recovery.checkpoint)
<1> DEFINE after == AfterLedger(recovery, kind, stage)
<1>1. recovery.revision + 1 \in Nat /\ "error" \in RecoveryStages
  BY DEF RecoveryRecord, RecoveryStages
<1>2. /\ kind = "transitioned" => Recovered(after, recovery, stage, recovery.revision + 1, recovery.at,
                                            recovery.delivery, recovery.checkpoint)
      /\ kind = "already-transitioned" => RecoveryTo(after, recovery, stage)
      /\ kind \notin {"transitioned", "already-transitioned"} => RecoveryTo(after, recovery, "error")
  BY <1>1, RecoveryUpdates DEF AfterLedger
<1> HIDE DEF after
<1>3. RecoveryRecord(after)
  BY <1>2 DEF Recovered, RecoveryTo
<1>4. Recovered(recovery', after, after.stage, after.revision, to, after.delivery, after.checkpoint)
  BY <1>3, RecoveryUpdates DEF after
<1> QED
  BY <1>2, <1>4 DEF Recovered, RecoveryTo

\* What every step of recovery leaves alone.
RecoveryFrame ==
    UNCHANGED <<jobs, submissions, effects, auditStarts, generation, draining, policy, lifecycle, closing, sequenceCounters>>

\* While recovery is active, the jobs are stale and no submission is on its way.
LEMMA RecoveryIsAlone ==
    ASSUME RuntimeInv, recovery.stage # "idle", NEW u \in Turns
    PROVE  /\ Working(u) => draining /\ jobs[u].generation < generation /\ jobs[u].generation # generation
           /\ draining \/ submissions[u].stage \in {"none", "ended"}
<1>1. draining \/ NoWork
  BY DEF RuntimeInv, ProcessInv
<1>2. TurnInv(u) /\ JobTyped(jobs[u]) /\ generation \in Nat /\ jobs[u].generation \in Nat
  BY DEF RuntimeInv, Typed, JobTyped
<1>3. Working(u) => draining /\ jobs[u].generation < generation
  BY <1>1, <1>2 DEF NoWork, Working, TurnInv, JobInv
<1>4. draining \/ submissions[u].stage \in {"none", "ended"}
  BY <1>1 DEF NoWork
<1> QED
  BY <1>2, <1>3, <1>4

LEMMA StaleTurnKeeps ==
    ASSUME RuntimeInv, recovery.stage # "idle", RecoveryFrame, NEW u \in Turns, RowAdvances(u), RowInv(u)',
           turns'[u] \in Rows
    PROVE  TurnInv(u)'
<1>1. /\ TurnInv(u) /\ JobTyped(jobs[u]) /\ turns[u].revision \in Nat /\ jobs[u].revision \in Nat
      /\ generation \in Nat /\ jobs[u].generation \in Nat
  BY ConstantsAssumption DEF RuntimeInv, Typed, JobTyped, Rows
<1>2. EffectsInv(u)'
  BY <1>1 DEF TurnInv, EffectsInv, EffectsAt, RecoveryFrame
<1>3. JobInv(u)'
  <2> SUFFICES ASSUME Working(u)
               PROVE  JobInv(u)'
    BY DEF JobInv, Working, RecoveryFrame
  <2>1. draining /\ jobs[u].generation < generation /\ jobs[u].generation # generation
    BY RecoveryIsAlone
  <2>2. jobs[u].revision <= turns[u].revision
    BY <1>1 DEF TurnInv, JobInv
  <2>3. /\ jobs[u].revision <= turns'[u].revision
        /\ jobs[u].revision = turns'[u].revision =>
             jobs[u].revision = turns[u].revision /\ turns'[u] = turns[u]
    BY <1>1, <2>2 DEF RowAdvances
  <2> QED
    BY <1>1, <2>1, <2>3 DEF TurnInv, JobInv, Working, GenerationCurrent, RecoveryFrame
<1>4. SubmissionInv(u)'
  BY <1>1, RecoveryIsAlone DEF SubmissionInv, RecoveryFrame
<1> QED
  BY <1>2, <1>3, <1>4 DEF TurnInv

LEMMA RecoveryStepHolds ==
    ASSUME RuntimeInv, recovery.stage # "idle", RecoveryFrame,
           turns' \in [Turns -> Rows], outboxOutcomes' \in [Turns -> DeliveryOutcomes \cup {None}],
           \A u \in Turns : RowAdvances(u) /\ RowInv(u)',
           RecoveryRecord(recovery'), DOMAIN recovery'.rows \subseteq Turns,
           \A u \in DOMAIN recovery'.rows : recovery'.rows[u] \in Rows /\ ListedInv(u)',
           CandidateInv'
    PROVE  RuntimeInv'
<1>1. Typed'
  <2>1. RecoveryTyped'
    BY DEF RecoveryTyped, RecoveryRecord
  <2> QED
    BY <2>1 DEF RuntimeInv, Typed, RecoveryFrame, JobTyped
<1>2. \A u \in Turns : TurnInv(u)'
  BY StaleTurnKeeps
<1>3. OneTurnPerTransportEvent'
  BY KeysStay DEF RuntimeInv
<1>4. ProcessInv'
  BY DEF RuntimeInv, ProcessInv, NoWork, RecoveryFrame
<1> QED
  BY <1>1, <1>2, <1>3, <1>4 DEF RuntimeInv, RecoveryInv

\* A step that moves or tells at most the row of the candidate keeps the listed rows.
LEMMA ListedKeep ==
    ASSUME RuntimeInv, UNCHANGED effects, \A u \in Turns : RowAdvances(u), turns' \in [Turns -> Rows],
           recovery'.rows = recovery.rows, NEW u \in DOMAIN recovery.rows
    PROVE  recovery'.rows[u] \in Rows /\ ListedInv(u)'
<1> DEFINE row == recovery.rows[u]
<1>1. u \in Turns /\ row \in Rows /\ row.revision \in Nat /\ turns[u].revision \in Nat
  BY ConstantsAssumption DEF RuntimeInv, Typed, RecoveryTyped, Rows
<1>2. recovery'.rows[u] = row
  OBVIOUS
<1>3. /\ row.state \notin {"absent", "completed"}
      /\ row.revision <= turns[u].revision
      /\ row.revision = turns[u].revision => row.state = turns[u].state
      /\ row.state = "delivered" => effects[u].answer = "delivered"
      /\ row.state = "delivery_failed" => effects[u].answer = "known-failure"
  BY DEF RuntimeInv, RecoveryInv, ListedInv
<1> HIDE DEF row
<1>4. row.revision <= turns'[u].revision /\ (row.revision = turns'[u].revision => row.state = turns'[u].state)
  BY <1>1, <1>3 DEF RowAdvances
<1> QED
  BY <1>1, <1>2, <1>3, <1>4 DEF ListedInv

\* A step of recovery leaves the other actors alone.
WorkAlone == UNCHANGED <<jobs, dispatcherVars, orchestratorVars, boundVars>>

\* What is known while recovery works on a candidate.
LEMMA CandidateFacts ==
    ASSUME RuntimeInv, AtCandidate
    PROVE  /\ Typed /\ recovery.stage # "idle" /\ Candidate \in Turns /\ recovery.turn = Candidate
           /\ RowInv(Candidate) /\ turns[Candidate] \in Rows /\ turns[Candidate].revision \in Nat
           /\ RecoveryRecord(recovery) /\ DOMAIN recovery.rows \subseteq Turns
           /\ recovery.revision \in Nat /\ recovery.revision <= turns[Candidate].revision
           /\ recovery.revision = turns[Candidate].revision => turns[Candidate].state = recovery.at
           /\ recovery.at \in TurnStates \ {"completed"} /\ recovery.at # "absent" /\ recovery.checkpoint \in CheckpointStatuses
           /\ recovery.delivery \in SettledDeliveries \cup {None}
           /\ recovery.delivery = "delivered" => effects[Candidate].answer = "delivered"
           /\ recovery.delivery = "failed" => effects[Candidate].answer = "known-failure"
           /\ recovery.stage \in {"llm-fact", "llm-cancel"} => recovery.at = "llm_started" /\ recovery.delivery = None
           /\ recovery.stage \in {"read-outbox", "tombstone", "delivery-fact", "delivery-move"} =>
                recovery.at = "delivery_started"
           /\ recovery.stage \in {"tombstone", "delivery-fact", "delivery-move", "assess", "reconcile",
                                  "completion-fact"} => recovery.delivery # None
           /\ recovery.stage \in {"assess", "barrier-load", "barrier-write", "reconcile", "completion-fact"}
                /\ recovery.delivery # None => recovery.at \in EndedDelivery
           /\ recovery.stage = "delivery-move" /\ recovery.revision = turns[Candidate].revision =>
                turns[Candidate].facts.delivery = recovery.delivery
<1>1. Typed /\ CandidateInv /\ recovery.stage # "idle"
  BY DEF RuntimeInv, RecoveryInv, AtCandidate
<1>2. Candidate \in Turns
  BY <1>1 DEF CandidateInv
<1>3. TurnInv(Candidate) /\ turns[Candidate] \in Rows /\ turns[Candidate].revision \in Nat
  BY <1>2, ConstantsAssumption DEF RuntimeInv, Typed, Rows
<1>4. /\ RecoveryRecord(recovery) /\ DOMAIN recovery.rows \subseteq Turns
      /\ recovery.revision \in Nat /\ recovery.at \in TurnStates \cup {"absent"}
      /\ recovery.delivery \in SettledDeliveries \cup {None}
  BY <1>1 DEF Typed, RecoveryTyped, RecoveryRecord
<1> QED
  BY <1>1, <1>2, <1>3, <1>4 DEF CandidateInv, TurnInv, Candidate

\* The rows recovery does not work on keep their place, and what they say.
LEMMA OtherRowsKeep ==
    ASSUME RuntimeInv, NEW t \in Turns, turns' = [turns EXCEPT ![t] = turns'[t]],
           RowInv(t)', RowAdvances(t), UNCHANGED <<effects, auditStarts>>,
           outboxOutcomes' = [outboxOutcomes EXCEPT ![t] = outboxOutcomes'[t]]
    PROVE  \A u \in Turns : RowAdvances(u) /\ RowInv(u)'
<1> SUFFICES ASSUME NEW u \in Turns, u # t
             PROVE  RowAdvances(u) /\ RowInv(u)'
  OBVIOUS
<1>1. turns'[u] = turns[u] /\ outboxOutcomes'[u] = outboxOutcomes[u]
  BY DEF RuntimeInv, Typed
<1>2. RowInv(u)
  BY DEF RuntimeInv, TurnInv
<1> QED
  BY <1>1, <1>2 DEF RowInv, RowAdvances, Present, Settled

\* What recovery believes at a stage whose beliefs are all in its locals.
BelievesAt(stage, at, delivery, checkpoint) ==
    /\ at \notin {"absent", "completed"} /\ checkpoint \in CheckpointStatuses
    /\ stage \in {"llm-fact", "llm-cancel"} => at = "llm_started" /\ delivery = None
    /\ stage \in {"read-outbox", "tombstone", "delivery-fact", "delivery-move"} => at = "delivery_started"
    /\ stage \in {"tombstone", "delivery-fact", "delivery-move", "assess", "reconcile", "completion-fact"} =>
         delivery # None
    /\ stage \in {"assess", "barrier-load", "barrier-write", "reconcile", "completion-fact"} /\ delivery # None =>
         at \in EndedDelivery

LEMMA NewBeliefs ==
    ASSUME NEW stage, NEW revision, NEW at, NEW delivery, NEW checkpoint,
           Recovered(recovery', recovery, stage, revision, at, delivery, checkpoint), Candidate \in Turns,
           stage \notin {"idle", "list", "pick", "error", "done"} =>
             /\ revision <= turns'[Candidate].revision
             /\ revision = turns'[Candidate].revision => turns'[Candidate].state = at
             /\ delivery = "delivered" => effects'[Candidate].answer = "delivered"
             /\ delivery = "failed" => effects'[Candidate].answer = "known-failure"
             /\ BelievesAt(stage, at, delivery, checkpoint)
             /\ stage = "delivery-move" /\ revision = turns'[Candidate].revision =>
                  turns'[Candidate].facts.delivery = delivery
    PROVE  CandidateInv'
  BY DEF CandidateInv, AtCandidate, Candidate, Recovered, BelievesAt

\* A move of the candidate to a state recovery may give it.
RecoveryMoveFits(to, stage) ==
    /\ stage \in {"pick", "complete", "barrier-load", "assess"}
    /\ to \in {"cancelled", "completed"} \cup EndedDelivery
    /\ stage # "pick" => BelievesAt(stage, to, recovery.delivery, recovery.checkpoint)
    /\ to \in EndedDelivery /\ recovery.revision = turns[Candidate].revision => Settled(Candidate)
    /\ to = "delivered" => effects[Candidate].answer = "delivered"
    /\ to = "delivery_failed" => effects[Candidate].answer = "known-failure"

LEMMA RecoveryMoveHolds ==
    ASSUME RuntimeInv, AtCandidate, WorkAlone, NEW from \in TurnStates, NEW to \in TurnStates, NEW stage,
           RecoveryMove(from, to, stage), RecoveryMoveFits(to, stage)
    PROVE  RuntimeInv'
<1>0. PICK t \in Turns : t = Candidate
  BY CandidateFacts
<1> DEFINE kind == TransitionOutcome(t, recovery.revision, from, to)
<1>1. t \in Turns /\ Typed /\ turns[t].revision \in Nat /\ recovery.revision \in Nat /\ turns \in [Turns -> Rows]
  BY <1>0, CandidateFacts DEF Typed
<1>2. /\ Transition(t, recovery.revision, from, to)
      /\ recovery' = [AfterLedger(recovery, kind, stage) EXCEPT !.at = to]
      /\ UNCHANGED <<conversationVars, outboxVars, auditVars, generation, sideEffects, policy, effects, faults>>
  BY <1>0 DEF RecoveryMove, LedgerCall, NoEffect
<1> HIDE DEF kind
<1>3. /\ sequenceCounters' = sequenceCounters
      /\ \/ /\ kind = "transitioned" /\ turns[t].revision = recovery.revision /\ turns[t].state = from
            /\ to \in LegalTransitions[from] /\ RowMoved(t, to)
         \/ kind = "already-transitioned" /\ turns[t].state = to /\ turns' = turns
         \/ /\ kind \notin {"transitioned", "already-transitioned", "recorded", "already-recorded"}
            /\ turns' = turns
  BY <1>1, <1>2, TransitionEffect DEF kind
<1>4. RecoveryFrame /\ UNCHANGED outboxOutcomes
  BY <1>2, <1>3 DEF RecoveryFrame, WorkAlone, dispatcherVars, orchestratorVars, auditVars, outboxVars
<1>5. RowInv(t)' /\ RowAdvances(t) /\ turns' = [turns EXCEPT ![t] = turns'[t]] /\ turns' \in [Turns -> Rows]
  <2>1. CASE turns' = turns
    BY <1>0, <1>1, <1>4, <2>1, CandidateFacts DEF RowInv, Present, Settled, RowAdvances, RecoveryFrame
  <2>2. CASE turns[t].revision = recovery.revision /\ turns[t].state = from /\ to \in LegalTransitions[from]
             /\ RowMoved(t, to)
    <3>1. to \in AskedStates => effects[t].llm = 1
      BY <1>0, <2>2, CandidateFacts, DeliveryMoves
         DEF RecoveryMoveFits, RowInv, AskedStates, DeliveryStates, EndedDelivery
    <3>2. RowInv(t) /\ (to \in EndedDelivery => Settled(t))
      BY <1>0, <2>2, CandidateFacts DEF RecoveryMoveFits
    <3> QED
      BY <1>0, <1>1, <1>4, <2>2, <3>1, <3>2, RowMoveHolds DEF RowMoved, RecoveryMoveFits, RecoveryFrame
  <2> QED
    BY <1>3, <2>1, <2>2
<1>6. \A u \in Turns : RowAdvances(u) /\ RowInv(u)'
  BY <1>1, <1>4, <1>5, OtherRowsKeep DEF RecoveryFrame, RuntimeInv, Typed
<1>7. /\ kind = "transitioned" => Recovered(recovery', recovery, stage, recovery.revision + 1, to,
                                            recovery.delivery, recovery.checkpoint)
      /\ kind = "already-transitioned" => Recovered(recovery', recovery, stage, recovery.revision, to,
                                                    recovery.delivery, recovery.checkpoint)
      /\ kind \notin {"transitioned", "already-transitioned", "recorded", "already-recorded"} =>
           Recovered(recovery', recovery, "error", recovery.revision, to, recovery.delivery, recovery.checkpoint)
  <2>1. RecoveryRecord(recovery) /\ stage \in RecoveryStages
    BY CandidateFacts DEF RecoveryMoveFits, RecoveryStages
  <2>2. kind \notin {"recorded", "already-recorded"}
    BY <1>3
  <2> QED
    BY <1>2, <2>1, <2>2, RecoveryLeftBy
<1>8. CandidateInv'
  <2>1. CASE kind = "transitioned"
    BY <1>0, <1>1, <1>2, <1>3, <1>7, <2>1, CandidateFacts, NewBeliefs DEF RecoveryMoveFits, RowMoved
  <2>2. CASE kind = "already-transitioned"
    BY <1>0, <1>1, <1>2, <1>3, <1>7, <2>2, CandidateFacts, NewBeliefs DEF RecoveryMoveFits
  <2>3. CASE kind \notin {"transitioned", "already-transitioned", "recorded", "already-recorded"}
    BY <1>0, <1>1, <1>7, <2>3, NewBeliefs
  <2> QED
    BY <1>3, <2>1, <2>2, <2>3
<1>9. RecoveryRecord(recovery') /\ recovery'.rows = recovery.rows
  BY <1>3, <1>7 DEF Recovered
<1>10. \A u \in DOMAIN recovery'.rows : recovery'.rows[u] \in Rows /\ ListedInv(u)'
  BY <1>5, <1>6, <1>9, <1>4, ListedKeep DEF RecoveryFrame
<1> QED
  BY <1>1, <1>4, <1>5, <1>6, <1>8, <1>9, <1>10, CandidateFacts, RecoveryStepHolds DEF Typed

\* Facts recovery may write of its candidate.
RecoveryFactsFit(facts, stage) ==
    /\ stage \in {"llm-cancel", "delivery-move", "complete"}
    /\ BelievesAt(stage, recovery.at, recovery.delivery, recovery.checkpoint)
    /\ facts.delivery \in SettledDeliveries \cup {"not_started"}
    /\ facts.delivery \in SettledDeliveries => recovery.at \in DeliveryStates
    /\ facts.delivery = "not_started" => recovery.at \notin EndedDelivery \cup {"completed"}
    /\ facts.delivery = "delivered" => effects[Candidate].answer = "delivered"
    /\ facts.delivery = "failed" => effects[Candidate].answer = "known-failure"
    /\ stage = "delivery-move" => facts.delivery = recovery.delivery

LEMMA RecoveryFactsHold ==
    ASSUME RuntimeInv, AtCandidate, WorkAlone, NEW facts \in Facts, NEW stage,
           RecoveryFacts(facts, stage), RecoveryFactsFit(facts, stage)
    PROVE  RuntimeInv'
<1>0. PICK t \in Turns : t = Candidate
  BY CandidateFacts
<1> DEFINE kind == RecordFactualOutcomeKind(t, recovery.revision, facts)
<1>1. t \in Turns /\ Typed /\ turns[t].revision \in Nat /\ recovery.revision \in Nat /\ turns \in [Turns -> Rows]
  BY <1>0, CandidateFacts DEF Typed
<1>2. /\ RecordFactualOutcome(t, recovery.revision, facts)
      /\ recovery' = AfterLedger(recovery, kind, stage)
      /\ UNCHANGED <<conversationVars, outboxVars, auditVars, generation, sideEffects, policy, effects, faults>>
  BY <1>0 DEF RecoveryFacts, LedgerCall, NoEffect
<1> HIDE DEF kind
<1>3. /\ sequenceCounters' = sequenceCounters
      /\ \/ /\ kind = "recorded" /\ Present(t) /\ turns[t].revision = recovery.revision /\ RowTold(t, facts)
         \/ /\ kind = "already-recorded" /\ turns[t].revision = recovery.revision /\ turns[t].facts = facts
            /\ turns' = turns
         \/ /\ kind \notin {"transitioned", "already-transitioned", "recorded", "already-recorded"}
            /\ turns' = turns
  BY <1>1, <1>2, FactsEffect DEF kind
<1>4. RecoveryFrame /\ UNCHANGED outboxOutcomes
  BY <1>2, <1>3 DEF RecoveryFrame, WorkAlone, dispatcherVars, orchestratorVars, auditVars, outboxVars
<1>5. RowInv(t)' /\ RowAdvances(t) /\ turns' = [turns EXCEPT ![t] = turns'[t]] /\ turns' \in [Turns -> Rows]
  <2>1. CASE turns' = turns
    BY <1>0, <1>1, <1>4, <2>1, CandidateFacts DEF RowInv, Present, Settled, RowAdvances, RecoveryFrame
  <2>2. CASE Present(t) /\ turns[t].revision = recovery.revision /\ RowTold(t, facts)
    <3>1. RowInv(t) /\ turns[t].state = recovery.at
      BY <1>0, <2>2, CandidateFacts
    <3> QED
      BY <1>0, <1>1, <1>4, <2>2, <3>1, RowToldHolds DEF RowTold, RecoveryFactsFit, RecoveryFrame
  <2> QED
    BY <1>3, <2>1, <2>2
<1>6. \A u \in Turns : RowAdvances(u) /\ RowInv(u)'
  BY <1>1, <1>4, <1>5, OtherRowsKeep DEF RecoveryFrame, RuntimeInv, Typed
<1>7. /\ kind = "recorded" => Recovered(recovery', recovery, stage, recovery.revision + 1, recovery.at,
                                        recovery.delivery, recovery.checkpoint)
      /\ kind = "already-recorded" => RecoveryTo(recovery', recovery, stage)
      /\ kind \notin {"transitioned", "already-transitioned", "recorded", "already-recorded"} =>
           RecoveryTo(recovery', recovery, "error")
  <2>1. RecoveryRecord(recovery) /\ recovery.revision + 1 \in Nat /\ stage \in RecoveryStages /\ "error" \in RecoveryStages
    BY CandidateFacts DEF RecoveryFactsFit, RecoveryStages
  <2> QED
    BY <1>2, <2>1, RecoveryUpdates DEF AfterLedger
<1>8. CandidateInv'
  <2>1. CASE kind = "recorded"
    BY <1>0, <1>1, <1>2, <1>3, <1>7, <2>1, CandidateFacts, NewBeliefs DEF RecoveryFactsFit, RowTold
  <2>2. CASE kind = "already-recorded"
    BY <1>0, <1>1, <1>2, <1>3, <1>7, <2>2, CandidateFacts, NewBeliefs DEF RecoveryFactsFit, RecoveryTo
  <2>3. CASE kind \notin {"transitioned", "already-transitioned", "recorded", "already-recorded"}
    BY <1>0, <1>1, <1>7, <2>3, NewBeliefs DEF RecoveryTo
  <2> QED
    BY <1>3, <2>1, <2>2, <2>3
<1>9. RecoveryRecord(recovery') /\ recovery'.rows = recovery.rows
  BY <1>3, <1>7 DEF Recovered, RecoveryTo
<1>10. \A u \in DOMAIN recovery'.rows : recovery'.rows[u] \in Rows /\ ListedInv(u)'
  BY <1>5, <1>6, <1>9, <1>4, ListedKeep DEF RecoveryFrame
<1> QED
  BY <1>1, <1>4, <1>5, <1>6, <1>8, <1>9, <1>10, CandidateFacts, RecoveryStepHolds DEF Typed

\* A step of recovery that leaves the rows alone, and goes to what it has learnt.
LEMMA RecoveryGoesOn ==
    ASSUME RuntimeInv, AtCandidate, WorkAlone,
           UNCHANGED <<turns, sequenceCounters, effects, auditStarts, generation, policy>>,
           outboxOutcomes' \in [Turns -> DeliveryOutcomes \cup {None}],
           \A u \in Turns : outboxOutcomes'[u] = outboxOutcomes[u] \/ outboxOutcomes'[u] = "outcome-unknown",
           NEW stage, NEW delivery, NEW checkpoint, stage # "delivery-move",
           Recovered(recovery', recovery, stage, recovery.revision, recovery.at, delivery, checkpoint),
           stage \notin {"pick", "error"} =>
             /\ BelievesAt(stage, recovery.at, delivery, checkpoint)
             /\ delivery = "delivered" => effects[Candidate].answer = "delivered"
             /\ delivery = "failed" => effects[Candidate].answer = "known-failure"
    PROVE  RuntimeInv'
<1>1. RecoveryFrame
  BY DEF RecoveryFrame, WorkAlone, dispatcherVars, orchestratorVars
<1>2. \A u \in Turns : RowAdvances(u) /\ RowInv(u)'
  <2> SUFFICES ASSUME NEW u \in Turns
               PROVE  RowInv(u)'
    BY DEF RowAdvances
  <2>1. RowInv(u)
    BY DEF RuntimeInv, TurnInv
  <2> QED
    BY <2>1 DEF RowInv, Present, Settled, ProvenOutcomes
<1>3. CandidateInv'
  BY CandidateFacts, NewBeliefs
<1>4. RecoveryRecord(recovery') /\ recovery'.rows = recovery.rows
  BY DEF Recovered
<1>5. \A u \in DOMAIN recovery'.rows : recovery'.rows[u] \in Rows /\ ListedInv(u)'
  BY <1>2, <1>4, ListedKeep DEF RuntimeInv, Typed
<1>6. turns' \in [Turns -> Rows]
  BY DEF RuntimeInv, Typed
<1> QED
  BY <1>1, <1>2, <1>3, <1>4, <1>5, <1>6, CandidateFacts, RecoveryStepHolds

----------------------------------------------------------------------------
\* The steps of recovery, one by one.
LEMMA RecoveryMovesHold ==
    ASSUME RuntimeInv, WorkAlone,
           CancelCandidate \/ CompleteCandidate \/ RecoverLlmCancel \/ RecoverDeliveryMove
    PROVE  RuntimeInv'
<1> USE DEF Recovering, BelievesAt, RecoveryMoveFits, EndedDelivery, SettledDeliveries
<1>1. AtCandidate
  BY DEF CancelCandidate, CompleteCandidate, RecoverLlmCancel, RecoverDeliveryMove, AtCandidate
<1>2. CASE CancelCandidate
  <2>1. RecoveryMove(recovery.at, "cancelled", "complete") /\ RecoveryMoveFits("cancelled", "complete")
    BY <1>1, <1>2, CandidateFacts DEF CancelCandidate
  <2> QED
    BY <1>1, <2>1, CandidateFacts, RecoveryMoveHolds DEF TurnStates
<1>3. CASE CompleteCandidate
  <2>1. RecoveryMove(recovery.at, "completed", "pick") /\ RecoveryMoveFits("completed", "pick")
    BY <1>1, <1>3, CandidateFacts DEF CompleteCandidate
  <2> QED
    BY <1>1, <2>1, CandidateFacts, RecoveryMoveHolds DEF TurnStates
<1>4. CASE RecoverLlmCancel
  <2>1. RecoveryMove("llm_started", "cancelled", "barrier-load") /\ RecoveryMoveFits("cancelled", "barrier-load")
    BY <1>1, <1>4, CandidateFacts DEF RecoverLlmCancel
  <2> QED
    BY <1>1, <2>1, RecoveryMoveHolds DEF TurnStates
<1>5. CASE RecoverDeliveryMove
  <2> DEFINE to == CASE recovery.delivery = "delivered" -> "delivered"
                     [] recovery.delivery = "failed" -> "delivery_failed"
                     [] OTHER -> "delivery_outcome_unknown"
  <2>1. RecoveryMove("delivery_started", to, "assess")
    BY <1>5 DEF RecoverDeliveryMove
  <2>2. /\ to \in EndedDelivery /\ to \in TurnStates
        /\ to = "delivered" => recovery.delivery = "delivered"
        /\ to = "delivery_failed" => recovery.delivery = "failed"
    BY DEF TurnStates
  <2> HIDE DEF to
  <2>3. RecoveryMoveFits(to, "assess")
    BY <1>1, <1>5, <2>2, CandidateFacts DEF RecoverDeliveryMove, Settled
  <2> QED
    BY <1>1, <2>1, <2>2, <2>3, RecoveryMoveHolds DEF TurnStates
<1> QED
  BY <1>2, <1>3, <1>4, <1>5

\* The facts of the row recovery works on are of the columns' domains.
LEMMA CandidateRow ==
    ASSUME RuntimeInv, AtCandidate
    PROVE  /\ recovery.row.facts.auditStart \in AuditStartStatuses
           /\ recovery.row.facts.auditCompletion \in AuditCompletionStatuses
           /\ recovery.row.facts.llm \in LlmCompletionOutcomes \cup {None}
<1>1. recovery.row \in Rows
  BY CandidateFacts DEF RecoveryRecord
<1>2. recovery.row.facts \in Facts
  BY <1>1 DEF Rows
<1> QED
  BY <1>2 DEF Facts

LEMMA RecoveryWritesHold ==
    ASSUME RuntimeInv, WorkAlone,
           RecoverLlmFacts \/ RecoverDeliveryFacts \/ ReconcileFailed \/ ReconcileFacts
    PROVE  RuntimeInv'
<1> USE DEF Recovering, BelievesAt, RecoveryFactsFit, EndedDelivery, SettledDeliveries, DeliveryStates
<1>1. AtCandidate
  BY DEF RecoverLlmFacts, RecoverDeliveryFacts, ReconcileFailed, ReconcileFacts, AtCandidate
<1>2. CASE RecoverLlmFacts
  <2> DEFINE facts == FactsOf("outcome-unknown", "not_started", "failed", recovery.row.facts.auditStart,
                              recovery.row.facts.auditCompletion, "LLM_OUTCOME_UNKNOWN")
  <2>1. RecoveryFacts(facts, "llm-cancel")
    BY <1>2 DEF RecoverLlmFacts
  <2>2. facts \in Facts
    BY <1>1, CandidateRow, OwnFacts DEF LlmCompletionOutcomes, DeliveryStatuses, CheckpointStatuses, FactErrorCodes
  <2>3. facts.delivery = "not_started"
    BY DEF FactsOf
  <2> HIDE DEF facts
  <2>4. RecoveryFactsFit(facts, "llm-cancel")
    BY <1>1, <1>2, <2>3, CandidateFacts DEF RecoverLlmFacts
  <2> QED
    BY <1>1, <2>1, <2>2, <2>4, RecoveryFactsHold
<1>3. CASE RecoverDeliveryFacts
  <2> DEFINE error == CASE recovery.delivery = "delivered" -> None
                        [] recovery.delivery = "failed" -> "DELIVERY_FAILED"
                        [] OTHER -> "DELIVERY_OUTCOME_UNKNOWN"
             facts == FactsOf(None, recovery.delivery, recovery.checkpoint, recovery.row.facts.auditStart,
                              recovery.row.facts.auditCompletion, error)
  <2>1. RecoveryFacts(facts, "delivery-move")
    BY <1>3 DEF RecoverDeliveryFacts
  <2>2. error \in FactErrorCodes \cup {None} /\ recovery.delivery \in SettledDeliveries
    BY <1>1, <1>3, CandidateFacts DEF FactErrorCodes, RecoverDeliveryFacts
  <2>3. facts.delivery = recovery.delivery
    BY DEF FactsOf
  <2> HIDE DEF error
  <2>4. facts \in Facts
    BY <1>1, <2>2, CandidateRow, CandidateFacts, OwnFacts DEF DeliveryStatuses
  <2> HIDE DEF facts
  <2>5. RecoveryFactsFit(facts, "delivery-move")
    BY <1>1, <1>3, <2>2, <2>3, CandidateFacts DEF RecoverDeliveryFacts
  <2> QED
    BY <1>1, <2>1, <2>4, <2>5, RecoveryFactsHold
<1>4. CASE ReconcileFailed \/ ReconcileFacts
  <2>1. PICK completion \in AuditCompletionStatuses, error \in FactErrorCodes \cup {None} :
          RecoveryFacts(RecoveredFacts(completion, error), "complete")
    BY <1>4 DEF ReconcileFailed, ReconcileFacts, RecoveredCompletion, AuditCompletionStatuses, FactErrorCodes
  <2> DEFINE facts == RecoveredFacts(completion, error)
  <2>2. recovery.delivery \in SettledDeliveries /\ recovery.at \in EndedDelivery
    BY <1>1, <1>4, CandidateFacts DEF ReconcileFailed, ReconcileFacts
  <2>3. facts.delivery = recovery.delivery
    BY DEF RecoveredFacts, FactsOf
  <2>4. facts \in Facts
    BY <1>1, <2>2, CandidateRow, CandidateFacts, OwnFacts DEF DeliveryStatuses, AuditStartStatuses, RecoveredFacts
  <2> HIDE DEF facts
  <2>5. RecoveryFactsFit(facts, "complete")
    BY <1>1, <2>2, <2>3, CandidateFacts
  <2> QED
    BY <1>1, <2>1, <2>4, <2>5, RecoveryFactsHold DEF facts
<1> QED
  BY <1>2, <1>3, <1>4

\* Where a step of recovery that writes no row goes, and what it takes along.
GoesTo(stage, delivery, checkpoint) ==
    Recovered(recovery', recovery, stage, recovery.revision, recovery.at, delivery, checkpoint)

Keeps(stage) == GoesTo(stage, recovery.delivery, recovery.checkpoint)

AfterBarrier == IF recovery.delivery = None THEN "complete" ELSE "reconcile"

LEMMA OutboxGoes ==
    ASSUME RuntimeInv, AtCandidate, RecoverOutbox
    PROVE  \E stage \in {"tombstone", "delivery-fact"}, delivery \in SettledDeliveries, checkpoint \in CheckpointStatuses :
             /\ GoesTo(stage, delivery, checkpoint)
             /\ delivery = DeliveryOfOutcome(ReadDeliveryOutcome(Candidate))
             /\ delivery = "outcome_unknown" => checkpoint = "failed"
<1> DEFINE outcome == ReadDeliveryOutcome(Candidate)
           delivery == DeliveryOfOutcome(outcome)
           stage == IF outcome \in {"not-recorded", "not-found"} THEN "tombstone" ELSE "delivery-fact"
           checkpoint == IF delivery = "outcome_unknown" THEN "failed"
                         ELSE IF recovery.checkpoint = "not_required" THEN "pending" ELSE recovery.checkpoint
           after == [recovery EXCEPT !.stage = stage, !.delivery = delivery]
<1>1. RecoveryRecord(recovery) /\ recovery.checkpoint \in CheckpointStatuses
  BY CandidateFacts
<1>2. recovery' = [after EXCEPT !.checkpoint = checkpoint]
  BY DEF RecoverOutbox
<1> HIDE DEF outcome
<1>3. delivery \in SettledDeliveries /\ stage \in {"tombstone", "delivery-fact"}
  BY DEF DeliveryOfOutcome, SettledDeliveries
<1> HIDE DEF delivery, stage
<1>4. checkpoint \in CheckpointStatuses /\ (delivery = "outcome_unknown" => checkpoint = "failed")
  BY <1>1 DEF CheckpointStatuses
<1> HIDE DEF checkpoint
<1>5. Recovered(after, recovery, stage, recovery.revision, recovery.at, delivery, recovery.checkpoint)
  BY <1>1, <1>3, RecoveryUpdates DEF RecoveryStages
<1> HIDE DEF after
<1>6. RecoveryRecord(after) /\ "error" \in RecoveryStages
  BY <1>5 DEF Recovered, RecoveryStages
<1>7. Recovered(recovery', after, after.stage, after.revision, after.at, after.delivery, checkpoint)
  BY <1>2, <1>4, <1>6, RecoveryUpdates
<1>8. GoesTo(stage, delivery, checkpoint)
  BY <1>5, <1>7 DEF Recovered, GoesTo
<1> QED
  BY <1>3, <1>8, <1>4 DEF delivery, outcome

LEMMA AssessGoes ==
    ASSUME RuntimeInv, AtCandidate, AssessCheckpoint
    PROVE  \/ Keeps("barrier-load") /\ (recovery.delivery = "outcome_unknown" \/ recovery.checkpoint # "succeeded")
           \/ Keeps("reconcile") /\ recovery.delivery # "outcome_unknown" /\ recovery.checkpoint = "succeeded"
           \/ Keeps("error")
<1>1. /\ \A reason : RecoveryTo(RecoveryBarrier(reason), recovery, "barrier-load")
      /\ RecoveryTo([recovery EXCEPT !.stage = "reconcile"], recovery, "reconcile")
      /\ RecoveryTo([recovery EXCEPT !.stage = "error"], recovery, "error")
  BY CandidateFacts, RecoveryUpdates DEF RecoveryBarrier, RecoveryStages
<1> QED
  BY <1>1 DEF AssessCheckpoint, RecoveryTo, Keeps, GoesTo

LEMMA BarrierGoes ==
    ASSUME RuntimeInv, AtCandidate, RecoverBarrierWrite
    PROVE  \E stage \in {AfterBarrier, "barrier-load", "error"} : GoesTo(stage, recovery.delivery, "failed")
<1> DEFINE kind == BarrierOutcome(CandidateHome,
                     <<IF recovery.delivery = None THEN "llm-outcome-unknown" ELSE recovery.reason, Candidate>>,
                     recovery.loaded.revision)
           after == AfterBarrierWrite(recovery, kind, AfterBarrier)
<1>1. RecoveryRecord(recovery)
  BY CandidateFacts
<1>2. recovery' = [after EXCEPT !.checkpoint = "failed"]
  BY DEF RecoverBarrierWrite, AfterBarrier
<1>3. PICK stage \in {AfterBarrier, "barrier-load", "error"} : RecoveryTo(after, recovery, stage)
  <2>1. recovery.attempts + 1 \in Nat
    BY <1>1 DEF RecoveryRecord
  <2>2. RecoveryTo([recovery EXCEPT !.stage = "barrier-load", !.attempts = @ + 1], recovery, "barrier-load")
    BY <1>1, <2>1, RecoveryUpdates, Zenon DEF RecoveryStages
  <2>3. /\ RecoveryTo([recovery EXCEPT !.stage = AfterBarrier], recovery, AfterBarrier)
        /\ RecoveryTo([recovery EXCEPT !.stage = "error"], recovery, "error")
    BY <1>1, RecoveryUpdates DEF RecoveryStages, AfterBarrier
  <2> QED
    BY <2>2, <2>3 DEF AfterBarrierWrite
<1> HIDE DEF after
<1>4. RecoveryRecord(after) /\ "failed" \in CheckpointStatuses /\ "error" \in RecoveryStages
  BY <1>3 DEF Recovered, RecoveryTo, CheckpointStatuses, RecoveryStages
<1>5. Recovered(recovery', after, after.stage, after.revision, after.at, after.delivery, "failed")
  BY <1>2, <1>4, RecoveryUpdates
<1> QED
  BY <1>3, <1>5 DEF Recovered, RecoveryTo, GoesTo

LEMMA LooksGo ==
    ASSUME RuntimeInv, AtCandidate
    PROVE  /\ RecoverTombstone => Keeps("delivery-fact") \/ Keeps("error")
           /\ RecoverBarrierLoad => Keeps("barrier-write")
           /\ ReconcileContradiction \/ RecoveryFails => Keeps("error")
           /\ ReconcileRecorded => Keeps("complete")
           /\ ReconcileAudit =>
                \/ /\ RecordCompletionKind(Candidate, RecoveredEvent) \in {"recorded", "already-recorded"}
                   /\ Keeps("completion-fact")
                \/ /\ RecordCompletionKind(Candidate, RecoveredEvent) = "rejected"
                   /\ Keeps("error")
<1> USE DEF RecoveryStages, RecoveryTo, Keeps, GoesTo
<1>1. RecoveryRecord(recovery)
  BY CandidateFacts
<1>2. RecoverTombstone => Keeps("delivery-fact") \/ Keeps("error")
  BY <1>1, RecoveryUpdates DEF RecoverTombstone, AfterRecord
<1>3. RecoverBarrierLoad => Keeps("barrier-write")
  BY <1>1, RecoveryUpdates DEF RecoverBarrierLoad, AfterBarrierLoad
<1>4. ReconcileContradiction \/ RecoveryFails => Keeps("error")
  BY <1>1, RecoveryUpdates DEF ReconcileContradiction, RecoveryFails
<1>5. ReconcileRecorded => Keeps("complete")
  BY <1>1, RecoveryUpdates DEF ReconcileRecorded
<1>6. ASSUME ReconcileAudit
      PROVE  \/ /\ RecordCompletionKind(Candidate, RecoveredEvent) \in {"recorded", "already-recorded"}
                /\ Keeps("completion-fact")
             \/ /\ RecordCompletionKind(Candidate, RecoveredEvent) = "rejected"
                /\ Keeps("error")
  <2> DEFINE kind == RecordCompletionKind(Candidate, RecoveredEvent)
  <2>1. recovery' = AfterRecord(recovery, kind, "completion-fact")
    BY <1>6 DEF ReconcileAudit
  <2>2. kind \in {"recorded", "already-recorded", "rejected"}
    BY DEF RecordCompletionKind
  <2> HIDE DEF kind
  <2>3. \/ kind \in {"recorded", "already-recorded"} /\ Keeps("completion-fact")
        \/ kind = "rejected" /\ Keeps("error")
    BY <1>1, <2>1, <2>2, RecoveryUpdates DEF AfterRecord
  <2> QED
    BY <2>3 DEF kind
<1> QED
  BY <1>2, <1>3, <1>4, <1>5, <1>6

LEMMA RecoveryLooksHold ==
    ASSUME RuntimeInv, WorkAlone, AtCandidate,
           \/ RecoverOutbox \/ RecoverTombstone \/ AssessCheckpoint \/ RecoverBarrierLoad \/ RecoverBarrierWrite
           \/ ReconcileContradiction \/ ReconcileRecorded \/ ReconcileAudit \/ RecoveryFails
    PROVE  RuntimeInv'
<1> USE DEF Recovering, BelievesAt, EndedDelivery, SettledDeliveries, CheckpointStatuses, Keeps, GoesTo
<1>1. Typed
  BY CandidateFacts
<1>2. /\ UNCHANGED <<turns, sequenceCounters, effects, auditStarts, generation, policy>>
      /\ outboxOutcomes' \in [Turns -> DeliveryOutcomes \cup {None}]
      /\ \A u \in Turns : outboxOutcomes'[u] = outboxOutcomes[u] \/ outboxOutcomes'[u] = "outcome-unknown"
  BY <1>1 DEF RecoverOutbox, RecoverTombstone, AssessCheckpoint, RecoverBarrierLoad, RecoverBarrierWrite,
     ReconcileContradiction, ReconcileRecorded, ReconcileAudit, RecoveryFails, storeVars, ledgerVars, outboxVars,
     auditVars, NoEffect, OutboxCall, ConversationCall, AuditCall, RecordDeliveryOutcome, RecordCompletion, Typed,
     DeliveryOutcomes
<1>3. CASE RecoverOutbox
  <2>1. PICK stage \in {"tombstone", "delivery-fact"}, delivery \in SettledDeliveries, checkpoint \in CheckpointStatuses :
          /\ GoesTo(stage, delivery, checkpoint)
          /\ delivery = DeliveryOfOutcome(ReadDeliveryOutcome(Candidate))
    BY <1>3, OutboxGoes
  <2>2. /\ delivery = "delivered" => effects[Candidate].answer = "delivered"
        /\ delivery = "failed" => effects[Candidate].answer = "known-failure"
    BY <2>1, CandidateFacts DEF DeliveryOfOutcome, ReadDeliveryOutcome, RowInv, ProvenOutcomes
  <2>3. recovery.at = "delivery_started" /\ delivery # None
    BY <1>3, CandidateFacts, ConstantsAssumption DEF RecoverOutbox, DeliveryStatuses
  <2> QED
    BY <1>2, <2>1, <2>2, <2>3, RecoveryGoesOn, CandidateFacts
<1>4. CASE RecoverTombstone
  <2>1. Keeps("delivery-fact") \/ Keeps("error")
    BY <1>4, LooksGo
  <2> QED
    BY <1>2, <1>4, <2>1, RecoveryGoesOn, CandidateFacts DEF RecoverTombstone
<1>5. CASE AssessCheckpoint
  <2>1. Keeps("barrier-load") \/ Keeps("reconcile") \/ Keeps("error")
    BY <1>5, AssessGoes
  <2> QED
    BY <1>2, <1>5, <2>1, RecoveryGoesOn, CandidateFacts DEF AssessCheckpoint
<1>6. CASE RecoverBarrierLoad
  <2>1. Keeps("barrier-write")
    BY <1>6, LooksGo
  <2>2. BelievesAt("barrier-write", recovery.at, recovery.delivery, recovery.checkpoint)
    BY <1>6, CandidateFacts DEF RecoverBarrierLoad
  <2> HIDE DEF BelievesAt
  <2> QED
    BY <1>2, <2>1, <2>2, RecoveryGoesOn, CandidateFacts
<1>7. CASE RecoverBarrierWrite
  <2>1. PICK stage \in {AfterBarrier, "barrier-load", "error"} : GoesTo(stage, recovery.delivery, "failed")
    BY <1>7, BarrierGoes
  <2>2. stage # "error" => BelievesAt(stage, recovery.at, recovery.delivery, "failed")
    BY <1>7, CandidateFacts DEF RecoverBarrierWrite, AfterBarrier
  <2>3. stage # "delivery-move"
    BY DEF AfterBarrier
  <2> HIDE DEF BelievesAt
  <2> QED
    BY <1>2, <2>1, <2>2, <2>3, RecoveryGoesOn, CandidateFacts
<1>8. CASE ReconcileContradiction \/ RecoveryFails
  <2>1. Keeps("error")
    BY <1>8, LooksGo
  <2> QED
    BY <1>2, <2>1, RecoveryGoesOn
<1>9. CASE ReconcileRecorded
  <2>1. Keeps("complete")
    BY <1>9, LooksGo
  <2>2. BelievesAt("complete", recovery.at, recovery.delivery, recovery.checkpoint)
    BY CandidateFacts
  <2> HIDE DEF BelievesAt
  <2> QED
    BY <1>2, <2>1, <2>2, RecoveryGoesOn, CandidateFacts
<1>10. CASE ReconcileAudit
  <2>1. Keeps("completion-fact") \/ Keeps("error")
    BY <1>10, LooksGo
  <2> QED
    BY <1>2, <1>10, <2>1, RecoveryGoesOn, CandidateFacts DEF ReconcileAudit
<1> QED
  BY <1>3, <1>4, <1>5, <1>6, <1>7, <1>8, <1>9, <1>10

\* The steps of recovery between two candidates: nothing but its locals changes.
LEMMA LocalsGoOn ==
    ASSUME RuntimeInv, recovery.stage # "idle", WorkAlone,
           UNCHANGED <<turns, sequenceCounters, effects, outboxOutcomes, auditStarts, generation, policy>>,
           RecoveryRecord(recovery'), DOMAIN recovery'.rows \subseteq Turns,
           \A u \in DOMAIN recovery'.rows : recovery'.rows[u] \in Rows /\ ListedInv(u)', CandidateInv'
    PROVE  RuntimeInv'
<1>1. RecoveryFrame
  BY DEF RecoveryFrame, WorkAlone, dispatcherVars, orchestratorVars
<1>2. \A u \in Turns : RowAdvances(u) /\ RowInv(u)'
  BY DEF RuntimeInv, TurnInv, RowAdvances, RowInv, Present, Settled
<1>3. /\ turns' \in [Turns -> Rows]
      /\ outboxOutcomes' \in [Turns -> DeliveryOutcomes \cup {None}]
  BY DEF RuntimeInv, Typed
<1> QED
  BY <1>1, <1>2, <1>3, RecoveryStepHolds

LEMMA NoRecoveryTyped ==
    /\ RecoveryRecord(NoRecovery) /\ NoRecovery.rows = <<>> /\ NoRecovery.stage = "idle"
    /\ \A stage \in RecoveryStages :
         /\ RecoveryRecord([NoRecovery EXCEPT !.stage = stage])
         /\ [NoRecovery EXCEPT !.stage = stage].rows = <<>>
         /\ [NoRecovery EXCEPT !.stage = stage].stage = stage
<1>1. AbsentRow \in Rows
  BY InitialRows
<1> QED
  BY <1>1 DEF RecoveryRecord, NoRecovery, RecoveryStages, CheckpointStatuses

\* Recovery between two pages: a new page holds the rows as the ledger has them.
LEMMA PageGoes ==
    ASSUME ListCandidates \/ PageIsDone
    PROVE  \E stage \in {"done", "error", "pick", "list"}, page \in SUBSET UnfinishedTurns :
             /\ RecoveryRecord(recovery') /\ recovery'.stage = stage
             /\ recovery'.rows = <<>> \/ recovery'.rows = [t \in page |-> turns[t]]
<1>1. PICK stage \in {"done", "error", "pick", "list"}, page \in SUBSET UnfinishedTurns : \E listed :
        \/ recovery' = [NoRecovery EXCEPT !.stage = stage]
        \/ recovery' = [NoRecovery EXCEPT !.stage = stage, !.listed = listed]
        \/ recovery' = [NoRecovery EXCEPT !.stage = stage, !.listed = listed, !.rows = [t \in page |-> turns[t]]]
  <2>1. CASE ListCandidates
    <3>1. PICK page \in SUBSET UnfinishedTurns :
            recovery' = CASE page = {} -> [NoRecovery EXCEPT !.stage = "done"]
                          [] page # {} /\ page = recovery.listed -> [NoRecovery EXCEPT !.stage = "error"]
                          [] OTHER -> [NoRecovery EXCEPT !.stage = "pick", !.listed = page,
                                                         !.rows = [t \in page |-> turns[t]]]
      BY <2>1 DEF ListCandidates
    <3> QED
      BY <3>1
  <2>2. CASE PageIsDone
    <3>1. \E listed : recovery' = [NoRecovery EXCEPT !.stage = "list", !.listed = listed]
      BY <2>2 DEF PageIsDone
    <3>2. {} \in SUBSET UnfinishedTurns
      OBVIOUS
    <3> QED
      BY <3>1, <3>2
  <2> QED
    BY <2>1, <2>2
<1>2. /\ RecoveryRecord(recovery') /\ recovery'.stage = stage
      /\ recovery'.rows = <<>> \/ recovery'.rows = [t \in page |-> turns[t]]
  <2> DEFINE after == [NoRecovery EXCEPT !.stage = stage]
  <2>1. RecoveryRecord(after) /\ after.rows = <<>> /\ after.stage = stage
    BY NoRecoveryTyped DEF RecoveryStages
  <2>2. PICK listed :
          \/ recovery' = after
          \/ recovery' = [after EXCEPT !.listed = listed]
          \/ recovery' = [after EXCEPT !.listed = listed, !.rows = [t \in page |-> turns[t]]]
    BY <1>1
  <2> HIDE DEF after
  <2> QED
    BY <2>1, <2>2 DEF RecoveryRecord
<1> QED
  BY <1>2

LEMMA PagesHold ==
    ASSUME RuntimeInv, WorkAlone, ListCandidates \/ PageIsDone
    PROVE  RuntimeInv'
<1>1. /\ recovery.stage \in {"list", "pick"} /\ Typed
      /\ UNCHANGED <<turns, sequenceCounters, effects, outboxOutcomes, auditStarts, generation, policy>>
  BY DEF ListCandidates, PageIsDone, Recovering, RuntimeInv, storeVars, ledgerVars, outboxVars, auditVars, NoEffect
<1>2. PICK stage \in {"done", "error", "pick", "list"}, page \in SUBSET UnfinishedTurns :
        /\ RecoveryRecord(recovery') /\ recovery'.stage = stage
        /\ recovery'.rows = <<>> \/ recovery'.rows = [t \in page |-> turns[t]]
  BY PageGoes
<1>3. CandidateInv'
  BY <1>2 DEF CandidateInv, AtCandidate
<1>4. ASSUME NEW u \in DOMAIN recovery'.rows
      PROVE  u \in Turns /\ recovery'.rows[u] \in Rows /\ ListedInv(u)'
  <2>1. u \in page /\ recovery'.rows[u] = turns[u]
    BY <1>2, <1>4
  <2>2. u \in Turns /\ turns[u].state \notin {"absent", "completed"} /\ turns[u] \in Rows /\ turns[u].revision \in Nat
    BY <1>1, <2>1, ConstantsAssumption DEF UnfinishedTurns, Typed, Rows
  <2>3. RowInv(u)
    BY <2>2 DEF RuntimeInv, TurnInv
  <2> QED
    BY <1>1, <2>1, <2>2, <2>3 DEF ListedInv, RowInv
<1> QED
  BY <1>1, <1>2, <1>3, <1>4, LocalsGoOn

\* Recovery goes to what the listed row of its next candidate asks for.
LEMMA PickGoes ==
    ASSUME NEW t \in Turns, PickCandidate(t)
    PROVE  recovery' =
             [ stage |-> FirstStage(recovery.rows[t]), listed |-> recovery.listed,
               rows |-> [u \in DOMAIN recovery.rows \ {t} |-> recovery.rows[u]], turn |-> t, row |-> recovery.rows[t],
               revision |-> recovery.rows[t].revision, at |-> recovery.rows[t].state,
               delivery |-> DeliveryOfState(recovery.rows[t].state), checkpoint |-> recovery.rows[t].facts.checkpoint,
               reason |-> None, loaded |-> NoSnapshot, attempts |-> 0 ]
<1> DEFINE row == recovery.rows[t]
           rest == [u \in DOMAIN recovery.rows \ {t} |-> recovery.rows[u]]
<1>1. recovery' = [NoRecovery EXCEPT
           !.stage = FirstStage(row), !.listed = recovery.listed, !.rows = rest,
           !.turn = t, !.row = row, !.revision = row.revision, !.at = row.state,
           !.delivery = DeliveryOfState(row.state), !.checkpoint = row.facts.checkpoint]
  BY DEF PickCandidate
<1> HIDE DEF row, rest
<1>2. recovery' = [ stage |-> FirstStage(row), listed |-> recovery.listed, rows |-> rest, turn |-> t, row |-> row,
                    revision |-> row.revision, at |-> row.state, delivery |-> DeliveryOfState(row.state),
                    checkpoint |-> row.facts.checkpoint, reason |-> None, loaded |-> NoSnapshot, attempts |-> 0 ]
  BY <1>1, Zenon DEF NoRecovery
<1> QED
  BY <1>2 DEF row, rest

LEMMA PicksHold ==
    ASSUME RuntimeInv, WorkAlone, NEW t \in Turns, PickCandidate(t)
    PROVE  RuntimeInv'
<1> DEFINE row == recovery.rows[t]
           rest == [u \in DOMAIN recovery.rows \ {t} |-> recovery.rows[u]]
<1>1. /\ recovery.stage = "pick" /\ Typed /\ t \in DOMAIN recovery.rows
      /\ UNCHANGED <<turns, sequenceCounters, effects, outboxOutcomes, auditStarts, generation, policy>>
  BY DEF PickCandidate, Recovering, RuntimeInv, storeVars, ledgerVars, outboxVars, auditVars, NoEffect
<1>2. ListedInv(t) /\ row \in Rows
  BY <1>1 DEF RuntimeInv, RecoveryInv, Typed, RecoveryTyped
<1>3. row.revision \in Nat /\ row.state \in TurnStates /\ row.facts \in Facts
  BY <1>2, ConstantsAssumption DEF Rows, ListedInv
<1>4. row.facts.checkpoint \in CheckpointStatuses
  BY <1>3 DEF Facts
<1>5. /\ FirstStage(row) \in RecoveryStages
      /\ DeliveryOfState(row.state) \in SettledDeliveries \cup {None}
  BY DEF FirstStage, RecoveryStages, DeliveryOfState, SettledDeliveries
<1>6. recovery' = [ stage |-> FirstStage(row), listed |-> recovery.listed, rows |-> rest, turn |-> t, row |-> row,
                    revision |-> row.revision, at |-> row.state, delivery |-> DeliveryOfState(row.state),
                    checkpoint |-> row.facts.checkpoint, reason |-> None, loaded |-> NoSnapshot, attempts |-> 0 ]
  BY PickGoes
<1>7. BelievesAt(FirstStage(row), row.state, DeliveryOfState(row.state), row.facts.checkpoint)
  <2>1. row.state \notin {"absent", "completed"}
    BY <1>2 DEF ListedInv
  <2>2. None \notin SettledDeliveries
    BY ConstantsAssumption DEF SettledDeliveries, DeliveryStatuses
  <2> QED
    BY <1>4, <2>1, <2>2 DEF BelievesAt, FirstStage, DeliveryOfState, EndedDelivery, SettledDeliveries
<1>8. /\ row.revision <= turns[t].revision /\ (row.revision = turns[t].revision => turns[t].state = row.state)
      /\ row.state = "delivered" => effects[t].answer = "delivered"
      /\ row.state = "delivery_failed" => effects[t].answer = "known-failure"
  BY <1>2 DEF ListedInv
<1>9. /\ DeliveryOfState(row.state) = "delivered" => row.state = "delivered"
      /\ DeliveryOfState(row.state) = "failed" => row.state = "delivery_failed"
      /\ FirstStage(row) # "delivery-move"
  BY ConstantsAssumption DEF DeliveryOfState, FirstStage, DeliveryStatuses
<1> HIDE DEF row, rest
<1>10. RecoveryRecord(recovery')
  BY <1>2, <1>3, <1>4, <1>5, <1>6 DEF RecoveryRecord
<1>11. CandidateInv'
  BY <1>1, <1>6, <1>7, <1>8, <1>9 DEF CandidateInv, Candidate, BelievesAt
<1>12. /\ recovery'.rows = rest
       /\ DOMAIN rest \subseteq DOMAIN recovery.rows /\ \A u \in DOMAIN rest : rest[u] = recovery.rows[u]
  BY <1>6 DEF rest
<1>13. ASSUME NEW u \in DOMAIN recovery'.rows
       PROVE  u \in Turns /\ recovery'.rows[u] \in Rows /\ ListedInv(u)'
  <2>1. u \in DOMAIN recovery.rows /\ recovery'.rows[u] = recovery.rows[u]
    BY <1>12
  <2>2. ListedInv(u) /\ recovery.rows[u] \in Rows /\ u \in Turns
    BY <2>1 DEF RuntimeInv, RecoveryInv, Typed, RecoveryTyped
  <2> QED
    BY <1>1, <2>1, <2>2 DEF ListedInv
<1> QED
  BY <1>1, <1>10, <1>11, <1>13, LocalsGoOn

LEMMA RecoverHolds ==
    ASSUME RuntimeInv, Recover
    PROVE  RuntimeInv'
<1>1. WorkAlone
  BY DEF Recover, WorkAlone
<1>2. CASE ListCandidates \/ PageIsDone
  BY <1>1, <1>2, PagesHold
<1>3. CASE \E t \in Turns : PickCandidate(t)
  BY <1>1, <1>3, PicksHold
<1>4. CASE CancelCandidate \/ CompleteCandidate \/ RecoverLlmCancel \/ RecoverDeliveryMove
  BY <1>1, <1>4, RecoveryMovesHold
<1>5. CASE RecoverLlmFacts \/ RecoverDeliveryFacts \/ ReconcileFailed \/ ReconcileFacts
  BY <1>1, <1>5, RecoveryWritesHold
<1>6. CASE \/ RecoverOutbox \/ RecoverTombstone \/ AssessCheckpoint \/ RecoverBarrierLoad \/ RecoverBarrierWrite
           \/ ReconcileContradiction \/ ReconcileRecorded \/ ReconcileAudit
  <2>1. AtCandidate
    BY <1>6 DEF RecoverOutbox, RecoverTombstone, AssessCheckpoint, RecoverBarrierLoad, RecoverBarrierWrite,
       ReconcileContradiction, ReconcileRecorded, ReconcileAudit, Recovering, AtCandidate
  <2> QED
    BY <1>1, <1>6, <2>1, RecoveryLooksHold
<1>7. CASE RecoveryFails
  <2>1. CASE AtCandidate
    BY <1>1, <1>7, <2>1, RecoveryLooksHold
  <2>2. CASE ~AtCandidate
    <3>1. /\ recovery.stage = "list" /\ recovery' = [recovery EXCEPT !.stage = "error"]
          /\ UNCHANGED <<turns, sequenceCounters, effects, outboxOutcomes, auditStarts, generation, policy>>
      BY <1>7, <2>2 DEF RecoveryFails, AtCandidate, storeVars, ledgerVars, outboxVars, auditVars
    <3>2. RecoveryTo(recovery', recovery, "error") /\ RecoveryRecord(recovery)
      BY <3>1, RecoveryUpdates DEF RuntimeInv, Typed, RecoveryTyped, RecoveryStages
    <3>3. RecoveryRecord(recovery') /\ recovery'.rows = recovery.rows /\ CandidateInv'
      BY <3>2 DEF RecoveryTo, Recovered, CandidateInv, AtCandidate
    <3>4. \A u \in DOMAIN recovery.rows : u \in Turns /\ recovery.rows[u] \in Rows /\ ListedInv(u)'
      BY <3>1, <3>3 DEF RuntimeInv, RecoveryInv, ListedInv, Typed, RecoveryTyped
    <3> QED
      BY <1>1, <3>1, <3>3, <3>4, LocalsGoOn
  <2> QED
    BY <2>1, <2>2
<1> QED
  BY <1>2, <1>3, <1>4, <1>5, <1>6, <1>7 DEF Recover, RecoveryStep

----------------------------------------------------------------------------
\* The steps of the orchestrator.

\* Those that leave every turn alone.
LEMMA LifecycleHolds ==
    ASSUME RuntimeInv, UNCHANGED <<storeVars, pipelineVars, draining, submissions>>,
           recovery' = recovery \/ \E stage \in RecoveryStages :
                                     /\ stage \in {"idle", "list", "error", "done"}
                                     /\ recovery' = [NoRecovery EXCEPT !.stage = stage],
           recovery'.stage # "idle" => lifecycle' = "recovering" \/ draining,
           lifecycle' \in {"new", "recovering", "failed"} /\ ~draining => NoWork,
           closing' => draining
    PROVE  RuntimeInv'
<1>1. /\ UNCHANGED <<turns, sequenceCounters, jobs, effects, outboxOutcomes, auditStarts, generation, policy>>
      /\ Typed /\ RecoveryInv /\ OneTurnPerTransportEvent
  BY DEF storeVars, ledgerVars, outboxVars, auditVars, pipelineVars, RuntimeInv
<1>2. \A u \in Turns : TurnInv(u)'
  BY <1>1, OtherTurnsKeep DEF RuntimeInv
<1>3. RecoveryTyped' /\ RecoveryInv'
  <2>1. CASE recovery' = recovery
    <3>1. RecoveryTyped'
      BY <1>1, <2>1 DEF Typed, RecoveryTyped, RecoveryRecord
    <3>2. \A u \in Turns : RowGrows(u) /\ AnswerStays(u)
      BY <1>1 DEF RowGrows, AnswerStays
    <3> QED
      BY <1>1, <2>1, <3>1, <3>2, RecoveryKeeps
  <2>2. CASE recovery' # recovery
    <3>1. PICK stage \in {"idle", "list", "error", "done"} :
            stage \in RecoveryStages /\ recovery' = [NoRecovery EXCEPT !.stage = stage]
      BY <2>2
    <3>2. RecoveryRecord(recovery') /\ recovery'.rows = <<>> /\ recovery'.stage = stage
      BY <3>1, NoRecoveryTyped
    <3> QED
      BY <3>2 DEF RecoveryTyped, RecoveryRecord, RecoveryInv, CandidateInv, AtCandidate
  <2> QED
    BY <2>1, <2>2
<1>4. Typed'
  BY <1>1, <1>3 DEF Typed, JobTyped
<1>5. ProcessInv'
  BY <1>1 DEF ProcessInv, NoWork
<1>6. OneTurnPerTransportEvent'
  BY <1>1 DEF OneTurnPerTransportEvent, Present
<1> QED
  BY <1>2, <1>3, <1>4, <1>5, <1>6 DEF RuntimeInv

LEMMA StartsHold ==
    ASSUME RuntimeInv, Start \/ StartReturns \/ CloseReturns
    PROVE  RuntimeInv'
<1>1. UNCHANGED <<storeVars, pipelineVars, draining, submissions>>
  BY DEF Start, StartReturns, CloseReturns, dispatcherVars
<1>2. CASE Start
  <2>1. \E stage \in {"list", "error"} : recovery' = [NoRecovery EXCEPT !.stage = stage]
    BY <1>2 DEF Start
  <2>2. /\ lifecycle' = "recovering" /\ closing' = closing
        /\ lifecycle \in {"new", "failed"}
    BY <1>2 DEF Start
  <2> QED
    BY <1>1, <2>1, <2>2, LifecycleHolds DEF RuntimeInv, ProcessInv, RecoveryStages
<1>3. CASE StartReturns
  <2>1. recovery' = [NoRecovery EXCEPT !.stage = "idle"] /\ recovery'.stage = "idle"
    <3>1. NoRecovery.stage = "idle" /\ RecoveryRecord(NoRecovery) /\ recovery' = NoRecovery
      BY <1>3, NoRecoveryTyped DEF StartReturns
    <3>2. [NoRecovery EXCEPT !.stage = "idle"] = NoRecovery
      BY <3>1 DEF RecoveryRecord
    <3> QED
      BY <3>1, <3>2
  <2>2. /\ lifecycle' \in {"running", "failed"} /\ closing' = closing /\ recovery.stage # "idle"
    BY <1>3 DEF StartReturns
  <2> QED
    BY <1>1, <2>1, <2>2, LifecycleHolds DEF RuntimeInv, ProcessInv, RecoveryStages
<1>4. CASE CloseReturns
  <2>1. recovery' = recovery /\ lifecycle' = "closed" /\ closing' = FALSE /\ draining
    BY <1>4 DEF CloseReturns, RuntimeInv, ProcessInv
  <2> QED
    BY <1>1, <2>1, LifecycleHolds
<1> QED
  BY <1>2, <1>3, <1>4

\* A job that work is stopped under: dropped, returning already, or left with its
\* locals, of a generation that is past.
LEMMA StoppedJob ==
    ASSUME NEW job, JobTyped(job), NEW now, now \in {job, [job EXCEPT !.stage = "done"]}
    PROVE  /\ JobTyped(Aborted(now))
           /\ Aborted(now).stage \notin {"idle", "error", "done"} =>
                /\ Aborted(now).stage = job.stage /\ Aborted(now).revision = job.revision
                /\ Aborted(now).generation = job.generation /\ Aborted(now).llm = job.llm
                /\ Aborted(now).delivery = job.delivery /\ Aborted(now).checkpoint = job.checkpoint
           /\ job.stage = "idle" /\ now = job => Aborted(now).stage = "idle"
<1>1. JobTyped(NoJob) /\ NoJob.stage = "idle"
  BY DEF JobTyped, NoJob, Stages
<1>2. JobTyped(now) /\ now.stage \in {job.stage, "done"} /\ now.revision = job.revision
      /\ now.generation = job.generation /\ now.llm = job.llm
      /\ now.delivery = job.delivery /\ now.checkpoint = job.checkpoint
  BY DEF JobTyped, Stages
<1>3. CASE now.stage = "queued"
  BY <1>1, <1>2, <1>3 DEF Aborted
<1>4. CASE now.stage # "queued" /\ now.stage \in AbortableStages
  <2> DEFINE after == [now EXCEPT !.aborted = TRUE]
  <2>1. Aborted(now) = after
    BY <1>4 DEF Aborted
  <2>2. /\ JobTyped(after) /\ after.stage = now.stage /\ after.revision = now.revision
        /\ after.generation = now.generation /\ after.llm = now.llm
        /\ after.delivery = now.delivery /\ after.checkpoint = now.checkpoint
    BY <1>2 DEF JobTyped
  <2>3. now.stage \notin {"idle", "done"}
    BY <1>4 DEF AbortableStages
  <2> HIDE DEF after
  <2> QED
    BY <1>2, <2>1, <2>2, <2>3
<1>5. CASE now.stage # "queued" /\ now.stage \notin AbortableStages
  <2>1. Aborted(now) = now
    BY <1>5 DEF Aborted
  <2> QED
    BY Zenon, <1>2, <2>1
<1> QED
  BY <1>3, <1>4, <1>5

\* Where work is stopped, a submission goes on as it was, or ends.
SubmissionStops(u) ==
    submissions'[u] = submissions[u] \/ submissions'[u] = [NoSubmission EXCEPT !.stage = "ended"]

LEMMA EndedSubmission ==
    /\ [NoSubmission EXCEPT !.stage = "ended"] \in SubmissionRecords
    /\ [NoSubmission EXCEPT !.stage = "ended"].stage = "ended"
    /\ NoSubmission \in SubmissionRecords /\ NoSubmission.stage = "none"
  BY DEF SubmissionRecords, NoSubmission, SubmissionStages

LEMMA StoppedTurnKeeps ==
    ASSUME RuntimeInv, NEW u \in Turns, NEW now, now \in {jobs[u], [jobs[u] EXCEPT !.stage = "done"]},
           jobs[u].stage = "idle" => now = jobs[u],
           jobs'[u] = Aborted(now), generation' = generation + 1, draining' = TRUE, SubmissionStops(u),
           UNCHANGED <<turns[u], effects[u], outboxOutcomes[u], auditStarts[u]>>
    PROVE  TurnInv(u)' /\ JobTyped(jobs'[u]) /\ submissions'[u] \in SubmissionRecords
<1>1. /\ TurnInv(u) /\ JobTyped(jobs[u]) /\ generation \in Nat /\ jobs[u].generation \in Nat
      /\ submissions[u] \in SubmissionRecords
  BY DEF RuntimeInv, Typed, JobTyped
<1>2. /\ JobTyped(jobs'[u])
      /\ jobs'[u].stage \notin {"idle", "error", "done"} =>
           /\ jobs'[u].stage = jobs[u].stage /\ jobs'[u].revision = jobs[u].revision
           /\ jobs'[u].generation = jobs[u].generation /\ jobs'[u].llm = jobs[u].llm
           /\ jobs'[u].delivery = jobs[u].delivery /\ jobs'[u].checkpoint = jobs[u].checkpoint
      /\ jobs[u].stage = "idle" => jobs'[u].stage = "idle"
  BY <1>1, StoppedJob
<1>3. RowInv(u)'
  BY <1>1 DEF TurnInv, RowInv, Present, Settled
<1>4. submissions'[u] \in SubmissionRecords /\ (submissions'[u].stage # "ended" => submissions'[u] = submissions[u])
  BY <1>1, EndedSubmission DEF SubmissionStops
<1>5. EffectsInv(u)'
  <2>1. ASSUME jobs'[u].stage \in {"idle", "error", "done"}
        PROVE  EffectsAt(u, jobs[u].stage)'
    BY <2>1 DEF EffectsAt, UnaskedStages, UnsentStages, AnsweredStages, UnknownStages
  <2>2. ASSUME jobs'[u].stage = jobs[u].stage
        PROVE  EffectsAt(u, jobs[u].stage)'
    BY <1>1, <2>2 DEF TurnInv, EffectsInv, EffectsAt
  <2>3. EffectsAt(u, jobs[u].stage)'
    BY <1>2, <2>1, <2>2
  <2> QED
    BY <1>1, <1>2, <1>4, <2>3 DEF TurnInv, EffectsInv
<1>6. JobInv(u)'
  <2> SUFFICES ASSUME jobs'[u].stage \notin {"idle", "error", "done"}
               PROVE  JobInv(u)'
    BY DEF JobInv, Working
  <2>1. /\ StateAt(jobs'[u].stage, jobs'[u]) = StateAt(jobs[u].stage, jobs[u])
        /\ LearntAt(jobs'[u].stage, jobs'[u]) <=> LearntAt(jobs[u].stage, jobs[u])
        /\ DeliveryStatus(jobs'[u]) = DeliveryStatus(jobs[u])
    BY <1>2, StagesMatter
  <2> QED
    BY <1>1, <1>2, <2>1 DEF TurnInv, JobInv, Working, GenerationCurrent
<1>7. SubmissionInv(u)'
  BY DEF SubmissionInv
<1> QED
  BY <1>2, <1>3, <1>4, <1>5, <1>6, <1>7 DEF TurnInv

\* Whatever was under way, no job of a stopped runtime is of its generation.
LEMMA StopHolds ==
    ASSUME RuntimeInv, NEW now, \A u \in Turns : /\ now[u] \in {jobs[u], [jobs[u] EXCEPT !.stage = "done"]}
                                                 /\ jobs[u].stage = "idle" => now[u] = jobs[u],
           StopWork(now), draining' = TRUE,
           DOMAIN submissions' = Turns, submissions' = [u \in Turns |-> submissions'[u]],
           \A u \in Turns : SubmissionStops(u),
           UNCHANGED <<turns, sequenceCounters, outboxOutcomes, auditStarts, effects, policy, recovery>>
    PROVE  RuntimeInv'
<1>1. /\ jobs' = [u \in Turns |-> Aborted(now[u])] /\ generation' = generation + 1
      /\ generation \in Nat /\ Typed
  BY DEF StopWork, RuntimeInv, Typed
<1>2. \A u \in Turns : TurnInv(u)' /\ JobTyped(jobs'[u]) /\ submissions'[u] \in SubmissionRecords
  BY <1>1, StoppedTurnKeeps
<1>3. \A u \in Turns : RowGrows(u) /\ AnswerStays(u)
  BY DEF RowGrows, AnswerStays
<1>4. RecoveryInv'
  BY <1>1, <1>3, RecoveryKeeps DEF RuntimeInv
<1>5. Typed'
  <2>1. submissions' \in [Turns -> SubmissionRecords]
    BY <1>2
  <2>2. DOMAIN jobs' = Turns /\ jobs' = [u \in Turns |-> jobs'[u]]
    BY <1>1
  <2>3. RecoveryTyped'
    BY <1>1 DEF Typed, RecoveryTyped, RecoveryRecord
  <2> QED
    BY <1>1, <1>2, <2>1, <2>2, <2>3 DEF Typed, JobTyped
<1>6. ProcessInv'
  BY DEF ProcessInv
<1>7. OneTurnPerTransportEvent'
  BY DEF RuntimeInv, OneTurnPerTransportEvent, Present
<1> QED
  BY <1>2, <1>4, <1>5, <1>6, <1>7 DEF RuntimeInv

\* A drain from outside, and a job that returns with an error.
LEMMA DrainsHold ==
    ASSUME RuntimeInv, (\E close \in BOOLEAN : BeginDrain(close)) \/ \E t \in Turns : JobFails(t)
    PROVE  RuntimeInv'
<1>1. /\ draining' = TRUE
      /\ UNCHANGED <<turns, sequenceCounters, outboxOutcomes, auditStarts, effects, policy, recovery, submissions>>
  BY DEF BeginDrain, JobFails, FailRuntime, BeginDispatcherDrain, DrainAndWait, DropQueues, storeVars, ledgerVars,
     outboxVars, auditVars
<1>2. /\ \A u \in Turns : SubmissionStops(u)
      /\ DOMAIN submissions' = Turns /\ submissions' = [u \in Turns |-> submissions'[u]]
  BY <1>1 DEF SubmissionStops, RuntimeInv, Typed
<1>3. CASE \E close \in BOOLEAN : BeginDrain(close)
  <2>1. StopWork(jobs)
    BY <1>3 DEF BeginDrain
  <2> QED
    BY <1>1, <1>2, <2>1, StopHolds
<1>4. ASSUME NEW t \in Turns, JobFails(t)
      PROVE  RuntimeInv'
  <2> DEFINE now == [jobs EXCEPT ![t].stage = "done"]
  <2>1. StopWork(now) /\ jobs[t].stage = "error"
    BY <1>4 DEF JobFails, FailRuntime, At
  <2>2. \A u \in Turns : /\ now[u] \in {jobs[u], [jobs[u] EXCEPT !.stage = "done"]}
                         /\ jobs[u].stage = "idle" => now[u] = jobs[u]
    BY <2>1 DEF RuntimeInv, Typed
  <2> HIDE DEF now
  <2> QED
    BY <1>1, <1>2, <2>1, <2>2, StopHolds
<1> QED
  BY <1>3, <1>4

\* The jobs a pump makes active run to their first await.
Starts(new, old) ==
    new = old \/ (old.stage = "queued" /\ \E stage \in {"kill-switch", "done"} : new = [old EXCEPT !.stage = stage])

LEMMA StartedJobs ==
    ASSUME NEW now, jobs' = Started(now)
    PROVE  /\ DOMAIN jobs' = Turns /\ jobs' = [u \in Turns |-> jobs'[u]]
           /\ \A u \in Turns : Starts(jobs'[u], now[u])
  BY DEF Started, Starts

LEMMA StartedLocals ==
    ASSUME NEW old, JobTyped(old), NEW new, Starts(new, old)
    PROVE  /\ JobTyped(new) /\ new.revision = old.revision /\ new.generation = old.generation
           /\ new.llm = old.llm /\ new.delivery = old.delivery /\ new.checkpoint = old.checkpoint
           /\ new.stage = old.stage \/ (old.stage = "queued" /\ new.stage \in {"kill-switch", "done"})
<1>1. CASE new = old
  BY <1>1
<1>2. CASE new # old
  <2>1. PICK stage \in {"kill-switch", "done"} : new = [old EXCEPT !.stage = stage]
    BY <1>2 DEF Starts
  <2>2. old.stage = "queued"
    BY <1>2 DEF Starts
  <2> QED
    BY <2>1, <2>2 DEF JobTyped, Stages
<1> QED
  BY <1>1, <1>2

LEMMA StartedTurnKeeps ==
    ASSUME RuntimeInv, NEW u \in Turns, Starts(jobs'[u], jobs[u]),
           UNCHANGED <<turns[u], effects[u], submissions[u], outboxOutcomes[u], auditStarts[u], generation, draining>>
    PROVE  TurnInv(u)' /\ JobTyped(jobs'[u])
<1>1. /\ TurnInv(u) /\ JobTyped(jobs[u]) /\ generation \in Nat /\ jobs[u].generation \in Nat
      /\ turns[u].revision \in Nat /\ jobs[u].revision \in Nat
  BY ConstantsAssumption DEF RuntimeInv, Typed, JobTyped, Rows
<1>2. /\ JobTyped(jobs'[u]) /\ jobs'[u].revision = jobs[u].revision /\ jobs'[u].generation = jobs[u].generation
      /\ jobs'[u].llm = jobs[u].llm /\ jobs'[u].delivery = jobs[u].delivery
      /\ jobs'[u].checkpoint = jobs[u].checkpoint
      /\ \/ jobs'[u].stage = jobs[u].stage
         \/ jobs[u].stage = "queued" /\ jobs'[u].stage \in {"kill-switch", "done"}
  BY <1>1, StartedLocals
<1>3. RowInv(u)' /\ SubmissionInv(u)'
  BY <1>1 DEF TurnInv, RowInv, SubmissionInv, Present, Settled
<1>4. EffectsInv(u)'
  BY <1>1, <1>2 DEF TurnInv, EffectsInv, EffectsAt, UnaskedStages, UnsentStages, AnsweredStages, UnknownStages
<1>5. JobInv(u)'
  <2> SUFFICES ASSUME Working(u)'
               PROVE  JobInv(u)'
    BY DEF JobInv
  <2>1. /\ StateAt(jobs'[u].stage, jobs'[u]) = StateAt(jobs[u].stage, jobs[u])
        /\ LearntAt(jobs[u].stage, jobs[u]) => LearntAt(jobs'[u].stage, jobs'[u])
        /\ DeliveryStatus(jobs'[u]) = DeliveryStatus(jobs[u])
    <3>1. /\ StateAt(jobs'[u].stage, jobs'[u]) = StateAt(jobs'[u].stage, jobs[u])
          /\ LearntAt(jobs'[u].stage, jobs'[u]) <=> LearntAt(jobs'[u].stage, jobs[u])
          /\ DeliveryStatus(jobs'[u]) = DeliveryStatus(jobs[u])
      BY <1>2, StagesMatter
    <3>2. ASSUME NEW job
          PROVE  StateAt("kill-switch", job) = "queued" /\ StateAt("queued", job) = "queued"
      BY DEF StateAt, UnaskedStages, UnknownStages
    <3>3. LearntAt("queued", jobs[u]) => LearntAt("kill-switch", jobs[u])
      BY DEF LearntAt, UnaskedStages, UnsentStages, AnsweredStages, UnknownStages
    <3> QED
      BY <1>2, <3>1, <3>2, <3>3 DEF Working
  <2>2. Working(u)
    BY <1>2 DEF Working
  <2> QED
    BY <1>1, <1>2, <2>1, <2>2 DEF TurnInv, JobInv, Working, GenerationCurrent
<1> QED
  BY <1>2, <1>3, <1>4, <1>5 DEF TurnInv

LEMMA JobEndsHolds ==
    ASSUME RuntimeInv, NEW t \in Turns, JobEnds(t)
    PROVE  RuntimeInv'
<1> DEFINE now == [jobs EXCEPT ![t] = NoJob]
<1>1. /\ jobs' = Started(now) /\ jobs[t].stage = "done" /\ Typed
      /\ UNCHANGED <<turns, sequenceCounters, outboxOutcomes, auditStarts, effects, policy, recovery, submissions,
                     generation, draining, lifecycle, closing>>
  BY DEF JobEnds, At, JobSettles, storeVars, ledgerVars, outboxVars, auditVars, orchestratorVars, RuntimeInv
<1>2. \A u \in Turns : now[u] = IF u = t THEN NoJob ELSE jobs[u]
  BY <1>1 DEF Typed
<1> HIDE DEF now
<1>3. /\ DOMAIN jobs' = Turns /\ jobs' = [u \in Turns |-> jobs'[u]]
      /\ \A u \in Turns : Starts(jobs'[u], now[u])
  BY <1>1, StartedJobs
<1>4. JobTyped(NoJob) /\ NoJob.stage = "idle"
  BY DEF JobTyped, NoJob, Stages
<1>5. jobs'[t] = NoJob
  BY <1>2, <1>3, <1>4 DEF Starts
<1>6. TurnInv(t)'
  <2>1. TurnInv(t)
    BY DEF RuntimeInv
  <2>2. RowInv(t)' /\ SubmissionInv(t)' /\ JobInv(t)'
    BY <1>1, <1>4, <1>5, <2>1 DEF TurnInv, RowInv, SubmissionInv, Present, Settled, JobInv, Working
  <2>3. EffectsInv(t)'
    BY <1>1, <1>4, <1>5, <2>1 DEF TurnInv, EffectsInv, EffectsAt, UnaskedStages, UnsentStages, AnsweredStages,
                                  UnknownStages
  <2> QED
    BY <2>2, <2>3 DEF TurnInv
<1>7. \A u \in Turns : TurnInv(u)' /\ JobTyped(jobs'[u])
  BY <1>1, <1>2, <1>3, <1>4, <1>5, <1>6, StartedTurnKeeps
<1>8. \A u \in Turns : RowGrows(u) /\ AnswerStays(u)
  BY <1>1 DEF RowGrows, AnswerStays
<1>9. RecoveryInv'
  BY <1>1, <1>8, RecoveryKeeps DEF RuntimeInv
<1>10. RecoveryTyped'
  BY <1>1 DEF Typed, RecoveryTyped, RecoveryRecord
<1>11. Typed'
  BY <1>1, <1>3, <1>7, <1>10 DEF Typed, JobTyped
<1>12. ProcessInv'
  <2>1. ~NoWork
    BY <1>1 DEF NoWork
  <2> QED
    BY <1>1, <2>1 DEF RuntimeInv, ProcessInv
<1>13. OneTurnPerTransportEvent'
  BY <1>1 DEF RuntimeInv, OneTurnPerTransportEvent, Present
<1> QED
  BY <1>7, <1>9, <1>11, <1>12, <1>13 DEF RuntimeInv

\* A step of a submission: its turn has no job, and asked nobody.
LEMMA SubmissionStepHolds ==
    ASSUME RuntimeInv, NEW t \in Turns, submissions[t].stage # "ended",
           lifecycle = "running" \/ submissions[t].stage # "none",
           turns' = [turns EXCEPT ![t] = turns'[t]], turns'[t] \in Rows, RowGrows(t), RowInv(t)',
           OneTurnPerTransportEvent', sequenceCounters' \in [Conversations -> 1 .. MaxSafeInteger],
           submissions' = [submissions EXCEPT ![t] = submissions'[t]], submissions'[t] \in SubmissionRecords,
           SubmissionInv(t)',
           UNCHANGED <<jobs, effects, outboxOutcomes, auditStarts, generation, draining, policy, recovery,
                       lifecycle, closing>>
    PROVE  RuntimeInv'
<1>1. Typed /\ TurnInv(t) /\ jobs[t].stage = "idle" /\ effects[t] = NoEffects
  BY DEF RuntimeInv, TurnInv, EffectsInv
<1>2. ASSUME NEW u \in Turns, u # t
      PROVE  turns'[u] = turns[u] /\ submissions'[u] = submissions[u]
  BY <1>1, <1>2 DEF Typed
<1>3. ASSUME NEW u \in Turns
      PROVE  TurnInv(u)'
  <2>1. CASE u # t
    BY <1>2, <2>1, OtherTurnsKeep DEF RuntimeInv
  <2>2. CASE u = t
    <3>1. EffectsInv(t)'
      BY <1>1 DEF TurnInv, EffectsInv, EffectsAt
    <3>2. JobInv(t)'
      BY <1>1 DEF JobInv, Working
    <3> QED
      BY <2>2, <3>1, <3>2 DEF TurnInv
  <2> QED
    BY <2>1, <2>2
<1>4. \A u \in Turns : RowGrows(u) /\ AnswerStays(u)
  BY <1>2 DEF RowGrows, AnswerStays
<1>5. RecoveryInv'
  BY <1>1, <1>4, RecoveryKeeps DEF RuntimeInv
<1>6. Typed'
  <2>1. RecoveryTyped'
    BY <1>1 DEF Typed, RecoveryTyped, RecoveryRecord
  <2>2. turns' \in [Turns -> Rows] /\ submissions' \in [Turns -> SubmissionRecords]
    BY <1>1 DEF Typed
  <2> QED
    BY <1>1, <2>1, <2>2 DEF Typed, JobTyped
<1>7. ProcessInv'
  <2>1. lifecycle = "running" \/ ~NoWork
    BY DEF NoWork
  <2> QED
    BY <2>1 DEF RuntimeInv, ProcessInv
<1> QED
  BY <1>3, <1>5, <1>6, <1>7 DEF RuntimeInv

\* What every step of a submission leaves alone.
SubmissionFrame ==
    UNCHANGED <<jobs, effects, outboxOutcomes, auditStarts, generation, draining, policy, recovery, lifecycle,
                closing>>

LEMMA QuietFrame ==
    ASSUME SubmissionQuiet
    PROVE  SubmissionFrame
  BY DEF SubmissionQuiet, SubmissionOnly, SubmissionFrame, outboxVars, auditVars, pipelineVars, dispatcherVars

\* A submission that moves its row, finds it moved, or leaves it.
LEMMA SubmissionMoveHolds ==
    ASSUME RuntimeInv, NEW t \in Turns, submissions[t].stage \notin {"none", "ended"},
           NEW to \in {"authenticated", "accepted", "queued"},
           \/ turns' = turns
           \/ turns[t].state \in TurnStates /\ to \in LegalTransitions[turns[t].state] /\ RowMoved(t, to),
           sequenceCounters' \in [Conversations -> 1 .. MaxSafeInteger],
           submissions' = [submissions EXCEPT ![t] = submissions'[t]], submissions'[t] \in SubmissionRecords,
           SubmissionInv(t)', SubmissionFrame
    PROVE  RuntimeInv'
<1>1. Typed /\ TurnInv(t)
  BY DEF RuntimeInv
<1>2. UNCHANGED <<effects[t], outboxOutcomes[t], auditStarts[t]>>
  BY DEF SubmissionFrame
<1>3. RowInv(t)' /\ RowAdvances(t) /\ turns'[t] \in Rows /\ turns' = [turns EXCEPT ![t] = turns'[t]]
  <2>1. CASE turns' = turns
    BY <1>1, <1>2, <2>1 DEF TurnInv, RowInv, Present, Settled, RowAdvances, Typed
  <2>2. CASE turns[t].state \in TurnStates /\ to \in LegalTransitions[turns[t].state] /\ RowMoved(t, to)
    <3>1. to \notin AskedStates /\ to \notin EndedDelivery
      BY DEF AskedStates, DeliveryStates, EndedDelivery
    <3>2. turns'[t] \in Rows /\ turns' = [turns EXCEPT ![t] = turns'[t]]
      BY <2>2 DEF RowMoved
    <3>3. RowInv(t)' /\ RowAdvances(t)
      BY <1>1, <1>2, <2>2, <3>1, RowMoveHolds DEF TurnInv
    <3> QED
      BY <3>2, <3>3
  <2> QED
    BY <2>1, <2>2
<1>4. \A u \in Turns : RowAdvances(u)
  BY <1>1, <1>3 DEF RowAdvances, Typed
<1>5. OneTurnPerTransportEvent' /\ RowGrows(t)
  BY <1>4, KeysStay DEF RuntimeInv, RowGrows, RowAdvances
<1> QED
  BY <1>3, <1>5, SubmissionStepHolds DEF SubmissionFrame

LEMMA ObserveHolds ==
    ASSUME RuntimeInv, NEW t \in Turns, NEW key \in TransportKeys, Observe(t, key)
    PROVE  RuntimeInv'
<1> DEFINE fresh == ObserveOutcome(t, key) = "fresh-observed"
           ended == [NoSubmission EXCEPT !.stage = IF fresh THEN "binding" ELSE "ended", !.revision = 1]
<1>1. /\ Typed /\ TurnInv(t) /\ submissions[t].stage = "none" /\ lifecycle = "running"
      /\ effects[t] = NoEffects
  BY DEF RuntimeInv, TurnInv, EffectsInv, Observe, IngressOpen, SubmissionAt
<1>2. SubmissionFrame
  BY QuietFrame DEF Observe
<1>3. /\ turns' = IF fresh THEN [turns EXCEPT ![t] = ObservedRow(key)] ELSE turns
      /\ sequenceCounters' = sequenceCounters
      /\ submissions' = [submissions EXCEPT ![t] = ended]
  BY DEF Observe, ObserveTransportEvent, SubmissionTo
<1>4. ended \in SubmissionRecords /\ ended.stage = (IF fresh THEN "binding" ELSE "ended") /\ ended.revision = 1
  BY DEF SubmissionRecords, NoSubmission, SubmissionStages
<1>5. fresh => ~AlreadyObserved(key) /\ ~Present(t)
  BY DEF ObserveOutcome
<1> HIDE DEF ended, fresh
<1>6. submissions'[t] = ended /\ submissions' = [submissions EXCEPT ![t] = submissions'[t]]
  BY <1>1, <1>3 DEF Typed
<1>7. CASE ~fresh
  <2>1. /\ turns' = [turns EXCEPT ![t] = turns'[t]] /\ turns'[t] \in Rows /\ RowGrows(t)
        /\ OneTurnPerTransportEvent'
    BY <1>1, <1>3, <1>7 DEF Typed, RowGrows, RuntimeInv, OneTurnPerTransportEvent, Present
  <2>2. RowInv(t)'
    BY <1>1, <1>2, <1>3, <1>7 DEF TurnInv, RowInv, Present, Settled, SubmissionFrame
  <2>3. SubmissionInv(t)'
    BY <1>4, <1>6, <1>7 DEF SubmissionInv
  <2>4. sequenceCounters' \in [Conversations -> 1 .. MaxSafeInteger]
    BY <1>1, <1>3 DEF Typed
  <2> QED
    BY <1>1, <1>2, <1>4, <1>6, <2>1, <2>2, <2>3, <2>4, SubmissionStepHolds DEF SubmissionFrame
<1>8. CASE fresh
  <2>1. /\ turns'[t] = ObservedRow(key) /\ turns' = [turns EXCEPT ![t] = turns'[t]]
        /\ turns'[t] \in Rows /\ turns'[t].state = "observed" /\ turns'[t].revision = 1
        /\ turns'[t].key = key /\ turns'[t].facts.delivery = "not_started"
        /\ \A u \in Turns : u # t => turns'[u] = turns[u]
    BY <1>1, <1>3, <1>8, NewRow DEF Typed, InitialFacts, FactsOf
  <2>2. RowGrows(t)
    <3>1. turns[t].revision = 0
      BY <1>1, <1>5, <1>8 DEF TurnInv, RowInv, AbsentRow
    <3> QED
      BY <2>1, <3>1 DEF RowGrows
  <2>3. OneTurnPerTransportEvent'
    BY <1>5, <1>8, <2>1 DEF RuntimeInv, OneTurnPerTransportEvent, AlreadyObserved, Present
  <2>4. RowInv(t)'
    BY <1>1, <1>2, <2>1 DEF TurnInv, RowInv, Present, Settled, SubmissionFrame, NoEffects, AskedStates,
                            EndedDelivery, DeliveryStates, SettledDeliveries
  <2>5. SubmissionInv(t)'
    BY <1>4, <1>6, <1>8, <2>1 DEF SubmissionInv, SubmittedState
  <2>6. sequenceCounters' \in [Conversations -> 1 .. MaxSafeInteger]
    BY <1>1, <1>3 DEF Typed
  <2> QED
    BY <1>1, <1>2, <1>4, <1>6, <2>1, <2>2, <2>3, <2>4, <2>5, <2>6, SubmissionStepHolds DEF SubmissionFrame
<1> QED
  BY <1>7, <1>8

\* The locals of a submission after a step of its line.
LEMMA SubmissionLeaves ==
    ASSUME Typed, NEW t \in Turns, LeaveAdmission(t)
    PROVE  /\ submissions' = [submissions EXCEPT ![t] = submissions'[t]]
           /\ submissions'[t] \in SubmissionRecords /\ submissions'[t].stage = "ended"
           /\ submissions'[t] = [NoSubmission EXCEPT !.stage = "ended"]
  BY EndedSubmission DEF LeaveAdmission, SubmissionTo, Typed

LEMMA SubmissionGoesOn ==
    ASSUME Typed, NEW t \in Turns, NEW proven \in BOOLEAN, NEW advance \in {0, 1}, NEW stage \in SubmissionStages,
           Admit(t, proven, advance, stage)
    PROVE  /\ submissions' = [submissions EXCEPT ![t] = submissions'[t]]
           /\ submissions'[t] \in SubmissionRecords
           /\ submissions'[t].stage = (IF proven THEN stage ELSE "ended")
           /\ proven => submissions'[t].revision = submissions[t].revision + advance
<1>1. submissions \in [Turns -> SubmissionRecords] /\ submissions[t] \in SubmissionRecords
  BY DEF Typed
<1>2. CASE ~proven
  BY <1>2, SubmissionLeaves DEF Admit
<1>3. CASE proven
  <2> DEFINE staged == [submissions[t] EXCEPT !.stage = stage]
  <2>1. submissions' = [submissions EXCEPT ![t] = [staged EXCEPT !.revision = submissions[t].revision + advance]]
    BY Zenon, <1>3 DEF Admit, SubmissionTo
  <2>2. staged \in SubmissionRecords /\ staged.stage = stage /\ submissions[t].revision \in Nat
    BY <1>1 DEF SubmissionRecords
  <2> HIDE DEF staged
  <2>3. submissions'[t] = [staged EXCEPT !.revision = submissions[t].revision + advance]
    BY <1>1, <2>1
  <2> QED
    BY <1>1, <1>3, <2>1, <2>2, <2>3 DEF SubmissionRecords
<1> QED
  BY <1>2, <1>3

LEMMA BindsHold ==
    ASSUME RuntimeInv, NEW t \in Turns, (\E c \in Conversations : Bind(t, c)) \/ BindingFails(t)
    PROVE  RuntimeInv'
<1>1. /\ Typed /\ TurnInv(t) /\ submissions[t].stage = "binding" /\ SubmissionFrame
      /\ UNCHANGED <<turns, sequenceCounters>>
  BY QuietFrame DEF RuntimeInv, Bind, BindingFails, SubmissionAt, ledgerVars
<1>2. /\ submissions' = [submissions EXCEPT ![t] = submissions'[t]]
      /\ submissions'[t] \in SubmissionRecords
      /\ \/ submissions'[t].stage = "ended"
         \/ submissions'[t].stage = "authenticate" /\ submissions'[t].revision = submissions[t].revision
  <2>1. CASE \E c \in Conversations : Bind(t, c)
    <3>1. PICK c \in Conversations :
            submissions' = [submissions EXCEPT
              ![t] = [submissions[t] EXCEPT !.stage = "authenticate", !.conversation = c]]
      BY <2>1 DEF Bind, SubmissionTo
    <3>2. submissions[t] \in SubmissionRecords /\ submissions \in [Turns -> SubmissionRecords]
      BY <1>1 DEF Typed
    <3> QED
      BY <3>1, <3>2 DEF SubmissionRecords, SubmissionStages
  <2>2. CASE BindingFails(t)
    BY <1>1, <2>2, EndedSubmission DEF BindingFails, SubmissionTo, Typed
  <2> QED
    BY <2>1, <2>2
<1>3. SubmissionInv(t)'
  BY <1>1, <1>2 DEF TurnInv, SubmissionInv, SubmittedState, SubmissionFrame
<1>4. sequenceCounters' \in [Conversations -> 1 .. MaxSafeInteger] /\ turns' = turns
  BY <1>1 DEF Typed
<1> QED
  BY <1>1, <1>2, <1>3, <1>4, SubmissionMoveHolds

LEMMA AuthenticateHolds ==
    ASSUME RuntimeInv, NEW t \in Turns, Authenticate(t)
    PROVE  RuntimeInv'
<1> DEFINE kind == RecordAuthenticationOutcome(t, submissions[t].revision, "authenticated")
           proven == kind \in {"recorded", "already-recorded"}
           advance == IF kind = "recorded" THEN 1 ELSE 0
<1>1. /\ Typed /\ TurnInv(t) /\ submissions[t].stage = "authenticate" /\ SubmissionFrame
      /\ turns[t] \in Rows /\ turns \in [Turns -> Rows] /\ submissions[t] \in SubmissionRecords
  BY QuietFrame DEF RuntimeInv, Authenticate, SubmissionAt, Typed
<1>2. sequenceCounters' \in [Conversations -> 1 .. MaxSafeInteger]
  BY <1>1 DEF Authenticate, RecordAuthenticationResult, ledgerVars, Typed
<1>5. /\ proven \in BOOLEAN /\ advance \in {0, 1} /\ (kind = "recorded" => proven /\ advance = 1)
      /\ proven /\ kind # "recorded" => turns[t].state = "authenticated"
  BY DEF RecordAuthenticationOutcome
<1>3. CASE ~IngressOpen
  <2>1. LeaveAdmission(t) /\ turns' = turns
    BY <1>3 DEF Authenticate, ledgerVars
  <2>2. SubmissionInv(t)'
    BY <1>1, <2>1, SubmissionLeaves DEF SubmissionInv
  <2> QED
    BY <1>1, <1>2, <2>1, <2>2, SubmissionLeaves, SubmissionMoveHolds
<1>4. CASE IngressOpen
  <2>1. /\ RecordAuthenticationResult(t, submissions[t].revision, "authenticated", submissions[t].conversation)
        /\ Admit(t, proven, advance, "accept") /\ "accept" \in SubmissionStages
        /\ turns' = IF kind = "recorded"
                    THEN [turns EXCEPT ![t] = AuthenticatedRow(turns[t], "authenticated", submissions[t].conversation)]
                    ELSE turns
    BY <1>4 DEF Authenticate, SubmissionStages, RecordAuthenticationResult
  <2> HIDE DEF proven, advance, kind
  <2>4. /\ submissions' = [submissions EXCEPT ![t] = submissions'[t]] /\ submissions'[t] \in SubmissionRecords
        /\ submissions'[t].stage = (IF proven THEN "accept" ELSE "ended")
        /\ proven => submissions'[t].revision = submissions[t].revision + advance
    BY <1>1, <1>5, <2>1, SubmissionGoesOn
  <2>2. CASE kind = "recorded"
    <3>1. /\ turns[t].state \in TurnStates /\ "authenticated" \in LegalTransitions[turns[t].state]
          /\ turns[t].revision < MaxSafeInteger /\ turns[t].revision = submissions[t].revision
      BY <1>1, <2>2, ConstantsAssumption DEF kind, RecordAuthenticationOutcome, Present, Rows, Exhausted
    <3> DEFINE moved == MovedTo(turns[t], "authenticated")
               bound == [moved EXCEPT !.conversation = submissions[t].conversation]
    <3>2. /\ moved \in Rows /\ moved.state = "authenticated" /\ moved.revision = turns[t].revision + 1
          /\ moved.key = turns[t].key /\ moved.facts = turns[t].facts
      BY <1>1, <3>1, MovedRow DEF TurnStates
    <3>3. turns' = [turns EXCEPT ![t] = bound]
      BY <2>1, <2>2 DEF AuthenticatedRow
    <3> HIDE DEF moved
    <3>4. /\ bound \in Rows /\ bound.state = "authenticated" /\ bound.revision = turns[t].revision + 1
          /\ bound.key = turns[t].key /\ bound.facts = turns[t].facts
      BY <1>1, <3>2 DEF Rows, SubmissionRecords
    <3> HIDE DEF bound
    <3>5. RowMoved(t, "authenticated")
      BY <1>1, <3>3, <3>4 DEF RowMoved
    <3>6. /\ submissions' = [submissions EXCEPT ![t] = submissions'[t]] /\ submissions'[t] \in SubmissionRecords
          /\ submissions'[t].stage = "accept" /\ submissions'[t].revision = submissions[t].revision + 1
      BY <1>5, <2>2, <2>4
    <3>7. SubmissionInv(t)'
      BY <3>1, <3>5, <3>6 DEF SubmissionInv, SubmittedState, RowMoved
    <3> QED
      BY <1>1, <1>2, <3>1, <3>5, <3>6, <3>7, SubmissionMoveHolds
  <2>3. CASE kind # "recorded"
    <3>1. turns' = turns
      BY <2>1, <2>3
    <3>4. SubmissionInv(t)'
      BY <1>1, <1>5, <2>3, <2>4, <3>1 DEF TurnInv, SubmissionInv, SubmittedState, SubmissionFrame
    <3> QED
      BY <1>1, <1>2, <2>4, <3>1, <3>4, SubmissionMoveHolds
  <2> QED
    BY <2>2, <2>3
<1> QED
  BY <1>3, <1>4

LEMMA AcceptHolds ==
    ASSUME RuntimeInv, NEW t \in Turns, Accept(t)
    PROVE  RuntimeInv'
<1> DEFINE kind == AcceptOutcome(t, submissions[t].revision)
           proven == kind \in {"accepted", "already-accepted"}
           advance == IF kind = "accepted" THEN 1 ELSE 0
           c == turns[t].conversation
<1>1. /\ Typed /\ TurnInv(t) /\ submissions[t].stage = "accept" /\ SubmissionFrame
      /\ turns[t] \in Rows /\ turns \in [Turns -> Rows] /\ submissions[t].revision \in Nat
      /\ sequenceCounters \in [Conversations -> 1 .. MaxSafeInteger]
  BY QuietFrame DEF RuntimeInv, Accept, SubmissionAt, Typed, SubmissionRecords
<1>2. /\ Admit(t, proven, advance, "queue") /\ "queue" \in SubmissionStages
      /\ IF kind = "accepted"
         THEN /\ turns' = [turns EXCEPT ![t] = AcceptedRow(turns[t], sequenceCounters[c])]
              /\ sequenceCounters' = [sequenceCounters EXCEPT ![c] = sequenceCounters[c] + 1]
         ELSE UNCHANGED <<turns, sequenceCounters>>
  BY DEF Accept, SubmissionStages, AcceptConversationTurn, NextSequence
<1>3. /\ proven \in BOOLEAN /\ advance \in {0, 1} /\ (kind = "accepted" => proven /\ advance = 1)
      /\ proven /\ kind # "accepted" => turns[t].state = "accepted"
  BY DEF AcceptOutcome
<1>4. kind = "accepted" =>
        /\ turns[t].state \in TurnStates /\ "accepted" \in LegalTransitions[turns[t].state]
        /\ turns[t].revision < MaxSafeInteger /\ turns[t].revision = submissions[t].revision
        /\ c \in Conversations /\ sequenceCounters[c] \in 1 .. MaxSafeInteger
        /\ sequenceCounters[c] < MaxSafeInteger
  <2>1. SUFFICES ASSUME kind = "accepted"
                 PROVE  /\ turns[t].state \in TurnStates /\ "accepted" \in LegalTransitions[turns[t].state]
                        /\ turns[t].revision < MaxSafeInteger /\ turns[t].revision = submissions[t].revision
                        /\ c \in Conversations /\ sequenceCounters[c] \in 1 .. MaxSafeInteger
                        /\ sequenceCounters[c] < MaxSafeInteger
    OBVIOUS
  <2>2. /\ Present(t) /\ turns[t].revision = submissions[t].revision
        /\ "accepted" \in LegalTransitions[turns[t].state] /\ c # None
        /\ ~Exhausted(sequenceCounters[c]) /\ ~Exhausted(turns[t].revision)
    BY <2>1 DEF AcceptOutcome
  <2>3. c \in Conversations /\ turns[t].state \in TurnStates /\ turns[t].revision \in 0 .. MaxSafeInteger
    BY <1>1, <2>2 DEF Rows, Present
  <2> QED
    BY <1>1, <2>2, <2>3, ConstantsAssumption DEF Exhausted
<1> HIDE DEF proven, advance, kind, c
<1>5. /\ submissions' = [submissions EXCEPT ![t] = submissions'[t]] /\ submissions'[t] \in SubmissionRecords
      /\ submissions'[t].stage = (IF proven THEN "queue" ELSE "ended")
      /\ proven => submissions'[t].revision = submissions[t].revision + advance
  BY <1>1, <1>2, <1>3, SubmissionGoesOn
<1>6. CASE kind = "accepted"
  <2> DEFINE moved == MovedTo(turns[t], "accepted")
             placed == [moved EXCEPT !.sequence = sequenceCounters[c]]
  <2>1. /\ moved \in Rows /\ moved.state = "accepted" /\ moved.revision = turns[t].revision + 1
        /\ moved.key = turns[t].key /\ moved.facts = turns[t].facts
    BY <1>1, <1>4, <1>6, MovedRow DEF TurnStates
  <2>2. turns' = [turns EXCEPT ![t] = placed]
    BY <1>2, <1>6 DEF AcceptedRow
  <2> HIDE DEF moved
  <2>3. /\ placed \in Rows /\ placed.state = "accepted" /\ placed.revision = turns[t].revision + 1
        /\ placed.key = turns[t].key /\ placed.facts = turns[t].facts
    BY <1>4, <1>6, <2>1 DEF Rows
  <2> HIDE DEF placed
  <2>4. RowMoved(t, "accepted")
    BY <1>1, <2>2, <2>3 DEF RowMoved
  <2>5. SubmissionInv(t)'
    BY <1>3, <1>4, <1>5, <1>6, <2>4 DEF SubmissionInv, SubmittedState, RowMoved
  <2>6. sequenceCounters' \in [Conversations -> 1 .. MaxSafeInteger]
    <3>1. sequenceCounters[c] + 1 \in 1 .. MaxSafeInteger
      BY <1>4, <1>6, ConstantsAssumption
    <3> QED
      BY <1>1, <1>2, <1>4, <1>6, <3>1
  <2> QED
    BY <1>1, <1>4, <1>5, <1>6, <2>4, <2>5, <2>6, SubmissionMoveHolds
<1>7. CASE kind # "accepted"
  <2>1. turns' = turns /\ sequenceCounters' \in [Conversations -> 1 .. MaxSafeInteger]
    BY <1>1, <1>2, <1>7
  <2>2. SubmissionInv(t)'
    BY <1>1, <1>3, <1>5, <1>7, <2>1 DEF TurnInv, SubmissionInv, SubmittedState, SubmissionFrame
  <2> QED
    BY <1>1, <1>5, <2>1, <2>2, SubmissionMoveHolds
<1> QED
  BY <1>6, <1>7

\* A submission that ends and takes the runtime down.
LEMMA SubmissionStopHolds ==
    ASSUME RuntimeInv, NEW t \in Turns, LeaveAdmission(t), FailRuntime(jobs), SubmissionOnly,
           UNCHANGED <<turns, sequenceCounters, policy, effects>>
    PROVE  RuntimeInv'
<1>1. /\ StopWork(jobs) /\ draining' = TRUE /\ Typed
      /\ UNCHANGED <<turns, sequenceCounters, outboxOutcomes, auditStarts, effects, policy, recovery>>
  BY DEF FailRuntime, BeginDispatcherDrain, DropQueues, SubmissionOnly, outboxVars, auditVars, RuntimeInv
<1>2. \A u \in Turns : SubmissionStops(u)
  <2>1. /\ submissions' = [submissions EXCEPT ![t] = submissions'[t]]
        /\ submissions'[t] = [NoSubmission EXCEPT !.stage = "ended"]
    BY <1>1, SubmissionLeaves
  <2> QED
    BY <1>1, <2>1 DEF SubmissionStops, Typed
<1>3. DOMAIN submissions' = Turns /\ submissions' = [u \in Turns |-> submissions'[u]]
  BY <1>1, SubmissionLeaves DEF Typed
<1> QED
  BY <1>1, <1>2, <1>3, StopHolds

LEMMA QueueHolds ==
    ASSUME RuntimeInv, NEW t \in Turns, Queue(t)
    PROVE  RuntimeInv'
<1> DEFINE kind == TransitionOutcome(t, submissions[t].revision, "accepted", "queued")
           proven == kind \in {"transitioned", "already-transitioned"}
           advance == IF kind = "transitioned" THEN 1 ELSE 0
<1>1. /\ Typed /\ TurnInv(t) /\ submissions[t].stage = "queue" /\ submissions[t].revision \in Nat
  BY DEF RuntimeInv, Queue, SubmissionAt, Typed, SubmissionRecords
<1>2. /\ Transition(t, submissions[t].revision, "accepted", "queued")
      /\ Admit(t, proven, advance, "publish") /\ "publish" \in SubmissionStages
      /\ IF proven
         THEN UNCHANGED <<jobs, generation, dispatcherVars, lifecycle, ingress>>
         ELSE FailRuntime(jobs)
      /\ SubmissionOnly /\ UNCHANGED <<sideEffects, policy, effects, faults>>
  BY DEF Queue, SubmissionStages
<1>3. proven \in BOOLEAN /\ advance \in {0, 1} /\ (kind = "transitioned" => proven /\ advance = 1)
  OBVIOUS
<1>4. /\ sequenceCounters' = sequenceCounters
      /\ \/ /\ kind = "transitioned" /\ turns[t].revision = submissions[t].revision
            /\ turns[t].state = "accepted" /\ "queued" \in LegalTransitions["accepted"] /\ RowMoved(t, "queued")
         \/ kind = "already-transitioned" /\ turns[t].state = "queued" /\ turns' = turns
         \/ ~proven /\ turns' = turns
  BY <1>1, <1>2, TransitionEffect DEF TurnStates
<1>5. kind = "already-transitioned" => proven
  OBVIOUS
<1> HIDE DEF proven, advance, kind
<1>6. CASE ~proven
  <2>1. LeaveAdmission(t) /\ FailRuntime(jobs) /\ turns' = turns
    BY <1>2, <1>3, <1>4, <1>6 DEF Admit
  <2> QED
    BY <1>2, <1>4, <2>1, SubmissionStopHolds
<1>7. CASE proven
  <2>1. SubmissionFrame
    BY <1>2, <1>7 DEF SubmissionFrame, SubmissionOnly, dispatcherVars, outboxVars, auditVars
  <2>2. /\ submissions' = [submissions EXCEPT ![t] = submissions'[t]] /\ submissions'[t] \in SubmissionRecords
        /\ submissions'[t].stage = "publish"
        /\ submissions'[t].revision = submissions[t].revision + advance
    BY <1>1, <1>2, <1>3, <1>7, SubmissionGoesOn
  <2>3. \/ turns' = turns
        \/ /\ turns[t].state \in TurnStates /\ "queued" \in LegalTransitions[turns[t].state]
           /\ RowMoved(t, "queued")
    BY <1>4 DEF TurnStates
  <2>4. SubmissionInv(t)'
    <3>1. CASE kind = "transitioned"
      BY <1>3, <1>4, <1>5, <2>2, <3>1 DEF SubmissionInv, SubmittedState, RowMoved
    <3>2. CASE kind # "transitioned"
      BY <1>1, <1>4, <1>7, <2>1, <2>2, <3>2 DEF TurnInv, SubmissionInv, SubmittedState, SubmissionFrame
    <3> QED
      BY <3>1, <3>2
  <2>5. sequenceCounters' \in [Conversations -> 1 .. MaxSafeInteger]
    BY <1>1, <1>4 DEF Typed
  <2> QED
    BY <1>1, <2>1, <2>2, <2>3, <2>4, <2>5, SubmissionMoveHolds
<1> QED
  BY <1>6, <1>7

LEMMA SubmissionFailsHolds ==
    ASSUME RuntimeInv, NEW t \in Turns, SubmissionFails(t)
    PROVE  RuntimeInv'
<1>1. /\ Typed /\ LeaveAdmission(t) /\ SubmissionOnly
      /\ UNCHANGED <<ledgerVars, sideEffects, policy, effects>>
      /\ submissions[t].stage \in {"authenticate", "accept", "queue"}
  BY DEF SubmissionFails, RuntimeInv
<1>2. UNCHANGED <<turns, sequenceCounters>>
  BY <1>1 DEF ledgerVars
<1>3. CASE submissions[t].stage = "queue"
  <2>1. FailRuntime(jobs)
    BY <1>3 DEF SubmissionFails, SubmissionAt
  <2> QED
    BY <1>1, <1>2, <2>1, SubmissionStopHolds
<1>4. CASE submissions[t].stage # "queue"
  <2>1. UNCHANGED <<jobs, generation, dispatcherVars, lifecycle>>
    BY <1>4 DEF SubmissionFails, SubmissionAt
  <2>2. SubmissionFrame
    BY <1>1, <2>1 DEF SubmissionFrame, SubmissionOnly, dispatcherVars, outboxVars, auditVars
  <2>3. /\ submissions' = [submissions EXCEPT ![t] = submissions'[t]] /\ submissions'[t] \in SubmissionRecords
        /\ submissions'[t].stage = "ended"
    BY <1>1, SubmissionLeaves
  <2>4. SubmissionInv(t)'
    BY <2>3 DEF SubmissionInv
  <2>5. turns' = turns /\ sequenceCounters' \in [Conversations -> 1 .. MaxSafeInteger]
    BY <1>1, <1>2 DEF Typed
  <2> QED
    BY <1>1, <2>2, <2>3, <2>4, <2>5, SubmissionMoveHolds
<1> QED
  BY <1>3, <1>4

\* The job a submission publishes has the row to itself: outside a drain it is of
\* the current generation, with the revision the submission has moved the row to.
LEMMA PublishHolds ==
    ASSUME RuntimeInv, NEW t \in Turns, Publish(t)
    PROVE  RuntimeInv'
<1> DEFINE home == submissions[t].conversation
           job == [NoJob EXCEPT !.stage = "queued", !.revision = submissions[t].revision, !.generation = generation]
           now == [jobs EXCEPT ![t] = job]
<1>1. /\ Typed /\ TurnInv(t) /\ submissions[t].stage = "publish" /\ submissions[t].revision \in Nat
      /\ generation \in Nat /\ jobs[t].stage = "idle" /\ effects[t] = NoEffects
      /\ LeaveAdmission(t) /\ SubmissionOnly
      /\ UNCHANGED <<turns, sequenceCounters, generation, policy, effects, lifecycle>>
  BY DEF RuntimeInv, Publish, SubmissionAt, Typed, SubmissionRecords, TurnInv, EffectsInv, ledgerVars
<1>2. /\ jobs' = IF EnqueueOutcome(home) = "enqueued" THEN Started(now) ELSE jobs
      /\ draining' = draining
  BY DEF Publish, Enqueue, dispatcherVars
<1>3. UNCHANGED <<outboxOutcomes, auditStarts, recovery, closing>>
  BY <1>1 DEF SubmissionOnly, outboxVars, auditVars
<1>4. /\ submissions' = [submissions EXCEPT ![t] = submissions'[t]]
      /\ submissions'[t] \in SubmissionRecords /\ submissions'[t].stage = "ended"
  BY <1>1, SubmissionLeaves
<1>5. CASE EnqueueOutcome(home) # "enqueued"
  <2>1. SubmissionFrame
    BY <1>1, <1>2, <1>3, <1>5 DEF SubmissionFrame
  <2>2. SubmissionInv(t)'
    BY <1>4 DEF SubmissionInv
  <2>3. turns' = turns /\ sequenceCounters' \in [Conversations -> 1 .. MaxSafeInteger]
    BY <1>1 DEF Typed
  <2> QED
    BY <1>1, <1>4, <2>1, <2>2, <2>3, SubmissionMoveHolds
<1>6. CASE EnqueueOutcome(home) = "enqueued"
  <2>1. ~draining /\ jobs' = Started(now)
    BY <1>1, <1>2, <1>6 DEF EnqueueOutcome, Typed
  <2>2. turns[t].revision = submissions[t].revision /\ turns[t].state = "queued"
    BY <1>1, <2>1 DEF TurnInv, SubmissionInv, SubmittedState
  <2>3. /\ JobTyped(job) /\ job.stage = "queued" /\ job.revision = submissions[t].revision
        /\ job.generation = generation /\ job.delivery = None /\ job.checkpoint = "pending"
    BY <1>1 DEF JobTyped, NoJob, Stages
  <2>4. \A u \in Turns : now[u] = IF u = t THEN job ELSE jobs[u]
    BY <1>1 DEF Typed
  <2> HIDE DEF now, job
  <2>5. /\ DOMAIN jobs' = Turns /\ jobs' = [u \in Turns |-> jobs'[u]]
        /\ \A u \in Turns : Starts(jobs'[u], now[u])
    BY <2>1, StartedJobs
  <2>6. /\ JobTyped(jobs'[t]) /\ jobs'[t].revision = turns[t].revision /\ jobs'[t].generation = generation
        /\ jobs'[t].delivery = None /\ jobs'[t].checkpoint = "pending"
        /\ jobs'[t].stage \in {"queued", "kill-switch", "done"}
    BY <2>2, <2>3, <2>4, <2>5, StartedLocals
  <2>7. TurnInv(t)'
    <3>1. RowInv(t)'
      BY <1>1, <1>3 DEF TurnInv, RowInv, Present, Settled
    <3>2. EffectsInv(t)'
      BY <1>1, <1>4, <2>6 DEF TurnInv, EffectsInv, EffectsAt, UnsentStages, AnsweredStages, UnknownStages
    <3>3. JobInv(t)'
      <4> SUFFICES ASSUME jobs'[t].stage \in {"queued", "kill-switch"}
                   PROVE  JobInv(t)'
        BY <2>6 DEF JobInv, Working
      <4>1. StateAt(jobs'[t].stage, jobs'[t]) = "queued" /\ LearntAt(jobs'[t].stage, jobs'[t])
        BY <2>6 DEF StateAt, LearntAt, UnaskedStages, UnsentStages, AnsweredStages, UnknownStages
      <4>2. None \notin ProvenOutcomes
        BY OutboxAssumption DEF ProvenOutcomes, DeliveryOutcomes
      <4>3. turns[t].revision \in Nat
        BY <1>1, <2>2
      <4> QED
        BY <1>1, <1>2, <2>1, <2>2, <2>6, <4>1, <4>2, <4>3 DEF JobInv, GenerationCurrent
    <3>4. SubmissionInv(t)'
      BY <1>4 DEF SubmissionInv
    <3> QED
      BY <3>1, <3>2, <3>3, <3>4 DEF TurnInv
  <2>8. ASSUME NEW u \in Turns, u # t
        PROVE  TurnInv(u)' /\ JobTyped(jobs'[u])
    <3>1. submissions'[u] = submissions[u] /\ Starts(jobs'[u], jobs[u])
      BY <1>1, <1>4, <2>4, <2>5, <2>8 DEF Typed
    <3> QED
      BY <1>1, <1>2, <1>3, <3>1, StartedTurnKeeps
  <2>9. \A u \in Turns : RowGrows(u) /\ AnswerStays(u)
    BY <1>1 DEF RowGrows, AnswerStays
  <2>10. RecoveryInv'
    BY <1>1, <1>3, <2>9, RecoveryKeeps DEF RuntimeInv
  <2>11. Typed'
    <3>1. RecoveryTyped'
      BY <1>1, <1>3 DEF Typed, RecoveryTyped, RecoveryRecord
    <3>2. submissions' \in [Turns -> SubmissionRecords]
      BY <1>1, <1>4 DEF Typed
    <3>3. \A u \in Turns : JobTyped(jobs'[u])
      BY <2>6, <2>8
    <3> QED
      BY <1>1, <1>2, <1>3, <2>5, <3>1, <3>2, <3>3 DEF Typed, JobTyped
  <2>12. ProcessInv'
    <3>1. ~NoWork
      BY <1>1 DEF NoWork
    <3> QED
      BY <1>1, <1>2, <1>3, <3>1 DEF RuntimeInv, ProcessInv
  <2>13. OneTurnPerTransportEvent'
    BY <1>1 DEF RuntimeInv, OneTurnPerTransportEvent, Present
  <2> QED
    BY <2>7, <2>8, <2>10, <2>11, <2>12, <2>13 DEF RuntimeInv
<1> QED
  BY <1>5, <1>6

\* A new process has no job, no submission on its way and no recovery under way.
Fresh ==
    /\ Typed /\ OneTurnPerTransportEvent
    /\ \A t \in Turns : /\ RowInv(t) /\ EffectsInv(t)
                       /\ jobs[t].stage = "idle" /\ submissions[t].stage \in {"none", "ended"}
    /\ recovery = NoRecovery /\ ~closing

LEMMA FreshProcess == Fresh => RuntimeInv
<1> SUFFICES ASSUME Fresh
             PROVE  RuntimeInv
  OBVIOUS
<1> USE DEF Fresh
<1>1. \A t \in Turns : JobInv(t) /\ SubmissionInv(t)
  BY DEF JobInv, Working, SubmissionInv
<1>2. NoRecovery.stage = "idle" /\ NoRecovery.rows = <<>>
  BY NoRecoveryTyped
<1>3. RecoveryInv
  BY <1>2 DEF RecoveryInv, CandidateInv, AtCandidate
<1>4. ProcessInv
  BY <1>2 DEF ProcessInv, NoWork
<1> QED
  BY <1>1, <1>3, <1>4 DEF RuntimeInv, TurnInv

LEMMA CrashHolds ==
    ASSUME RuntimeInv, Crash
    PROVE  RuntimeInv'
<1>1. /\ UNCHANGED <<turns, sequenceCounters, outboxOutcomes, auditStarts, effects>>
      /\ jobs' = [t \in Turns |-> NoJob] /\ generation' = 0 /\ policy' \in PolicyVersions
      /\ recovery' = NoRecovery /\ draining' = FALSE /\ closing' = FALSE /\ Typed
      /\ submissions' = [t \in Turns |->
           IF submissions[t].stage = "none" THEN NoSubmission ELSE [NoSubmission EXCEPT !.stage = "ended"]]
  BY DEF Crash, storeVars, ledgerVars, outboxVars, auditVars, SubmissionAt, RuntimeInv
<1>2. JobTyped(NoJob) /\ NoJob.stage = "idle"
  BY DEF JobTyped, NoJob, Stages
<1>3. \A t \in Turns : /\ submissions'[t] \in SubmissionRecords /\ submissions'[t].stage \in {"none", "ended"}
                       /\ submissions[t].stage = "none" \/ submissions'[t].stage = "ended"
  BY <1>1, EndedSubmission
<1>4. Typed'
  <2>1. RecoveryTyped'
    BY <1>1, NoRecoveryTyped DEF RecoveryTyped, RecoveryRecord
  <2>2. submissions' \in [Turns -> SubmissionRecords]
    BY <1>1, <1>3
  <2>3. \A t \in Turns : JobTyped(jobs'[t])
    BY <1>1, <1>2
  <2>4. DOMAIN jobs' = Turns /\ jobs' = [t \in Turns |-> jobs'[t]]
    BY <1>1
  <2> QED
    BY <1>1, <2>1, <2>2, <2>3, <2>4 DEF Typed, JobTyped
<1>5. \A t \in Turns : RowInv(t)' /\ EffectsInv(t)'
  <2> TAKE t \in Turns
  <2>1. TurnInv(t)
    BY DEF RuntimeInv
  <2>2. RowInv(t)'
    BY <1>1, <2>1 DEF TurnInv, RowInv, Present, Settled
  <2>3. EffectsInv(t)'
    BY <1>1, <1>2, <1>3, <2>1 DEF TurnInv, EffectsInv, EffectsAt, UnaskedStages, UnsentStages, AnsweredStages,
                                  UnknownStages
  <2> QED
    BY <2>2, <2>3
<1>6. OneTurnPerTransportEvent'
  BY <1>1 DEF RuntimeInv, OneTurnPerTransportEvent, Present
<1>7. (recovery = NoRecovery)'
  BY <1>1 DEF NoRecovery, NoSnapshot, AbsentRow
<1>8. (\A t \in Turns : jobs[t].stage = "idle" /\ submissions[t].stage \in {"none", "ended"})'
  BY <1>1, <1>2, <1>3
<1>9. Fresh'
  BY <1>1, <1>4, <1>5, <1>6, <1>7, <1>8 DEF Fresh
<1> QED
  BY <1>9, FreshProcess, PTL

LEMMA RuntimeStarts == RuntimeInit => RuntimeInv
<1>1. SUFFICES ASSUME RuntimeInit
               PROVE  Fresh
  BY FreshProcess
<1>2. /\ turns = [t \in Turns |-> AbsentRow] /\ sequenceCounters = [c \in Conversations |-> 1]
      /\ jobs = [t \in Turns |-> NoJob] /\ effects = [t \in Turns |-> NoEffects]
      /\ submissions = [t \in Turns |-> NoSubmission]
      /\ outboxOutcomes = [t \in Turns |-> None] /\ auditStarts = [t \in Turns |-> None]
      /\ policy \in PolicyVersions /\ generation = 0 /\ draining = FALSE /\ recovery = NoRecovery
      /\ closing = FALSE
  BY <1>1 DEF RuntimeInit, LedgerInit, OutboxInit, AuditInit, PipelineInit, RecoveryInit, DispatcherInit
<1>3. /\ JobTyped(NoJob) /\ NoJob.stage = "idle" /\ NoEffects \in EffectRecords
      /\ AbsentRow \in Rows /\ NoSubmission \in SubmissionRecords /\ NoSubmission.stage = "none"
  BY InitialRows, EndedSubmission DEF JobTyped, NoJob, Stages, NoEffects, EffectRecords
<1>4. RecoveryTyped
  BY <1>2, NoRecoveryTyped DEF RecoveryTyped
<1>5. Typed
  <2>1. 1 \in 1 .. MaxSafeInteger
    BY ConstantsAssumption
  <2> QED
    BY <1>2, <1>3, <1>4, <2>1 DEF Typed
<1>6. \A t \in Turns : RowInv(t) /\ EffectsInv(t)
  <2> TAKE t \in Turns
  <2>1. /\ turns[t] = AbsentRow /\ effects[t] = NoEffects /\ outboxOutcomes[t] = None /\ jobs[t].stage = "idle"
    BY <1>2, <1>3
  <2>2. None \notin ProvenOutcomes
    BY OutboxAssumption DEF ProvenOutcomes, DeliveryOutcomes
  <2>3. RowInv(t)
    BY <2>1, <2>2 DEF RowInv, Present, Settled, AbsentRow, InitialFacts, FactsOf, NoEffects, AskedStates, EndedDelivery,
                      DeliveryStates, SettledDeliveries
  <2>4. EffectsInv(t)
    BY <2>1 DEF EffectsInv, EffectsAt, NoEffects, UnaskedStages, UnsentStages, AnsweredStages, UnknownStages
  <2> QED
    BY <2>3, <2>4
<1>7. OneTurnPerTransportEvent
  BY <1>2 DEF OneTurnPerTransportEvent, Present, AbsentRow
<1> QED
  BY <1>2, <1>3, <1>5, <1>6, <1>7 DEF Fresh

\* Every step of the runtime keeps its invariant.
LEMMA RuntimeSteps == RuntimeInv /\ [RuntimeNext]_runtimeVars => RuntimeInv'
<1>1. SUFFICES ASSUME RuntimeInv, [RuntimeNext]_runtimeVars
               PROVE  RuntimeInv'
  OBVIOUS
<1>2. CASE UNCHANGED runtimeVars
  <2>1. /\ UNCHANGED <<storeVars, pipelineVars, draining, submissions>>
        /\ recovery' = recovery /\ lifecycle' = lifecycle /\ closing' = closing
    BY <1>2 DEF runtimeVars, dispatcherVars, orchestratorVars
  <2> QED
    BY <1>1, <2>1, LifecycleHolds DEF RuntimeInv, ProcessInv
<1>3. CASE Start \/ StartReturns \/ CloseReturns
  BY <1>1, <1>3, StartsHold
<1>4. CASE Recover
  BY <1>1, <1>4, RecoverHolds
<1>5. CASE \E close \in BOOLEAN : BeginDrain(close)
  BY <1>1, <1>5, DrainsHold
<1>6. CASE Crash
  BY <1>1, <1>6, CrashHolds
<1>7. ASSUME NEW t \in Turns,
             \/ \E key \in TransportKeys : Observe(t, key)
             \/ \E c \in Conversations : Bind(t, c)
             \/ BindingFails(t) \/ Authenticate(t) \/ Accept(t) \/ Queue(t) \/ Publish(t)
             \/ SubmissionFails(t)
      PROVE  RuntimeInv'
  BY <1>1, <1>7, ObserveHolds, BindsHold, AuthenticateHolds, AcceptHolds, QueueHolds, PublishHolds,
     SubmissionFailsHolds
<1>8. ASSUME NEW t \in Turns, JobStep(t) \/ JobFails(t) \/ JobEnds(t)
      PROVE  RuntimeInv'
  BY <1>1, <1>8, JobHolds, DrainsHold, JobEndsHolds
<1> QED
  BY <1>1, <1>2, <1>3, <1>4, <1>5, <1>6, <1>7, <1>8 DEF RuntimeNext

LEMMA RuntimeKeepsInv == RuntimeSpec => []RuntimeInv
<1> QED
  BY RuntimeStarts, RuntimeSteps, PTL DEF RuntimeSpec

----------------------------------------------------------------------------
\* No provider is called for a turn whose audit start is not durable, whatever was
\* dropped, failed or crashed (recordStart precedes the gate of processTextTurn).
THEOREM AuditPrecedesCalls == RuntimeSpec => []AuditStartPrecedesCalls
<1>1. RuntimeInv => AuditStartPrecedesCalls
  <2> SUFFICES ASSUME RuntimeInv, NEW t \in Turns, effects[t].llm + effects[t].delivery > 0
               PROVE  auditStarts[t] # None
    BY DEF AuditStartPrecedesCalls
  <2>1. effects[t] \in EffectRecords /\ TurnInv(t)
    BY DEF RuntimeInv, Typed
  <2>2. effects[t].llm = 1 \/ effects[t].delivery = 1
    BY <2>1 DEF EffectRecords
  <2> QED
    BY <2>1, <2>2 DEF TurnInv, RowInv, EffectsInv
<1> QED
  BY <1>1, RuntimeKeepsInv, PTL

\* The ledger says delivered or failed only of what the provider said so.
THEOREM DeliveryIsTrue == RuntimeSpec => []LedgerDeliveryIsTrue
<1>1. RuntimeInv => LedgerDeliveryIsTrue
  BY DEF RuntimeInv, TurnInv, RowInv, LedgerDeliveryIsTrue
<1> QED
  BY <1>1, RuntimeKeepsInv, PTL

\* A turn whose answer may have been sent is never completed as one that was not.
THEOREM SentStaysKnown == RuntimeSpec => []SentIsNeverForgotten
<1>1. RuntimeInv => SentIsNeverForgotten
  <2> SUFFICES ASSUME RuntimeInv, NEW t \in Turns, turns[t].state = "completed", effects[t].delivery > 0
               PROVE  turns[t].facts.delivery # "not_started"
    BY DEF SentIsNeverForgotten
  <2>1. effects[t] \in EffectRecords /\ TurnInv(t)
    BY DEF RuntimeInv, Typed
  <2>2. effects[t].delivery = 1
    BY <2>1 DEF EffectRecords
  <2>3. Settled(t)
    BY <2>1, <2>2 DEF TurnInv, RowInv, DeliveryStates, EndedDelivery
  <2> QED
    BY <2>3 DEF Settled, SettledDeliveries
<1> QED
  BY <1>1, RuntimeKeepsInv, PTL
===============================================================================
