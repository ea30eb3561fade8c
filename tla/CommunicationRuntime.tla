------------------------ MODULE CommunicationRuntime ------------------------
(***************************************************************************)
(* The communication orchestrator, over the stores, the pipeline, recovery *)
(* and the dispatcher: it starts by recovering, admits observations one at *)
(* a time per conversation, runs their turns, fails or drains, and crashes.*)
(* A crash ends the process: what is volatile is lost, the tables stay.    *)
(***************************************************************************)
EXTENDS TurnRecovery, TurnDispatcher

CONSTANTS
    MaxCrashes,   \* crashes, or process restarts, in a behaviour
    MaxDrains     \* calls of beginDrain or close in a process

ASSUME RuntimeAssumption == MaxCrashes \in Nat /\ MaxDrains \in Nat

VARIABLES
    lifecycle,    \* the orchestrator's lifecycle
    ingress,      \* ingressEnabled
    owned,        \* the orchestrator holds the ownership of its ledger
    closing,      \* a call of close waits for the dispatcher to be idle
    submissions,  \* the locals of submitObservation of each turn
    admission,    \* per conversation: submissions in the order of the admission serializer
    crashes,
    drains

orchestratorVars == <<lifecycle, ingress, owned, closing, submissions, admission>>
boundVars == <<crashes, drains>>
runtimeVars ==
    <<storeVars, pipelineVars, recovery, dispatcherVars, orchestratorVars, boundVars>>

Lifecycles == {"new", "recovering", "running", "draining", "closed", "failed"}
SubmissionStages ==
    {"none", "binding", "authenticate", "accept", "queue", "publish", "ended"}

NoSubmission == [stage |-> "none", revision |-> 0, conversation |-> None]

RuntimeInit ==
    /\ LedgerInit /\ ConversationInit /\ OutboxInit /\ AuditInit
    /\ PipelineInit /\ RecoveryInit /\ DispatcherInit
    /\ lifecycle = "new"
    /\ ingress = FALSE
    /\ owned = FALSE
    /\ closing = FALSE
    /\ submissions = [t \in Turns |-> NoSubmission]
    /\ admission = [c \in Conversations |-> <<>>]
    /\ crashes = 0
    /\ drains = 0

IngressOpen == ingress /\ lifecycle = "running"

----------------------------------------------------------------------------
\* start

\* The ownership is taken, or still held since a failure; the orchestrator is the
\* only one of its ledger.  Recovery refuses to run once the sideEffects counters have left zero.  One
\* recovery runs at a time here: start is not called again while one is pending.
Start ==
    /\ lifecycle \in {"new", "failed"}
    /\ recovery.stage = "idle"
    /\ lifecycle' = "recovering"
    /\ ingress' = FALSE
    /\ owned' = TRUE
    /\ recovery' = [NoRecovery EXCEPT !.stage = IF sideEffects THEN "error" ELSE "list"]
    /\ UNCHANGED <<storeVars, pipelineVars, dispatcherVars, closing, submissions, admission, boundVars>>

\* The continuation of start: whatever happened meanwhile, it sets the lifecycle.
\* A failed recovery gives the ownership up, whoever still works.
StartReturns ==
    /\ recovery.stage \in {"done", "error"}
    /\ lifecycle' = IF recovery.stage = "done" THEN "running" ELSE "failed"
    /\ ingress' = (recovery.stage = "done")
    /\ owned' = (owned /\ recovery.stage = "done")
    /\ recovery' = NoRecovery
    /\ UNCHANGED <<storeVars, pipelineVars, dispatcherVars, closing, submissions, admission, boundVars>>

----------------------------------------------------------------------------
\* failRuntime, beginDrain and close

\* A queued job is dropped; a running one has its abort signal raised.
Aborted(job) ==
    CASE job.stage = "queued" -> NoJob
      [] job.stage \in AbortableStages \ {"queued"} -> [job EXCEPT !.aborted = TRUE]
      [] OTHER -> job

\* What failRuntime, beginDrain and close share.
StopWork(jobsNow) ==
    /\ ingress' = FALSE
    /\ jobs' = [t \in Turns |-> Aborted(jobsNow[t])]
    /\ generation' = generation + 1

FailRuntime(jobsNow) == lifecycle' = "failed" /\ StopWork(jobsNow) /\ BeginDispatcherDrain

BeginDrain(close) ==
    /\ drains < MaxDrains
    /\ drains' = drains + 1
    /\ lifecycle' = IF lifecycle = "running" THEN "draining" ELSE lifecycle
    /\ closing' = (closing \/ close)
    /\ StopWork(jobs)
    /\ IF close THEN DrainAndWait ELSE BeginDispatcherDrain
    /\ UNCHANGED <<storeVars, sideEffects, policy, effects, faults, recovery, submissions,
                   owned, admission, crashes>>

CloseReturns ==
    /\ closing /\ ~idleWaiter
    /\ closing' = FALSE
    /\ lifecycle' = "closed"
    /\ owned' = FALSE
    /\ ingress' = FALSE
    /\ UNCHANGED <<storeVars, pipelineVars, recovery, dispatcherVars, submissions, admission, boundVars>>

----------------------------------------------------------------------------
\* submitObservation

SubmissionAt(t, stage) == submissions[t].stage = stage
SubmissionTo(t, submission) == submissions' = [submissions EXCEPT ![t] = submission]
SubmissionOnly == UNCHANGED <<conversationVars, outboxVars, auditVars, recovery, boundVars, owned, closing>>
SubmissionQuiet == SubmissionOnly /\ UNCHANGED <<pipelineVars, dispatcherVars, lifecycle, ingress>>

\* A turn id is generated for each submission and never reused.
Observe(t, key) ==
    /\ IngressOpen
    /\ SubmissionAt(t, "none")
    /\ ObserveTransportEvent(t, key)
    /\ SubmissionTo(t, [NoSubmission EXCEPT
         !.stage = IF ObserveOutcome(t, key) = "fresh-observed" THEN "binding" ELSE "ended",
         !.revision = 1])
    /\ SubmissionQuiet /\ UNCHANGED admission

\* resolveBinding finds the owner's conversation; the submission joins its line.
Bind(t, c) ==
    /\ SubmissionAt(t, "binding")
    /\ SubmissionTo(t, [submissions[t] EXCEPT !.stage = "authenticate", !.conversation = c])
    /\ admission' = [admission EXCEPT ![c] = Append(@, t)]
    /\ SubmissionQuiet /\ UNCHANGED ledgerVars

\* resolveBinding finds no owner: the submission ends and the row stays observed.
BindingFails(t) ==
    /\ SubmissionAt(t, "binding")
    /\ SubmissionTo(t, [NoSubmission EXCEPT !.stage = "ended"])
    /\ SubmissionQuiet /\ UNCHANGED <<ledgerVars, admission>>

HeadOfLine(t) == Head(admission[submissions[t].conversation]) = t

\* Only the head of a line works, so only the head leaves it.
LeaveAdmission(t) ==
    /\ SubmissionTo(t, [NoSubmission EXCEPT !.stage = "ended"])
    /\ admission' = [admission EXCEPT ![submissions[t].conversation] = Tail(@)]

\* The work of runExclusive goes on after a proven outcome, or ends and lets the
\* next submission of the conversation in.
Admit(t, proven, advance, stage) ==
    IF proven
    THEN /\ SubmissionTo(t, [submissions[t] EXCEPT !.stage = stage, !.revision = @ + advance])
         /\ UNCHANGED admission
    ELSE LeaveAdmission(t)

\* The first step inside the line looks at the lifecycle again.
Authenticate(t) ==
    LET kind == RecordAuthenticationOutcome(t, submissions[t].revision, "authenticated") IN
    /\ SubmissionAt(t, "authenticate") /\ HeadOfLine(t)
    /\ IF IngressOpen
       THEN /\ RecordAuthenticationResult(t, submissions[t].revision, "authenticated",
                                          submissions[t].conversation)
            /\ Admit(t, kind \in {"recorded", "already-recorded"},
                     IF kind = "recorded" THEN 1 ELSE 0, "accept")
       ELSE LeaveAdmission(t) /\ UNCHANGED ledgerVars
    /\ SubmissionQuiet

Accept(t) ==
    LET kind == AcceptOutcome(t, submissions[t].revision) IN
    /\ SubmissionAt(t, "accept") /\ HeadOfLine(t)
    /\ AcceptConversationTurn(t, submissions[t].revision)
    /\ Admit(t, kind \in {"accepted", "already-accepted"}, IF kind = "accepted" THEN 1 ELSE 0, "queue")
    /\ SubmissionQuiet

\* A turn that cannot be moved to queued fails the whole runtime.
Queue(t) ==
    LET kind == TransitionOutcome(t, submissions[t].revision, "accepted", "queued")
        proven == kind \in {"transitioned", "already-transitioned"}
    IN /\ SubmissionAt(t, "queue") /\ HeadOfLine(t)
       /\ Transition(t, submissions[t].revision, "accepted", "queued")
       /\ Admit(t, proven, IF kind = "transitioned" THEN 1 ELSE 0, "publish")
       /\ IF proven
          THEN UNCHANGED <<jobs, generation, dispatcherVars, lifecycle, ingress>>
          ELSE FailRuntime(jobs)
       /\ SubmissionOnly /\ UNCHANGED <<sideEffects, policy, effects, faults>>

\* The jobs the dispatcher has just made active run to their first await.
Started(jobsNow) ==
    [t \in Turns |->
       IF jobsNow[t].stage = "queued" /\ \E c \in Conversations : activeTurn'[c] = t
       THEN [jobsNow[t] EXCEPT !.stage = IF lifecycle = "failed" THEN "done" ELSE "kill-switch"]
       ELSE jobsNow[t]]

\* The job carries the generation of now, and the dispatcher may refuse it.
Publish(t) ==
    LET c == submissions[t].conversation
        job == [NoJob EXCEPT !.stage = "queued", !.revision = submissions[t].revision,
                             !.generation = generation]
    IN /\ SubmissionAt(t, "publish") /\ HeadOfLine(t)
       /\ Enqueue(c, DispatcherJob(t, turns[t].sequence))
       /\ jobs' = IF EnqueueOutcome(c) = "enqueued" THEN Started([jobs EXCEPT ![t] = job]) ELSE jobs
       /\ LeaveAdmission(t)
       /\ SubmissionOnly
       /\ UNCHANGED <<ledgerVars, generation, sideEffects, policy, effects, faults, lifecycle, ingress>>

\* A ledger call of a submission answers with an error and has written nothing.
SubmissionFails(t) ==
    /\ faults < MaxFaults
    /\ faults' = faults + 1
    /\ submissions[t].stage \in {"authenticate", "accept", "queue"} /\ HeadOfLine(t)
    /\ LeaveAdmission(t)
    /\ IF SubmissionAt(t, "queue")
       THEN FailRuntime(jobs)
       ELSE UNCHANGED <<jobs, generation, dispatcherVars, lifecycle, ingress>>
    /\ SubmissionOnly /\ UNCHANGED <<ledgerVars, sideEffects, policy, effects>>

----------------------------------------------------------------------------
\* A job returns: an error fails the runtime, then the dispatcher is told.

JobFails(t) ==
    /\ At(t, "error")
    /\ FailRuntime([jobs EXCEPT ![t].stage = "done"])
    /\ UNCHANGED <<storeVars, sideEffects, policy, effects, faults, recovery, owned, closing, submissions,
                   admission, boundVars>>

JobEnds(t) ==
    /\ At(t, "done")
    /\ JobSettles(Home(t))
    /\ jobs' = Started([jobs EXCEPT ![t] = NoJob])
    /\ UNCHANGED <<storeVars, generation, sideEffects, policy, effects, faults, recovery,
                   orchestratorVars, boundVars>>

JobStep(t) ==
    /\ TextTurnStep(t) \/ PhaseFails(t) \/ Deadline(t)
    /\ UNCHANGED <<recovery, dispatcherVars, orchestratorVars, boundVars>>

Recover ==
    /\ RecoveryStep \/ RecoveryFails
    /\ UNCHANGED <<jobs, dispatcherVars, orchestratorVars, boundVars>>

\* The process dies and a new one comes up, perhaps with another policy version.
Crash ==
    /\ crashes < MaxCrashes
    /\ crashes' = crashes + 1
    /\ drains' = 0
    /\ jobs' = [t \in Turns |-> NoJob]
    /\ generation' = 0
    /\ sideEffects' = FALSE
    /\ policy' \in PolicyVersions
    /\ recovery' = NoRecovery
    /\ queues' = [c \in Conversations |-> <<>>]
    /\ activeTurn' = [c \in Conversations |-> None]
    /\ draining' = FALSE
    /\ idleWaiter' = FALSE
    /\ lifecycle' = "new"
    /\ ingress' = FALSE
    /\ owned' = FALSE
    /\ closing' = FALSE
    /\ submissions' = [t \in Turns |->
         IF SubmissionAt(t, "none") THEN NoSubmission ELSE [NoSubmission EXCEPT !.stage = "ended"]]
    /\ admission' = [c \in Conversations |-> <<>>]
    /\ UNCHANGED <<storeVars, effects, faults>>

RuntimeNext ==
    \/ Start \/ StartReturns \/ Recover
    \/ \E close \in BOOLEAN : BeginDrain(close)
    \/ CloseReturns
    \/ \E t \in Turns :
         \/ \E key \in TransportKeys : Observe(t, key)
         \/ \E c \in Conversations : Bind(t, c)
         \/ BindingFails(t) \/ Authenticate(t) \/ Accept(t) \/ Queue(t) \/ Publish(t)
         \/ SubmissionFails(t)
         \/ JobStep(t) \/ JobFails(t) \/ JobEnds(t)
    \/ Crash

RuntimeSpec == RuntimeInit /\ [][RuntimeNext]_runtimeVars

\* The stores and the other ports answer; the model and the transport may never
\* do, but every job has a deadline.  A new process calls start.
Submission(t) ==
    \/ \E c \in Conversations : Bind(t, c)
    \/ BindingFails(t) \/ Authenticate(t) \/ Accept(t) \/ Queue(t) \/ Publish(t)

JobRuns(t) ==
    \/ /\ jobs[t].stage \notin {"llm-wait", "delivery-wait"} \/ jobs[t].aborted
       /\ TextTurnStep(t)
       /\ UNCHANGED <<recovery, dispatcherVars, orchestratorVars, boundVars>>
    \/ JobFails(t) \/ JobEnds(t)

Expires(t) == Deadline(t) /\ UNCHANGED <<recovery, dispatcherVars, orchestratorVars, boundVars>>
RecoveryRuns == RecoveryStep /\ UNCHANGED <<jobs, dispatcherVars, orchestratorVars, boundVars>>
FirstStart == lifecycle = "new" /\ Start

FairRuntimeSpec ==
    /\ RuntimeSpec
    /\ WF_runtimeVars(FirstStart) /\ WF_runtimeVars(RecoveryRuns) /\ WF_runtimeVars(StartReturns)
    /\ WF_runtimeVars(CloseReturns)
    /\ \A t \in Turns :
         WF_runtimeVars(Submission(t)) /\ WF_runtimeVars(JobRuns(t)) /\ WF_runtimeVars(Expires(t))
----------------------------------------------------------------------------
\* The tables, the locals of every pending call and the dispatcher hold values
\* of their types.
JobsTypeOK ==
    jobs \in [Turns ->
      [ stage : Stages, revision : 0 .. MaxSafeInteger, generation : Nat, aborted : BOOLEAN,
        llm : LlmCompletionOutcomes \cup {None}, delivery : DeliveryOutcomes \cup {None},
        checkpoint : {"pending", "succeeded", "failed"}, loaded : Snapshots,
        attempts : 0 .. BarrierAttempts - 1 ]]

RuntimeTypeOK ==
    /\ LedgerTypeOK /\ ConversationTypeOK /\ OutboxTypeOK /\ AuditTypeOK /\ DispatcherTypeOK
    /\ JobsTypeOK
    /\ recovery.stage \in RecoveryStages
    /\ lifecycle \in Lifecycles
    /\ submissions \in [Turns -> [ stage : SubmissionStages, revision : 0 .. MaxSafeInteger,
                                   conversation : Conversations \cup {None} ]]
    /\ admission \in [Conversations -> Seq(Turns)]

\* No provider is called for a turn whose audit start is not durable.
AuditStartPrecedesCalls ==
    \A t \in Turns : effects[t].llm + effects[t].delivery > 0 => auditStarts[t] # None

\* The ledger says delivered or failed only of what the provider said so: not of
\* a call that was aborted, not of one a dead process left behind.
LedgerDeliveryIsTrue ==
    \A t \in Turns :
      /\ turns[t].facts.delivery = "delivered" => effects[t].answer = "delivered"
      /\ turns[t].facts.delivery = "failed" => effects[t].answer = "known-failure"

\* A turn whose answer may have been sent is never completed as one that was not.
SentIsNeverForgotten ==
    \A t \in Turns : turns[t].state = "completed" /\ effects[t].delivery > 0 =>
      turns[t].facts.delivery # "not_started"

\* A turn completed with an unknown delivery, or after a delivery whose context
\* could not be saved, leaves its conversation degraded.
UncertainDeliveryDegrades ==
    \A t \in Turns :
      LET facts == turns[t].facts IN
      /\ turns[t].state = "completed"
      /\ \/ facts.delivery = "outcome_unknown"
         \/ facts.delivery \in {"delivered", "failed"} /\ facts.checkpoint = "failed"
      => snapshots[turns[t].conversation].pause = "degraded"

\* The completion event of a completed turn and its ledger row tell one story.
AuditAgreesWithLedger ==
    \A t \in Turns : turns[t].state = "completed" /\ auditCompletions[t] # None =>
      /\ auditCompletions[t].delivery = turns[t].facts.delivery
      /\ auditCompletions[t].checkpoint = turns[t].facts.checkpoint
      /\ auditCompletions[t].completion = turns[t].facts.auditCompletion

\* The audit precedes what it permits and agrees with what came of it.
AuditIsTrue == AuditStartPrecedesCalls /\ AuditAgreesWithLedger

\* The context of a conversation holds its turns in the order the ledger accepted
\* them, each once: what the admission serializer and the dispatcher are for.
ContextFollowsSequence ==
    \A c \in Conversations : \A i, j \in DOMAIN snapshots[c].context :
      i < j => turns[snapshots[c].context[i]].sequence < turns[snapshots[c].context[j]].sequence

\* What the snapshot of a conversation says is what the ledger says of its turns,
\* although the two are different tables, written one after the other.
SnapshotsAgreeWithLedger == UncertainDeliveryDegrades /\ ContextFollowsSequence

\* Rows a crash may leave behind on which recovery always fails although every port
\* answers: the model's known failure, a delivery whose call had begun, a failed delivery
\* whose context was saved, and what an earlier recovery, which failed as well, has made
\* of a begun delivery.  The ingress then stays closed for good.
UnrecoverableRow(row) ==
    \/ row.state \in {"llm_known_failed", "delivery_started"}
    \/ /\ row.state = "delivery_failed"
       /\ row.facts.checkpoint = "succeeded" /\ row.facts.auditCompletion = "failed"
    \/ /\ row.state \in {"delivered", "delivery_failed", "delivery_outcome_unknown"}
       /\ row.facts.llm = None /\ row.facts.auditStart = "pending"

\* In a process whose ports answer and whose policy version stays, recovery fails on no
\* other row.  docs/communication/text-state-machines.md:131-133 promises these rows an
\* end too: MCKnownFailure.cfg and MCStartedDelivery.cfg show the code denying it to the
\* first two kinds, MCEndedDelivery.cfg to a failed delivery.
RecoveryFailsOnlyOnKnownRows ==
    recovery.stage = "error" /\ faults = 0 => UnrecoverableRow(recovery.row)

\* Recovery neither invents an outcome nor gives up on a row but the unrecoverable ones.
RecoveryTellsTheTruth == LedgerDeliveryIsTrue /\ RecoveryFailsOnlyOnKnownRows

\* Each transport event as EventPromise sees it, over every turn observed for it.
UnseenEvent ==
    [phase |-> "unseen", asked |-> 0, sent |-> 0, answer |-> None, verdict |-> None]
TurnsOf(key) == {t \in Turns : Present(t) /\ turns[t].key = key}
EventOf(key) ==
    LET t == CHOOSE u \in TurnsOf(key) : TRUE
        Calls(provider) == Cardinality(UNION {{u} \X (1 .. effects[u][provider]) : u \in TurnsOf(key)})
    IN IF TurnsOf(key) = {} THEN UnseenEvent
       ELSE [ phase   |-> IF turns[t].state = "completed" THEN "ended" ELSE "open",
              asked   |-> Calls("llm"),
              sent    |-> Calls("delivery"),
              answer  |-> effects[t].answer,
              verdict |-> IF turns[t].state = "completed" THEN turns[t].facts.delivery ELSE None ]

Promise == INSTANCE EventPromise WITH
             Events <- TransportKeys, NoValue <- None, events <- [key \in TransportKeys |-> EventOf(key)]

\* The runtime keeps the promise for every event, however often the transport
\* delivers it, wherever the process dies and recovers: it implements EventPromise.
ImplementsEventPromise == Promise!PromiseSpec

\* A turn that holds a queue place is completed, by its job or, after a crash, by
\* recovery, however many pages that needs: no wait, no queue and no silent
\* provider stops it.  Only a drain gives it up, or a recovery that fails.
AcceptedTurnsComplete ==
    []<>(\A t \in Turns : turns[t].sequence # 0 =>
           turns[t].state = "completed" \/ draining \/ (lifecycle = "failed" /\ crashes > 0))

\* A call of close returns: the jobs it waits for end by their deadline, and the
\* end of the last one wakes it.
CloseAlwaysReturns == <>[]~closing

\* No model call starts in a degraded conversation, and no provider call after a
\* drain, after the runtime failed or without the ownership of the ledger, although
\* the gate and the generation are read stages earlier and a close, or a failed
\* start, gives the ownership up while others go on.
CallsStartOnlyWhenAllowed ==
    [][\A t \in Turns :
         /\ effects'[t].llm > effects[t].llm => snapshots[Home(t)].pause # "degraded"
         /\ effects'[t].llm + effects'[t].delivery > effects[t].llm + effects[t].delivery =>
              ~draining /\ owned]_runtimeVars
===============================================================================
