---------------------------- MODULE ToolInvocation ----------------------------
(***************************************************************************)
(* The tool invocation orchestrator: each call of invoke runs a pipeline   *)
(* of audits, validation, policy, approval, secret and execution, and      *)
(* other calls, decisions, the caller's abort, the timer and the connector *)
(* run at its awaits.  calls[c] holds the locals of a call; its stage      *)
(* names the await it is at.  One connector serves every tool, so health   *)
(* is kept per connection.                                                 *)
(***************************************************************************)
EXTENDS FiniteSets

----------------------------------------------------------------------------
(* The in-memory approval ports of the connector platform: a request is    *)
(* created pending, a trusted decision grants, denies or revokes it, and   *)
(* an invocation consumes the grant once.  Every method runs without an    *)
(* await.  An identifier is drawn with a random nonce of its own, so the   *)
(* nonce of an approval is the approval itself.  Time only matters through *)
(* the expiry of each record.                                              *)

CONSTANTS
    Approvals,    \* identifiers randomUUID may draw
    Bindings,     \* what an approval is bound to: records with a tool and an actor
    Approvers,    \* actors of the decision port
    None

ASSUME ApprovalsAssumption == None \notin Bindings \cup Approvers \cup Approvals

VARIABLE approvals

Statuses == {"absent", "pending", "granted", "consumed", "denied", "revoked"}
Ended == {"consumed", "denied", "revoked"}

NoApproval == [status |-> "absent", binding |-> None, approver |-> None, expired |-> FALSE]

Financial(binding) == binding.tool.effect = "FINANCIAL"
Pending(binding) == [NoApproval EXCEPT !.status = "pending", !.binding = binding]

\* Earlier invocations may have left approvals that wait for a decision.
ApprovalsInit ==
    approvals \in [Approvals -> {NoApproval} \cup {Pending(b) : b \in {b \in Bindings : ~Financial(b)}}]

Fresh == {a \in Approvals : approvals[a].status = "absent"}

\* Ends an approval; nobody reads the expiry of an ended one.
WithStatus(a, status) == approvals' = [approvals EXCEPT ![a].status = status, ![a].expired = FALSE]

----------------------------------------------------------------------------
CreateRequest(a, binding) ==
    approvals' = [approvals EXCEPT ![a] = Pending(binding)]

ConsumesTwice(a, nonce, binding) ==    \* mutant
    IF approvals[a].status \in {"granted", "consumed"} THEN "ok" ELSE "NOT_GRANTED"
ConsumeOutcome(a, nonce, binding) ==
    LET stored == approvals[a] IN
    CASE stored.status = "absent" -> "NOT_FOUND"
      [] stored.status = "denied" -> "DENIED"
      [] stored.status = "revoked" -> "REVOKED"
      [] stored.status = "consumed" -> "CONSUMED"
      [] stored.status # "granted" -> "NOT_GRANTED"
      [] nonce # a -> "MISMATCH"
      [] stored.binding # binding -> "MISMATCH"
      [] stored.approver = None -> "NOT_GRANTED"
      [] stored.expired -> "EXPIRED"
      [] OTHER -> "ok"

ConsumeGrant(a, nonce, binding) ==
    IF ConsumeOutcome(a, nonce, binding) = "ok" THEN WithStatus(a, "consumed") ELSE UNCHANGED approvals

----------------------------------------------------------------------------
\* The decision port.
Grantable(a) ==
    /\ approvals[a].status \in {"pending", "granted"}
    /\ ~Financial(approvals[a].binding)
    /\ ~approvals[a].expired

Grant(a, approver) ==
    /\ Grantable(a)
    /\ approvals' = [approvals EXCEPT ![a].status = "granted", ![a].approver = approver]

Undecided(a) == approvals[a].status \notin {"absent", "consumed"}
Deny(a) == Undecided(a) /\ WithStatus(a, "denied")
Revoke(a) == Undecided(a) /\ WithStatus(a, "revoked")

\* The clock reaches expiresAt; it is read of approvals that can still be used.
ApprovalExpires(a) ==
    /\ approvals[a].status \in {"pending", "granted"} /\ ~approvals[a].expired
    /\ approvals' = [approvals EXCEPT ![a].expired = TRUE]

Decision ==
    \E a \in Approvals :
      \/ \E approver \in Approvers : Grant(a, approver)
      \/ Deny(a) \/ Revoke(a) \/ ApprovalExpires(a)

----------------------------------------------------------------------------
ApprovalsTypeOK ==
    approvals \in [Approvals ->
      [ status : Statuses, binding : Bindings \cup {None}, approver : Approvers \cup {None},
        expired : BOOLEAN ]]

\* No decision and no consumption makes a denied, revoked or consumed approval
\* usable again, and a consumed one stays consumed.
EndedApprovalsStayEnded ==
    [][\A a \in Approvals :
         /\ approvals[a].status \in Ended => approvals'[a].status \in Ended
         /\ approvals[a].status = "consumed" => approvals'[a].status = "consumed"]_approvals

----------------------------------------------------------------------------
(* The orchestrator.                                                       *)

CONSTANTS
    Calls,             \* calls of invoke
    OfferedRequests,   \* for each call, what its caller may ask for
    Connections

BindingOf(request) ==
    [ invocation |-> request.invocation, tool |-> request.tool, input |-> request.input,
      connection |-> request.connection, actor |-> request.actor ]

\* The default policy engine.
PolicyDecision(tool) ==
    CASE tool.effect = "FINANCIAL" -> "deny"
      [] tool.effect # "READ_ONLY" /\ ~tool.cooperative -> "deny"
      [] tool.effect = "READ_ONLY" -> "allow"
      [] OTHER -> "require-approval"

ASSUME InvocationAssumption ==
    \A c \in Calls : \A request \in OfferedRequests[c] :
      /\ request # None
      /\ PolicyDecision(request.tool) = "require-approval" => BindingOf(request) \in Bindings

VARIABLES calls, health

toolVars == <<approvals, calls, health>>

Stages ==
    { "idle", "requested-audit", "invalid-audit", "policy-audit", "create-audit", "approval-audit",
      "cancel-audit", "start-audit", "secret", "executing", "completion-audit", "returned" }

\* What the connector's promise may settle with; a rejection is a known failure.
Answers == {"success", "bad-output", "known-failure", "outcome-unknown"}

AbortReasons == {"timeout", "cancelled"}
Consumptions ==
    {"ok", "NOT_FOUND", "DENIED", "REVOKED", "CONSUMED", "NOT_GRANTED", "MISMATCH", "EXPIRED"}
Codes ==
    AbortReasons \cup
    { "tool-not-found", "invalid-input", "capability-denied", "policy-denied", "approval-denied",
      "approval-expired", "connector-unavailable", "secret-unavailable", "known-failure",
      "invalid-remote-response", "internal-error" }
ExecutionStates == {"not-started", "started", "completed", "outcome-unknown"}
AuditKinds == {"invocation-requested", "execution-started", "invocation-completed"}

Failure(code, state) == [kind |-> "failure", code |-> code, state |-> state]
Success == [kind |-> "success", code |-> None, state |-> "completed"]
NotStarted(code) == Failure(code, "not-started")
ApprovalRequired == [kind |-> "approval-required", code |-> None, state |-> "not-started"]

NoCall ==
    [ stage |-> "idle", request |-> None, approval |-> None, nonce |-> None, consumed |-> None,
      callerAborted |-> FALSE, listening |-> FALSE, abort |-> None, executed |-> FALSE,
      answer |-> None, early |-> FALSE, result |-> None, audited |-> {} ]

ToolInit ==
    /\ ApprovalsInit
    /\ calls = [c \in Calls |-> NoCall]
    /\ health = [k \in Connections \cup {None} |-> "unknown"]

At(c, stage) == calls[c].stage = stage
Request(c) == calls[c].request
WriteLike(c) == Request(c).tool.effect # "READ_ONLY"
Only(c, call) == calls' = [calls EXCEPT ![c] = call]
Goto(call, stage) == [call EXCEPT !.stage = stage]
\* Once the race is over, or there will be none, these locals are not read again.
Forget(call) ==
    [call EXCEPT !.listening = FALSE, !.callerAborted = FALSE, !.early = FALSE, !.consumed = None, !.nonce = None]
Return(call, result) == [Forget(call) EXCEPT !.stage = "returned", !.result = result]
Local == UNCHANGED <<approvals, health>>

\* audit: an event is on record, or the port fails and the code sees the error.
\* Events whose failure the code ignores are awaited, and not kept.
Audited(c, kind, recorded) ==
    IF recorded THEN [calls[c] EXCEPT !.audited = @ \cup {kind}] ELSE calls[c]

----------------------------------------------------------------------------
Invoke(c, request, approval, nonce) ==
    /\ At(c, "idle")
    /\ LET call == [NoCall EXCEPT !.request = request, !.approval = approval, !.nonce = nonce]
       IN \/ request.known /\ Only(c, Goto(call, "requested-audit"))
          \/ ~request.known /\ Only(c, Return(call, NotStarted("tool-not-found")))
    /\ Local

\* Relationship, bounds and schema fail with an audit of their own; a missing
\* idempotency key, an unusable connection or a capability without one.
RequestedAudit(c, recorded) ==
    /\ At(c, "requested-audit")
    /\ LET call == Audited(c, "invocation-requested", recorded)
       IN \/ ~recorded /\ Only(c, Return(call, NotStarted("internal-error")))
          \/ recorded /\ Request(c).verdict = "invalid" /\ Only(c, Goto(call, "invalid-audit"))
          \/ /\ recorded /\ Request(c).verdict = "refused"
             /\ Only(c, Return(call, NotStarted("capability-denied")))
          \/ /\ recorded /\ Request(c).verdict \notin {"invalid", "refused"}
             /\ Only(c, Goto(call, "policy-audit"))
    /\ Local

InvalidAudit(c) ==
    /\ At(c, "invalid-audit")
    /\ Only(c, Return(calls[c], NotStarted("invalid-input")))
    /\ Local

\* The signal check, and the arming of timer and abort listener, in one step
\* with what precedes them.
Armed(call) == [Forget(call) EXCEPT !.stage = "start-audit", !.listening = TRUE]
Authorized(c) ==
    \/ calls[c].callerAborted /\ Only(c, Goto(calls[c], "cancel-audit"))
    \/ /\ ~calls[c].callerAborted /\ Request(c).verdict = "no-connector"
       /\ Only(c, Return(calls[c], NotStarted("connector-unavailable")))
    \/ /\ ~calls[c].callerAborted /\ Request(c).verdict # "no-connector"
       /\ Only(c, Armed(calls[c]))

PolicyAudit(c) ==
    /\ At(c, "policy-audit")
    /\ LET call == calls[c]
           decision == PolicyDecision(Request(c).tool)
       IN \/ /\ decision = "deny"
             /\ Only(c, Return(call, NotStarted("policy-denied")))
             /\ UNCHANGED approvals
          \/ /\ decision = "allow"
             /\ Authorized(c)
             /\ UNCHANGED approvals
          \/ /\ decision = "require-approval" /\ call.approval = None
             /\ \/ /\ \E a \in Fresh : CreateRequest(a, BindingOf(Request(c)))
                   /\ Only(c, [Goto(call, "create-audit") EXCEPT !.result = ApprovalRequired])
                \/ /\ Fresh = {} /\ UNCHANGED approvals
                   /\ Only(c, [Goto(call, "create-audit") EXCEPT !.result = NotStarted("approval-denied")])
          \/ /\ decision = "require-approval" /\ call.approval # None /\ call.nonce = None
             /\ Only(c, Return(call, NotStarted("approval-denied")))
             /\ UNCHANGED approvals
          \/ /\ decision = "require-approval" /\ call.approval # None /\ call.nonce # None
             /\ ConsumeGrant(call.approval, call.nonce, BindingOf(Request(c)))
             /\ Only(c, [Goto(call, "approval-audit") EXCEPT
                  !.consumed = ConsumeOutcome(call.approval, call.nonce, BindingOf(Request(c)))])
    /\ UNCHANGED health

CreateAudit(c) ==
    /\ At(c, "create-audit")
    /\ Only(c, Return(calls[c], calls[c].result))
    /\ Local

ApprovalAudit(c) ==
    /\ At(c, "approval-audit")
    /\ \/ calls[c].consumed = "ok" /\ Authorized(c)
       \/ calls[c].consumed = "EXPIRED" /\ Only(c, Return(calls[c], NotStarted("approval-expired")))
       \/ /\ calls[c].consumed \notin {"ok", "EXPIRED"}
          /\ Only(c, Return(calls[c], NotStarted("approval-denied")))
    /\ Local

CancelAudit(c, recorded) ==
    /\ At(c, "cancel-audit")
    /\ Only(c, Return(Audited(c, "invocation-completed", recorded), NotStarted("cancelled")))
    /\ Local

\* connector.execute is called, with a signal that may be aborted already.
Execute(call) == [Goto(call, "executing") EXCEPT !.executed = TRUE]

StartsUnaudited(c, recorded) ==    \* mutant
    /\ At(c, "start-audit")
    /\ Only(c, Execute(Audited(c, "execution-started", recorded)))
    /\ Local
StartAudit(c, recorded) ==
    /\ At(c, "start-audit")
    /\ LET call == Audited(c, "execution-started", recorded)
       IN \/ ~recorded /\ Only(c, Return(call, NotStarted("internal-error")))
          \/ recorded /\ Request(c).secret /\ Only(c, Goto(call, "secret"))
          \/ recorded /\ ~Request(c).secret /\ Only(c, Execute(call))
    /\ Local

ResolveSecret(c) ==
    /\ At(c, "secret")
    /\ \/ Only(c, Execute(calls[c]))
       \/ Only(c, Return(calls[c], Failure("secret-unavailable", "started")))
    /\ Local

----------------------------------------------------------------------------
\* The connector answers; an answer after the race is absorbed.
ConnectorSettles(c, answer) ==
    /\ At(c, "executing") /\ calls[c].answer = None
    /\ Only(c, [calls[c] EXCEPT !.answer = answer, !.early = (calls[c].abort = None)])
    /\ Local

\* The caller's signal is read once, then the listener passes it on; after the
\* race nobody reads it.
CallerAborts(c) ==
    /\ \/ /\ calls[c].listening /\ calls[c].abort = None
          /\ Only(c, [calls[c] EXCEPT !.abort = "cancelled"])
       \/ /\ ~calls[c].callerAborted
          /\ calls[c].stage \in {"requested-audit", "policy-audit", "approval-audit"}
          /\ Only(c, [calls[c] EXCEPT !.callerAborted = TRUE])
    /\ Local

TimerFires(c) ==
    /\ calls[c].listening /\ calls[c].abort = None
    /\ Only(c, [calls[c] EXCEPT !.abort = "timeout"])
    /\ Local

----------------------------------------------------------------------------
\* The result of an execution, the health it leaves, and the two audits after it,
\* of which the first cannot change anything.
Finish(c, result, status) ==
    /\ Only(c, [Forget(calls[c]) EXCEPT !.stage = "completion-audit", !.result = result])
    /\ health' = [health EXCEPT ![Request(c).connection] = status]
    /\ UNCHANGED approvals

AbortedState(c) == IF WriteLike(c) THEN "outcome-unknown" ELSE "completed"

\* mapAbortedExecution: the abort won the race.
AbortNeverWins(c) == FALSE    \* mutant
AbortWins(c) == calls[c].abort # None
RaceAborted(c) ==
    /\ At(c, "executing") /\ AbortWins(c)
    /\ Finish(c, Failure(calls[c].abort, AbortedState(c)), "degraded")

\* The answer won the race: it came before the abort, if there was one.
AnswerWins(c) ==
    At(c, "executing") /\ calls[c].answer # None /\ (calls[c].abort = None \/ calls[c].early)

\* mapConnectorFailure.
ConnectorFailed(c) ==
    /\ AnswerWins(c) /\ calls[c].answer \in {"known-failure", "outcome-unknown"}
    /\ \/ calls[c].abort # None /\ Finish(c, Failure(calls[c].abort, "completed"), "degraded")
       \/ /\ calls[c].abort = None /\ WriteLike(c) /\ calls[c].answer = "outcome-unknown"
          /\ Finish(c, Failure("internal-error", "outcome-unknown"), "degraded")
       \/ /\ calls[c].abort = None /\ (WriteLike(c) => calls[c].answer = "known-failure")
          /\ \E status \in {"degraded", "unavailable"} :
               Finish(c, Failure("known-failure", "completed"), status)

SuccessIgnoresAbort(c) == FALSE    \* mutant
SuccessIsLate(c) == calls[c].abort # None
ConnectorSucceeded(c) ==
    /\ AnswerWins(c) /\ calls[c].answer \in {"success", "bad-output"}
    /\ \/ SuccessIsLate(c) /\ Finish(c, Failure(calls[c].abort, AbortedState(c)), "degraded")
       \/ ~SuccessIsLate(c) /\ calls[c].answer = "success" /\ Finish(c, Success, "healthy")
       \/ /\ ~SuccessIsLate(c) /\ calls[c].answer = "bad-output"
          /\ Finish(c, Failure("invalid-remote-response", "completed"), "degraded")

CompletionAudit(c, recorded) ==
    /\ At(c, "completion-audit")
    /\ LET call == Audited(c, "invocation-completed", recorded)
       IN \/ recorded /\ Only(c, Return(call, call.result))
          \/ ~recorded /\ Only(c, Return(call, Failure("internal-error", "outcome-unknown")))
    /\ Local

----------------------------------------------------------------------------
Pipeline(c) ==
    \/ \E recorded \in BOOLEAN :
         RequestedAudit(c, recorded) \/ CancelAudit(c, recorded)
         \/ StartAudit(c, recorded) \/ CompletionAudit(c, recorded)
    \/ InvalidAudit(c) \/ PolicyAudit(c) \/ CreateAudit(c) \/ ApprovalAudit(c)
    \/ ResolveSecret(c)
    \/ RaceAborted(c) \/ ConnectorFailed(c) \/ ConnectorSucceeded(c)

ToolNext ==
    \/ \E c \in Calls :
         \/ \E request \in OfferedRequests[c], approval, nonce \in (Approvals \ Fresh) \cup {None} :
              (approval = None => nonce = None) /\ Invoke(c, request, approval, nonce)
         \/ Pipeline(c)
         \/ \E answer \in Answers : ConnectorSettles(c, answer)
         \/ CallerAborts(c)
         \/ TimerFires(c)
    \/ Decision /\ UNCHANGED <<calls, health>>

ToolSpec == ToolInit /\ [][ToolNext]_toolVars

\* The audit and secret ports answer and a timer fires; a connector need not.
FairToolSpec ==
    ToolSpec /\ \A c \in Calls : WF_toolVars(Pipeline(c)) /\ WF_toolVars(TimerFires(c))
----------------------------------------------------------------------------
Requests == UNION {OfferedRequests[c] : c \in Calls}
Results == [kind : {"success", "failure", "approval-required"}, code : Codes \cup {None}, state : ExecutionStates]

CallTypes ==
    [ stage : Stages, request : Requests \cup {None}, approval : Approvals \cup {None},
      nonce : Approvals \cup {None}, consumed : Consumptions \cup {None}, callerAborted : BOOLEAN,
      listening : BOOLEAN, abort : AbortReasons \cup {None}, executed : BOOLEAN,
      answer : Answers \cup {None}, early : BOOLEAN, result : Results \cup {None},
      audited : SUBSET AuditKinds ]

\* Every local of a call, every approval and every health stays in its domain.
ToolTypeOK ==
    /\ ApprovalsTypeOK
    /\ calls \in [Calls -> CallTypes]
    /\ health \in [Connections \cup {None} -> {"unknown", "healthy", "degraded", "unavailable"}]

\* A tool that writes is executed only for a granted approval bound to exactly
\* this request, and no two executions share one.
ExecutionHasItsOwnApproval ==
    \A c \in Calls : calls[c].executed /\ WriteLike(c) =>
      /\ calls[c].approval # None
      /\ approvals[calls[c].approval].status = "consumed"
      /\ approvals[calls[c].approval].binding = BindingOf(Request(c))
      /\ approvals[calls[c].approval].approver # None
      /\ \A d \in Calls : calls[d].executed /\ WriteLike(d) /\ d # c =>
           calls[d].approval # calls[c].approval

\* Whatever order abort, timer, answer and audits come in, a result never claims
\* more than is known: success only if the connector answered so and no abort came
\* first, not started only if it never will be, completed only if a write ended.
ResultIsHonest ==
    \A c \in Calls : At(c, "returned") =>
      /\ calls[c].result.kind = "success" =>
           /\ calls[c].answer = "success" /\ calls[c].abort = None
           /\ "invocation-completed" \in calls[c].audited
      /\ calls[c].result.state = "not-started" => ~calls[c].executed
      /\ calls[c].result.state = "completed" /\ WriteLike(c) => calls[c].answer # None

\* Nothing is executed that the audit has no request and no start of.
ExecutionIsAudited ==
    \A c \in Calls : calls[c].executed =>
      {"invocation-requested", "execution-started"} \subseteq calls[c].audited

\* A write whose connector said that it does not know the outcome is reported so.
UncertainWriteIsReported ==
    \A c \in Calls :
      At(c, "returned") /\ calls[c].executed /\ WriteLike(c) /\ calls[c].answer = "outcome-unknown" =>
        calls[c].result.state = "outcome-unknown"

\* Every invocation returns, even if its connector never answers: from some moment on
\* none is under way.
InvocationReturns == <>[](\A c \in Calls : At(c, "idle") \/ At(c, "returned"))
===============================================================================
