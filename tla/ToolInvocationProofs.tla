------------------------ MODULE ToolInvocationProofs ------------------------
(***************************************************************************)
(* Theorems about the tool invocation orchestrator, for any calls,         *)
(* approvals and requests.  CallInv says of one call, whatever the others  *)
(* do, where it stands; ApprovalInv ties a call that may execute to the    *)
(* approval it consumed.                                                   *)
(***************************************************************************)
EXTENDS ToolInvocation, TLAPS

BeforeExecution ==
    { "idle", "requested-audit", "invalid-audit", "policy-audit", "create-audit", "approval-audit",
      "cancel-audit", "start-audit", "secret" }
Writes(call) == call.request.tool.effect # "READ_ONLY"

\* What a result may say while the call that carries it is finished or returned.
Honest(call) ==
    /\ call.result \in Results
    /\ call.result.kind = "success" => call.answer = "success" /\ call.abort = None
    /\ call.result.state = "not-started" => ~call.executed
    /\ call.result.state = "completed" /\ Writes(call) => call.answer # None

CallInv(call) ==
    /\ call \in CallTypes
    /\ call.stage # "idle" => call.request \in Requests
    /\ call.stage \in BeforeExecution => ~call.executed
    /\ call.stage \in {"executing", "completion-audit"} => call.executed
    /\ call.listening => call.stage \in {"start-audit", "secret", "executing"}
    /\ call.stage = "create-audit" => call.result \in {ApprovalRequired, NotStarted("approval-denied")}
    /\ call.stage \in {"policy-audit", "approval-audit", "start-audit", "secret"} \/ call.executed =>
         "invocation-requested" \in call.audited
    /\ call.stage = "secret" \/ call.executed => "execution-started" \in call.audited
    /\ call.stage \in {"completion-audit", "returned"} => Honest(call)
    /\ call.stage = "returned" /\ call.result.kind = "success" => "invocation-completed" \in call.audited

LEMMA ForgetType ==
    ASSUME NEW call \in CallTypes
    PROVE  /\ Forget(call) \in CallTypes
           /\ Forget(call).stage = call.stage
           /\ Forget(call).request = call.request
           /\ Forget(call).approval = call.approval
           /\ Forget(call).abort = call.abort
           /\ Forget(call).executed = call.executed
           /\ Forget(call).answer = call.answer
           /\ Forget(call).result = call.result
           /\ Forget(call).audited = call.audited
           /\ ~Forget(call).listening
BY DEF CallTypes, Forget

LEMMA ReturnType ==
    ASSUME NEW call \in CallTypes, NEW result \in Results
    PROVE  /\ Return(call, result) \in CallTypes
           /\ Return(call, result).stage = "returned"
           /\ Return(call, result).request = call.request
           /\ Return(call, result).approval = call.approval
           /\ Return(call, result).abort = call.abort
           /\ Return(call, result).executed = call.executed
           /\ Return(call, result).answer = call.answer
           /\ Return(call, result).result = result
           /\ Return(call, result).audited = call.audited
           /\ ~Return(call, result).listening
<1> DEFINE other == Forget(call)
<1>1. /\ other \in CallTypes
      /\ other.stage = call.stage
      /\ other.request = call.request
      /\ other.approval = call.approval
      /\ other.abort = call.abort
      /\ other.executed = call.executed
      /\ other.answer = call.answer
      /\ other.result = call.result
      /\ other.audited = call.audited
      /\ ~other.listening
  BY ForgetType
<1>2. Return(call, result) = [other EXCEPT !.stage = "returned", !.result = result]
  BY DEF Return
<1> HIDE DEF other
<1>3. "returned" \in Stages
  BY DEF Stages
<1> QED
  BY <1>1, <1>2, <1>3 DEF CallTypes

LEMMA AuditedType ==
    ASSUME NEW c \in Calls, NEW kind \in AuditKinds, NEW recorded \in BOOLEAN, calls[c] \in CallTypes
    PROVE  /\ Audited(c, kind, recorded) \in CallTypes
           /\ Audited(c, kind, recorded).stage = calls[c].stage
           /\ Audited(c, kind, recorded).request = calls[c].request
           /\ Audited(c, kind, recorded).approval = calls[c].approval
           /\ Audited(c, kind, recorded).abort = calls[c].abort
           /\ Audited(c, kind, recorded).executed = calls[c].executed
           /\ Audited(c, kind, recorded).answer = calls[c].answer
           /\ Audited(c, kind, recorded).result = calls[c].result
           /\ Audited(c, kind, recorded).listening = calls[c].listening
           /\ calls[c].audited \subseteq Audited(c, kind, recorded).audited
           /\ recorded => kind \in Audited(c, kind, recorded).audited
<1> DEFINE call == calls[c]
<1>1. call \in CallTypes
  OBVIOUS
<1>2. Audited(c, kind, recorded) = IF recorded THEN [call EXCEPT !.audited = call.audited \cup {kind}] ELSE call
  BY DEF Audited
<1> HIDE DEF call
<1> QED
  BY <1>1, <1>2 DEF CallTypes, call

LEMMA ResultTypes ==
    /\ Success \in Results
    /\ ApprovalRequired \in Results
    /\ \A code \in Codes : \A state \in ExecutionStates :
         /\ Failure(code, state) \in Results
         /\ Failure(code, state).kind = "failure"
         /\ Failure(code, state).state = state
    /\ \A code \in Codes :
         /\ NotStarted(code) \in Results
         /\ NotStarted(code).kind = "failure"
         /\ NotStarted(code).state = "not-started"
    /\ ApprovalRequired.kind = "approval-required"
    /\ ApprovalRequired.state = "not-started"
    /\ Success.kind = "success"
    /\ Success.state = "completed"
BY DEF Success, ApprovalRequired, Results, Failure, NotStarted, Codes, ExecutionStates

----------------------------------------------------------------------------
\* A call that holds the right to execute its write.
MayExecute(call) ==
    /\ Writes(call)
    /\ \/ call.executed \/ call.stage \in {"start-audit", "secret"}
       \/ call.stage = "approval-audit" /\ call.consumed = "ok"

\* What every step of a call leaves, but for the consumption of an approval.
Advance(call, next) ==
    /\ CallInv(next)
    /\ MayExecute(next) =>
         MayExecute(call) /\ next.request = call.request /\ next.approval = call.approval

\* A call that ends before it executed anything may say so.
LEMMA ReturnUnstarted ==
    ASSUME NEW call \in CallTypes, NEW code \in Codes, ~call.executed, call.request \in Requests, NEW old
    PROVE  Advance(old, Return(call, NotStarted(code)))
<1>1. NotStarted(code) \in Results /\ NotStarted(code).kind = "failure" /\ NotStarted(code).state = "not-started"
  BY ResultTypes
<1> DEFINE next == Return(call, NotStarted(code))
<1>2. /\ next \in CallTypes /\ next.stage = "returned" /\ next.executed = call.executed /\ ~next.listening
      /\ next.result = NotStarted(code) /\ next.request = call.request
  BY <1>1, ReturnType
<1> HIDE DEF next
<1>3. CallInv(next)
  BY <1>1, <1>2 DEF CallInv, Honest, BeforeExecution
<1>4. ~MayExecute(next)
  BY <1>2 DEF MayExecute
<1> QED
  BY <1>3, <1>4 DEF Advance, next

----------------------------------------------------------------------------
\* One lemma per action: what it makes of its call.
LEMMA InvokeAdvances ==
    ASSUME NEW c \in Calls, calls \in [Calls -> CallTypes], CallInv(calls[c]),
           NEW request \in OfferedRequests[c], NEW approval \in Approvals \cup {None},
           NEW nonce \in Approvals \cup {None}, Invoke(c, request, approval, nonce)
    PROVE  \E next : calls' = [calls EXCEPT ![c] = next] /\ Advance(calls[c], next)
<1> DEFINE call == [NoCall EXCEPT !.request = request, !.approval = approval, !.nonce = nonce]
<1>1. request \in Requests
  BY DEF Requests
<1>2. call \in CallTypes /\ ~call.executed /\ ~call.listening /\ call.request \in Requests
  BY <1>1 DEF NoCall, CallTypes, Stages
<1>3. CASE request.known
  <2>1. calls' = [calls EXCEPT ![c] = Goto(call, "requested-audit")]
    BY <1>3 DEF Invoke, Only
  <2>2. /\ Goto(call, "requested-audit") \in CallTypes
        /\ Goto(call, "requested-audit").stage = "requested-audit"
        /\ Goto(call, "requested-audit").executed = FALSE
        /\ Goto(call, "requested-audit").request \in Requests
        /\ ~Goto(call, "requested-audit").listening
    BY <1>2 DEF Goto, CallTypes, Stages
  <2>3. Advance(calls[c], Goto(call, "requested-audit"))
    BY <2>2 DEF Advance, CallInv, MayExecute, BeforeExecution
  <2> QED
    BY <2>1, <2>3
<1>4. CASE ~request.known
  <2>1. calls' = [calls EXCEPT ![c] = Return(call, NotStarted("tool-not-found"))]
    BY <1>4 DEF Invoke, Only
  <2>2. "tool-not-found" \in Codes
    BY DEF Codes
  <2>3. Advance(calls[c], Return(call, NotStarted("tool-not-found")))
    BY <1>2, <2>2, ReturnUnstarted
  <2> QED
    BY <2>1, <2>3
<1> QED
  BY <1>3, <1>4

LEMMA RequestedAuditAdvances ==
    ASSUME NEW c \in Calls, calls \in [Calls -> CallTypes], CallInv(calls[c]),
           NEW recorded \in BOOLEAN, RequestedAudit(c, recorded)
    PROVE  \E next : calls' = [calls EXCEPT ![c] = next] /\ Advance(calls[c], next)
<1> DEFINE call == Audited(c, "invocation-requested", recorded)
<1>1. /\ call \in CallTypes /\ ~call.executed /\ ~call.listening /\ call.request \in Requests
      /\ recorded => "invocation-requested" \in call.audited
  BY AuditedType DEF AuditKinds, CallInv, RequestedAudit, At, BeforeExecution
<1>2. \/ calls' = [calls EXCEPT ![c] = Return(call, NotStarted("internal-error"))]
      \/ calls' = [calls EXCEPT ![c] = Return(call, NotStarted("capability-denied"))]
      \/ recorded /\ calls' = [calls EXCEPT ![c] = Goto(call, "invalid-audit")]
      \/ recorded /\ calls' = [calls EXCEPT ![c] = Goto(call, "policy-audit")]
  BY DEF RequestedAudit, Only
<1> HIDE DEF call
<1>3. ASSUME NEW stage \in {"invalid-audit", "policy-audit"}, recorded
      PROVE  Advance(calls[c], Goto(call, stage))
  <2>1. /\ Goto(call, stage) \in CallTypes
        /\ Goto(call, stage).stage = stage
        /\ Goto(call, stage).executed = FALSE
        /\ Goto(call, stage).request \in Requests
        /\ ~Goto(call, stage).listening
        /\ Goto(call, stage).audited = call.audited
    BY <1>1 DEF Goto, CallTypes, Stages
  <2> QED
    BY <1>1, <1>3, <2>1 DEF Advance, CallInv, MayExecute, BeforeExecution
<1>4. /\ Advance(calls[c], Return(call, NotStarted("internal-error")))
      /\ Advance(calls[c], Return(call, NotStarted("capability-denied")))
  BY <1>1, ReturnUnstarted DEF Codes
<1> QED
  BY <1>2, <1>3, <1>4

LEMMA InvalidAuditAdvances ==
    ASSUME NEW c \in Calls, calls \in [Calls -> CallTypes], CallInv(calls[c]), InvalidAudit(c)
    PROVE  \E next : calls' = [calls EXCEPT ![c] = next] /\ Advance(calls[c], next)
<1>1. calls[c] \in CallTypes /\ ~calls[c].executed /\ calls[c].request \in Requests /\ "invalid-input" \in Codes
  BY DEF CallInv, InvalidAudit, At, BeforeExecution, Codes
<1> QED
  BY <1>1, ReturnUnstarted DEF InvalidAudit, Only

LEMMA CreateAuditAdvances ==
    ASSUME NEW c \in Calls, calls \in [Calls -> CallTypes], CallInv(calls[c]), CreateAudit(c)
    PROVE  \E next : calls' = [calls EXCEPT ![c] = next] /\ Advance(calls[c], next)
<1>1. calls[c] \in CallTypes /\ ~calls[c].executed /\ calls[c].request \in Requests
  BY DEF CallInv, CreateAudit, At, BeforeExecution
<1>2. calls[c].result = ApprovalRequired \/ calls[c].result = NotStarted("approval-denied")
  BY DEF CallInv, CreateAudit, At
<1>3. calls' = [calls EXCEPT ![c] = Return(calls[c], calls[c].result)]
  BY DEF CreateAudit, Only
<1>4. CASE calls[c].result = NotStarted("approval-denied")
  <2>1. Advance(calls[c], Return(calls[c], NotStarted("approval-denied")))
    BY <1>1, ReturnUnstarted DEF Codes
  <2> QED
    BY <1>3, <1>4, <2>1
<1>5. CASE calls[c].result = ApprovalRequired
  <2> DEFINE next == Return(calls[c], ApprovalRequired)
  <2>1. /\ next \in CallTypes /\ next.stage = "returned" /\ next.executed = FALSE /\ ~next.listening
        /\ next.result = ApprovalRequired /\ next.request \in Requests
    BY <1>1, ReturnType, ResultTypes DEF CallTypes
  <2> HIDE DEF next
  <2>2. CallInv(next)
    BY <2>1, ResultTypes DEF CallInv, Honest, BeforeExecution
  <2>3. ~MayExecute(next)
    BY <2>1 DEF MayExecute
  <2> QED
    BY <1>3, <1>5, <2>2, <2>3 DEF Advance, next
<1> QED
  BY <1>2, <1>4, <1>5

LEMMA CancelAuditAdvances ==
    ASSUME NEW c \in Calls, calls \in [Calls -> CallTypes], CallInv(calls[c]),
           NEW recorded \in BOOLEAN, CancelAudit(c, recorded)
    PROVE  \E next : calls' = [calls EXCEPT ![c] = next] /\ Advance(calls[c], next)
<1> DEFINE call == Audited(c, "invocation-completed", recorded)
<1>1. call \in CallTypes /\ ~call.executed /\ call.request \in Requests /\ "cancelled" \in Codes
  BY AuditedType DEF AuditKinds, CallInv, CancelAudit, At, BeforeExecution, Codes, AbortReasons
<1>2. calls' = [calls EXCEPT ![c] = Return(call, NotStarted("cancelled"))]
  BY DEF CancelAudit, Only
<1> HIDE DEF call
<1> QED
  BY <1>1, <1>2, ReturnUnstarted

\* The check of the signal, from the policy or from the approval.
LEMMA AuthorizedAdvances ==
    ASSUME NEW c \in Calls, calls \in [Calls -> CallTypes], CallInv(calls[c]),
           calls[c].stage \in {"policy-audit", "approval-audit"}, Authorized(c),
           Writes(calls[c]) => calls[c].stage = "approval-audit" /\ calls[c].consumed = "ok"
    PROVE  \E next : calls' = [calls EXCEPT ![c] = next] /\ Advance(calls[c], next)
<1> DEFINE call == calls[c]
<1>1. /\ call \in CallTypes /\ ~call.executed /\ ~call.listening /\ call.request \in Requests
      /\ "invocation-requested" \in call.audited
      /\ Writes(call) => MayExecute(call)
  BY DEF CallInv, BeforeExecution, MayExecute
<1>2. CASE calls' = [calls EXCEPT ![c] = Goto(call, "cancel-audit")]
  <2> DEFINE next == Goto(call, "cancel-audit")
  <2>1. /\ next \in CallTypes /\ next.stage = "cancel-audit" /\ next.executed = FALSE /\ ~next.listening
        /\ next.request \in Requests
    BY <1>1 DEF Goto, CallTypes, Stages
  <2> HIDE DEF next
  <2>2. Advance(call, next)
    BY <2>1 DEF Advance, CallInv, MayExecute, BeforeExecution
  <2> QED
    BY <1>2, <2>2 DEF next
<1>3. CASE calls' = [calls EXCEPT ![c] = Return(call, NotStarted("connector-unavailable"))]
  <2>1. Advance(call, Return(call, NotStarted("connector-unavailable")))
    BY <1>1, ReturnUnstarted DEF Codes
  <2> QED
    BY <1>3, <2>1
<1>4. CASE calls' = [calls EXCEPT ![c] = Armed(call)]
  <2> DEFINE other == Forget(call)
             next == Armed(call)
  <2>1. /\ other \in CallTypes /\ ~other.executed
        /\ other.request = call.request /\ other.approval = call.approval /\ other.audited = call.audited
    BY <1>1, ForgetType
  <2>2. next = [other EXCEPT !.stage = "start-audit", !.listening = TRUE]
    BY DEF Armed
  <2> HIDE DEF other, next, call
  <2>3. /\ next \in CallTypes /\ next.stage = "start-audit" /\ ~next.executed
        /\ next.request = call.request /\ next.approval = call.approval /\ next.audited = call.audited
    BY <2>1, <2>2 DEF CallTypes, Stages
  <2>4. Advance(call, next)
    BY <1>1, <2>3 DEF Advance, CallInv, MayExecute, BeforeExecution, Writes
  <2> QED
    BY <1>4, <2>4 DEF next, call
<1> QED
  BY <1>2, <1>3, <1>4 DEF Authorized, Only

LEMMA ApprovalAuditAdvances ==
    ASSUME NEW c \in Calls, calls \in [Calls -> CallTypes], CallInv(calls[c]), ApprovalAudit(c)
    PROVE  \E next : calls' = [calls EXCEPT ![c] = next] /\ Advance(calls[c], next)
<1>1. calls[c] \in CallTypes /\ calls[c].stage = "approval-audit" /\ ~calls[c].executed /\ calls[c].request \in Requests
  BY DEF CallInv, ApprovalAudit, At, BeforeExecution
<1>2. /\ Advance(calls[c], Return(calls[c], NotStarted("approval-expired")))
      /\ Advance(calls[c], Return(calls[c], NotStarted("approval-denied")))
  BY <1>1, ReturnUnstarted DEF Codes
<1>3. CASE calls[c].consumed = "ok" /\ Authorized(c)
  BY <1>1, <1>3, AuthorizedAdvances
<1>4. CASE Only(c, Return(calls[c], NotStarted("approval-expired")))
  BY <1>2, <1>4 DEF Only
<1>5. CASE Only(c, Return(calls[c], NotStarted("approval-denied")))
  BY <1>2, <1>5 DEF Only
<1> QED
  BY <1>3, <1>4, <1>5 DEF ApprovalAudit

\* The connector is called by a call that had the right to.
LEMMA ExecuteAdvances ==
    ASSUME NEW old, NEW call \in CallTypes, ~call.executed, call.request \in Requests,
           {"invocation-requested", "execution-started"} \subseteq call.audited,
           Writes(call) => MayExecute(old),
           call.request = old.request, call.approval = old.approval
    PROVE  Advance(old, Execute(call))
<1> DEFINE next == Execute(call)
<1>1. /\ next \in CallTypes /\ next.stage = "executing" /\ next.executed
      /\ next.request = call.request /\ next.approval = call.approval /\ next.audited = call.audited
  BY DEF Execute, Goto, CallTypes, Stages
<1> HIDE DEF next
<1> QED
  BY <1>1 DEF Advance, CallInv, MayExecute, BeforeExecution, Writes, next

LEMMA StartAuditAdvances ==
    ASSUME NEW c \in Calls, calls \in [Calls -> CallTypes], CallInv(calls[c]),
           NEW recorded \in BOOLEAN, StartAudit(c, recorded)
    PROVE  \E next : calls' = [calls EXCEPT ![c] = next] /\ Advance(calls[c], next)
<1> DEFINE call == Audited(c, "execution-started", recorded)
<1>1. /\ calls[c] \in CallTypes /\ calls[c].stage = "start-audit" /\ ~calls[c].executed /\ calls[c].request \in Requests
      /\ "invocation-requested" \in calls[c].audited
      /\ Writes(calls[c]) => MayExecute(calls[c])
  BY DEF CallInv, StartAudit, At, BeforeExecution, MayExecute
<1>2. /\ call \in CallTypes /\ ~call.executed
      /\ call.request = calls[c].request /\ call.approval = calls[c].approval
      /\ "invocation-requested" \in call.audited
      /\ recorded => "execution-started" \in call.audited
  BY <1>1, AuditedType DEF AuditKinds
<1>3. \/ Only(c, Return(call, NotStarted("internal-error")))
      \/ recorded /\ Only(c, Goto(call, "secret"))
      \/ recorded /\ Only(c, Execute(call))
  BY DEF StartAudit
<1> HIDE DEF call
<1>4. CASE Only(c, Return(call, NotStarted("internal-error")))
  <2>1. Advance(calls[c], Return(call, NotStarted("internal-error")))
    BY <1>1, <1>2, ReturnUnstarted DEF Codes
  <2> QED
    BY <1>4, <2>1 DEF Only
<1>5. CASE recorded /\ Only(c, Goto(call, "secret"))
  <2> DEFINE next == Goto(call, "secret")
  <2>1. /\ next \in CallTypes /\ next.stage = "secret" /\ ~next.executed
        /\ next.request = call.request /\ next.approval = call.approval /\ next.audited = call.audited
    BY <1>2 DEF Goto, CallTypes, Stages
  <2> HIDE DEF next
  <2>2. Advance(calls[c], next)
    BY <1>1, <1>2, <1>5, <2>1 DEF Advance, CallInv, MayExecute, BeforeExecution, Writes
  <2> QED
    BY <1>5, <2>2 DEF Only, next
<1>6. CASE recorded /\ Only(c, Execute(call))
  <2>1. Advance(calls[c], Execute(call))
    BY <1>1, <1>2, <1>6, ExecuteAdvances DEF Writes
  <2> QED
    BY <1>6, <2>1 DEF Only
<1> QED
  BY <1>3, <1>4, <1>5, <1>6

LEMMA ResolveSecretAdvances ==
    ASSUME NEW c \in Calls, calls \in [Calls -> CallTypes], CallInv(calls[c]), ResolveSecret(c)
    PROVE  \E next : calls' = [calls EXCEPT ![c] = next] /\ Advance(calls[c], next)
<1>1. /\ calls[c] \in CallTypes /\ calls[c].stage = "secret" /\ ~calls[c].executed /\ calls[c].request \in Requests
      /\ {"invocation-requested", "execution-started"} \subseteq calls[c].audited
      /\ Writes(calls[c]) => MayExecute(calls[c])
  BY DEF CallInv, ResolveSecret, At, BeforeExecution, MayExecute
<1>2. CASE Only(c, Execute(calls[c]))
  <2>1. Advance(calls[c], Execute(calls[c]))
    BY <1>1, ExecuteAdvances
  <2> QED
    BY <1>2, <2>1 DEF Only
<1>3. CASE Only(c, Return(calls[c], Failure("secret-unavailable", "started")))
  <2> DEFINE result == Failure("secret-unavailable", "started")
             next == Return(calls[c], result)
  <2>1. result \in Results /\ result.kind = "failure" /\ result.state = "started"
    BY ResultTypes DEF Codes, ExecutionStates
  <2> HIDE DEF result
  <2>2. /\ next \in CallTypes /\ next.stage = "returned" /\ ~next.executed /\ ~next.listening /\ next.result = result
        /\ next.request \in Requests
    BY <1>1, <2>1, ReturnType
  <2> HIDE DEF next
  <2>3. Advance(calls[c], next)
    BY <2>1, <2>2 DEF Advance, CallInv, Honest, MayExecute, BeforeExecution
  <2> QED
    BY <1>3, <2>3 DEF Only, next, result
<1> QED
  BY <1>2, <1>3 DEF ResolveSecret

LEMMA ConnectorSettlesAdvances ==
    ASSUME NEW c \in Calls, calls \in [Calls -> CallTypes], CallInv(calls[c]),
           NEW answer \in Answers, ConnectorSettles(c, answer)
    PROVE  \E next : calls' = [calls EXCEPT ![c] = next] /\ Advance(calls[c], next)
<1> DEFINE call == calls[c]
           next == [call EXCEPT !.answer = answer, !.early = (call.abort = None)]
<1>1. /\ call \in CallTypes /\ CallInv(call) /\ call.stage = "executing" /\ call.executed
      /\ calls' = [calls EXCEPT ![c] = next]
  BY DEF CallInv, ConnectorSettles, At, Only
<1> HIDE DEF call
<1>2. /\ next \in CallTypes /\ next.stage = "executing" /\ next.executed
      /\ next.request = call.request /\ next.approval = call.approval /\ next.audited = call.audited
  BY <1>1 DEF CallTypes
<1> HIDE DEF next
<1>3. Advance(call, next)
  BY <1>1, <1>2 DEF Advance, CallInv, MayExecute, BeforeExecution, Writes
<1> QED
  BY <1>1, <1>3 DEF call

LEMMA AbortAdvances ==
    ASSUME NEW c \in Calls, calls \in [Calls -> CallTypes], CallInv(calls[c]),
           CallerAborts(c) \/ TimerFires(c)
    PROVE  \E next : calls' = [calls EXCEPT ![c] = next] /\ Advance(calls[c], next)
<1> DEFINE call == calls[c]
<1>1. call \in CallTypes /\ CallInv(call)
  BY DEF CallInv
<1>2. CASE /\ call.listening
           /\ \E reason \in AbortReasons : calls' = [calls EXCEPT ![c] = [call EXCEPT !.abort = reason]]
  <2>1. PICK reason \in AbortReasons : calls' = [calls EXCEPT ![c] = [call EXCEPT !.abort = reason]]
    BY <1>2
  <2> DEFINE next == [call EXCEPT !.abort = reason]
  <2> HIDE DEF call
  <2>2. /\ next \in CallTypes /\ next.stage = call.stage /\ next.executed = call.executed
        /\ next.listening = call.listening /\ next.consumed = call.consumed
        /\ next.request = call.request /\ next.approval = call.approval /\ next.audited = call.audited
    BY <1>1 DEF CallTypes
  <2> HIDE DEF next
  <2>3. Advance(call, next)
    BY <1>1, <1>2, <2>2 DEF Advance, CallInv, MayExecute, Writes, BeforeExecution
  <2> QED
    BY <2>1, <2>3 DEF next, call
<1>3. CASE /\ call.stage \in {"requested-audit", "policy-audit", "approval-audit"}
           /\ calls' = [calls EXCEPT ![c] = [call EXCEPT !.callerAborted = TRUE]]
  <2> DEFINE next == [call EXCEPT !.callerAborted = TRUE]
  <2> HIDE DEF call
  <2>1. /\ next \in CallTypes /\ next.stage = call.stage /\ next.executed = call.executed
        /\ next.listening = call.listening /\ next.consumed = call.consumed
        /\ next.request = call.request /\ next.approval = call.approval /\ next.audited = call.audited
    BY <1>1 DEF CallTypes
  <2> HIDE DEF next
  <2>2. Advance(call, next)
    BY <1>1, <1>3, <2>1 DEF Advance, CallInv, MayExecute, Writes, BeforeExecution
  <2> QED
    BY <1>3, <2>2 DEF next, call
<1> QED
  BY <1>2, <1>3 DEF CallerAborts, TimerFires, Only, AbortReasons

\* The end of an execution, by an abort, a failure or a success.
LEMMA FinishAdvances ==
    ASSUME NEW c \in Calls, calls \in [Calls -> CallTypes], CallInv(calls[c]), calls[c].stage = "executing",
           NEW result \in Results, NEW status, Finish(c, result, status),
           result.kind = "success" => calls[c].answer = "success" /\ calls[c].abort = None,
           result.state # "not-started",
           result.state = "completed" /\ Writes(calls[c]) => calls[c].answer # None
    PROVE  \E next : calls' = [calls EXCEPT ![c] = next] /\ Advance(calls[c], next)
<1> DEFINE call == calls[c]
           other == Forget(call)
           next == [other EXCEPT !.stage = "completion-audit", !.result = result]
<1>1. call \in CallTypes /\ CallInv(call) /\ call.executed
  BY DEF CallInv
<1>2. /\ other \in CallTypes /\ other.executed /\ ~other.listening
      /\ other.request = call.request /\ other.approval = call.approval /\ other.audited = call.audited
      /\ other.answer = call.answer /\ other.abort = call.abort
  BY <1>1, ForgetType
<1>3. calls' = [calls EXCEPT ![c] = next]
  BY DEF Finish, Only
<1> HIDE DEF other
<1>4. /\ next \in CallTypes /\ next.stage = "completion-audit" /\ next.executed /\ ~next.listening
      /\ next.request = call.request /\ next.approval = call.approval /\ next.audited = call.audited
      /\ next.answer = call.answer /\ next.abort = call.abort /\ next.result = result
  BY <1>2 DEF CallTypes, Stages
<1> HIDE DEF next
<1>5. Honest(next)
  BY <1>4 DEF Honest, Writes
<1>6. Advance(call, next)
  BY <1>1, <1>4, <1>5 DEF Advance, CallInv, MayExecute, Writes, BeforeExecution
<1> QED
  BY <1>3, <1>6

LEMMA RaceAbortedAdvances ==
    ASSUME NEW c \in Calls, calls \in [Calls -> CallTypes], CallInv(calls[c]), RaceAborted(c)
    PROVE  \E next : calls' = [calls EXCEPT ![c] = next] /\ Advance(calls[c], next)
<1> DEFINE result == Failure(calls[c].abort, AbortedState(c))
<1>1. /\ calls[c].stage = "executing" /\ Finish(c, result, "degraded")
      /\ calls[c].abort \in AbortReasons
  BY DEF RaceAborted, AbortWins, At, CallTypes
<1>2. /\ AbortedState(c) \in ExecutionStates /\ AbortedState(c) # "not-started"
      /\ Writes(calls[c]) => AbortedState(c) = "outcome-unknown"
  BY DEF AbortedState, ExecutionStates, WriteLike, Request, Writes
<1>3. result \in Results /\ result.kind = "failure" /\ result.state = AbortedState(c)
  BY <1>1, <1>2, ResultTypes DEF Codes
<1> HIDE DEF result
<1> QED
  BY <1>1, <1>2, <1>3, FinishAdvances

LEMMA ConnectorFailedAdvances ==
    ASSUME NEW c \in Calls, calls \in [Calls -> CallTypes], CallInv(calls[c]), ConnectorFailed(c)
    PROVE  \E next : calls' = [calls EXCEPT ![c] = next] /\ Advance(calls[c], next)
<1>1. calls[c].stage = "executing" /\ calls[c].answer # None
  BY DEF ConnectorFailed, AnswerWins, At
<1>2. PICK code \in Codes, state \in {"completed", "outcome-unknown"}, status \in {"degraded", "unavailable"} :
        Finish(c, Failure(code, state), status)
  <2>1. CASE calls[c].abort # None /\ Finish(c, Failure(calls[c].abort, "completed"), "degraded")
    <3>1. calls[c].abort \in Codes
      BY <2>1 DEF CallTypes, Codes
    <3> QED
      BY <2>1, <3>1
  <2>2. CASE Finish(c, Failure("internal-error", "outcome-unknown"), "degraded")
    BY <2>2 DEF Codes
  <2>3. CASE \E status \in {"degraded", "unavailable"} : Finish(c, Failure("known-failure", "completed"), status)
    BY <2>3 DEF Codes
  <2> QED
    BY <2>1, <2>2, <2>3 DEF ConnectorFailed
<1> DEFINE result == Failure(code, state)
<1>3. result \in Results /\ result.kind = "failure" /\ result.state = state
  BY ResultTypes DEF ExecutionStates
<1> HIDE DEF result
<1>4. Finish(c, result, status)
  BY <1>2 DEF result
<1> QED
  BY <1>1, <1>3, <1>4, FinishAdvances

LEMMA ConnectorSucceededAdvances ==
    ASSUME NEW c \in Calls, calls \in [Calls -> CallTypes], CallInv(calls[c]), ConnectorSucceeded(c)
    PROVE  \E next : calls' = [calls EXCEPT ![c] = next] /\ Advance(calls[c], next)
<1>1. calls[c].stage = "executing" /\ calls[c].answer # None
  BY DEF ConnectorSucceeded, AnswerWins, At
<1>2. CASE SuccessIsLate(c) /\ Finish(c, Failure(calls[c].abort, AbortedState(c)), "degraded")
  <2> DEFINE result == Failure(calls[c].abort, AbortedState(c))
  <2>1. AbortedState(c) \in ExecutionStates /\ AbortedState(c) # "not-started"
    BY DEF AbortedState, ExecutionStates
  <2>2. calls[c].abort \in Codes
    BY <1>2 DEF SuccessIsLate, CallTypes, Codes
  <2>3. result \in Results /\ result.kind = "failure" /\ result.state = AbortedState(c)
    BY <2>1, <2>2, ResultTypes
  <2> HIDE DEF result
  <2>4. Finish(c, result, "degraded")
    BY <1>2 DEF result
  <2> QED
    BY <1>1, <2>1, <2>3, <2>4, FinishAdvances
<1>3. CASE ~SuccessIsLate(c) /\ calls[c].answer = "success" /\ Finish(c, Success, "healthy")
  <2>1. Success.kind = "success" /\ Success.state = "completed" /\ Success \in Results
    BY ResultTypes
  <2>2. calls[c].abort = None
    BY <1>3 DEF SuccessIsLate
  <2> QED
    BY <1>1, <1>3, <2>1, <2>2, FinishAdvances
<1>4. CASE Finish(c, Failure("invalid-remote-response", "completed"), "degraded")
  <2> DEFINE result == Failure("invalid-remote-response", "completed")
  <2>1. result \in Results /\ result.kind = "failure" /\ result.state = "completed"
    BY ResultTypes DEF Codes, ExecutionStates
  <2> HIDE DEF result
  <2>2. Finish(c, result, "degraded")
    BY <1>4 DEF result
  <2> QED
    BY <1>1, <2>1, <2>2, FinishAdvances
<1> QED
  BY <1>2, <1>3, <1>4 DEF ConnectorSucceeded

LEMMA CompletionAuditAdvances ==
    ASSUME NEW c \in Calls, calls \in [Calls -> CallTypes], CallInv(calls[c]),
           NEW recorded \in BOOLEAN, CompletionAudit(c, recorded)
    PROVE  \E next : calls' = [calls EXCEPT ![c] = next] /\ Advance(calls[c], next)
<1> DEFINE old == calls[c]
           call == Audited(c, "invocation-completed", recorded)
           lost == Failure("internal-error", "outcome-unknown")
<1>1. old \in CallTypes /\ CallInv(old) /\ old.stage = "completion-audit" /\ old.executed /\ Honest(old)
  BY DEF CallInv, CompletionAudit, At
<1>2. /\ call \in CallTypes /\ call.executed
      /\ call.request = old.request /\ call.approval = old.approval
      /\ call.answer = old.answer /\ call.abort = old.abort /\ call.result = old.result
      /\ old.audited \subseteq call.audited
      /\ recorded => "invocation-completed" \in call.audited
  BY <1>1, AuditedType DEF AuditKinds
<1>3. \/ recorded /\ calls' = [calls EXCEPT ![c] = Return(call, call.result)]
      \/ calls' = [calls EXCEPT ![c] = Return(call, lost)]
  BY DEF CompletionAudit, Only
<1>4. lost \in Results /\ lost.kind = "failure" /\ lost.state = "outcome-unknown"
  BY ResultTypes DEF Codes, ExecutionStates
<1> HIDE DEF old, call, lost
<1>5. ASSUME NEW result \in Results, result \in {lost, call.result}, result = lost \/ recorded
      PROVE  Advance(old, Return(call, result))
  <2> DEFINE next == Return(call, result)
  <2>1. /\ next \in CallTypes /\ next.stage = "returned" /\ next.executed /\ ~next.listening
        /\ next.request = call.request /\ next.approval = call.approval /\ next.audited = call.audited
        /\ next.answer = call.answer /\ next.abort = call.abort /\ next.result = result
    BY <1>2, ReturnType
  <2> HIDE DEF next
  <2>2. Honest(next)
    BY <1>1, <1>2, <1>4, <1>5, <2>1 DEF Honest, Writes
  <2>3. CallInv(next)
    BY <1>1, <1>2, <1>4, <1>5, <2>1, <2>2 DEF CallInv, BeforeExecution
  <2> QED
    BY <1>1, <1>2, <2>1, <2>3 DEF Advance, MayExecute, Writes, next
<1>6. call.result \in Results
  BY <1>1, <1>2 DEF Honest
<1>7. CASE recorded /\ calls' = [calls EXCEPT ![c] = Return(call, call.result)]
  <2>1. Advance(old, Return(call, call.result))
    BY <1>5, <1>6, <1>7
  <2> QED
    BY <1>7, <2>1 DEF old
<1>8. CASE calls' = [calls EXCEPT ![c] = Return(call, lost)]
  <2>1. Advance(old, Return(call, lost))
    BY <1>4, <1>5
  <2> QED
    BY <1>8, <2>1 DEF old
<1> QED
  BY <1>3, <1>7, <1>8

----------------------------------------------------------------------------
\* The approvals.
LEMMA ConsumeIsChecked ==
    ASSUME NEW a \in Approvals, NEW nonce, NEW binding, ApprovalsTypeOK
    PROVE  /\ ConsumeOutcome(a, nonce, binding) \in Consumptions
           /\ ConsumeOutcome(a, nonce, binding) = "ok" =>
                /\ approvals[a].status = "granted"
                /\ approvals[a].binding = binding
                /\ approvals[a].approver # None
BY DEF ConsumeOutcome, Consumptions, ApprovalsTypeOK

\* What no step may do to an approval that has ended.
EndedStays(a) ==
    /\ approvals[a].status \in Ended => approvals'[a].status \in Ended
    /\ approvals[a].status = "consumed" => approvals'[a] = approvals[a]

ApprovalsStep == ApprovalsTypeOK' /\ \A a \in Approvals : EndedStays(a)

LEMMA CreateRequestStep ==
    ASSUME ApprovalsTypeOK, NEW a \in Fresh, NEW binding \in Bindings, CreateRequest(a, binding)
    PROVE  ApprovalsStep
BY DEF ApprovalsTypeOK, Fresh, CreateRequest, Pending, NoApproval, Statuses, Ended, ApprovalsStep, EndedStays

LEMMA ConsumeGrantStep ==
    ASSUME ApprovalsTypeOK, NEW a \in Approvals, NEW nonce, NEW binding, ConsumeGrant(a, nonce, binding)
    PROVE  ApprovalsStep
<1>1. CASE UNCHANGED approvals
  BY <1>1 DEF ApprovalsTypeOK, ApprovalsStep, EndedStays
<1>2. CASE approvals[a].status = "granted" /\ WithStatus(a, "consumed")
  BY <1>2 DEF ApprovalsTypeOK, WithStatus, Statuses, Ended, ApprovalsStep, EndedStays
<1> QED
  BY <1>1, <1>2, ConsumeIsChecked DEF ConsumeGrant

LEMMA DecisionStep ==
    ASSUME ApprovalsTypeOK, Decision
    PROVE  ApprovalsStep
<1> USE DEF ApprovalsTypeOK, Statuses, Ended, ApprovalsStep, EndedStays
<1>1. PICK a \in Approvals :
        (\E approver \in Approvers : Grant(a, approver)) \/ Deny(a) \/ Revoke(a) \/ ApprovalExpires(a)
  BY DEF Decision
<1>2. CASE \E approver \in Approvers : Grant(a, approver)
  <2>1. PICK approver \in Approvers : Grant(a, approver)
    BY <1>2
  <2>2. /\ approvals' = [approvals EXCEPT ![a] = [approvals[a] EXCEPT !.status = "granted", !.approver = approver]]
        /\ approvals[a].status \in {"pending", "granted"}
    BY <2>1 DEF Grant, Grantable
  <2> QED
    BY <2>2
<1>3. CASE Deny(a)
  BY <1>3 DEF Deny, Undecided, WithStatus
<1>4. CASE Revoke(a)
  BY <1>4 DEF Revoke, Undecided, WithStatus
<1>5. CASE ApprovalExpires(a)
  BY <1>5 DEF ApprovalExpires
<1> QED
  BY <1>1, <1>2, <1>3, <1>4, <1>5

----------------------------------------------------------------------------
\* The approval of a call that may execute is spent, was granted for this very
\* request, and is nobody else's.
SpentFor(call) ==
    /\ call.approval \in Approvals
    /\ approvals[call.approval].status = "consumed"
    /\ approvals[call.approval].binding = BindingOf(call.request)
    /\ approvals[call.approval].approver # None

ApprovalInv ==
    /\ \A c \in Calls : MayExecute(calls[c]) => SpentFor(calls[c])
    /\ \A c, d \in Calls :
         c # d /\ MayExecute(calls[c]) /\ MayExecute(calls[d]) => calls[c].approval # calls[d].approval

ToolInv ==
    /\ ApprovalsTypeOK
    /\ health \in [Connections \cup {None} -> {"unknown", "healthy", "degraded", "unavailable"}]
    /\ calls \in [Calls -> CallTypes]
    /\ \A c \in Calls : CallInv(calls[c])
    /\ ApprovalInv

LEMMA InitHolds == ToolInit => ToolInv
<1> SUFFICES ASSUME ToolInit PROVE ToolInv
  OBVIOUS
<1>1. ApprovalsTypeOK
  <2> DEFINE Type == [ status : Statuses, binding : Bindings \cup {None}, approver : Approvers \cup {None},
                       expired : BOOLEAN ]
  <2>1. NoApproval \in Type /\ \A b \in Bindings : Pending(b) \in Type
    BY DEF NoApproval, Pending, Statuses
  <2> QED
    BY <2>1 DEF ToolInit, ApprovalsInit, ApprovalsTypeOK
<1>2. NoCall \in CallTypes /\ NoCall.stage = "idle" /\ ~NoCall.executed /\ ~NoCall.listening
  BY DEF NoCall, CallTypes, Stages
<1>3. CallInv(NoCall) /\ ~MayExecute(NoCall)
  BY <1>2 DEF CallInv, MayExecute, BeforeExecution
<1>4. calls = [c \in Calls |-> NoCall]
  BY DEF ToolInit
<1> QED
  BY <1>1, <1>2, <1>3, <1>4 DEF ToolInit, ToolInv, ApprovalInv

\* A step of one call that takes no approval.
LEMMA AdvanceHolds ==
    ASSUME ToolInv, NEW c \in Calls, NEW next, calls' = [calls EXCEPT ![c] = next], Advance(calls[c], next),
           ApprovalsStep
    PROVE  /\ calls' \in [Calls -> CallTypes]
           /\ \A d \in Calls : CallInv(calls'[d])
           /\ ApprovalInv'
<1>1. next \in CallTypes /\ CallInv(next)
  BY DEF Advance, CallInv
<1>2. \A d \in Calls : calls'[d] = IF d = c THEN next ELSE calls[d]
  BY DEF ToolInv
<1>3. calls' \in [Calls -> CallTypes] /\ \A d \in Calls : CallInv(calls'[d])
  BY <1>1, <1>2 DEF ToolInv
<1>4. \A d \in Calls : MayExecute(calls'[d]) =>
        MayExecute(calls[d]) /\ calls'[d].request = calls[d].request /\ calls'[d].approval = calls[d].approval
  BY <1>2 DEF Advance
<1>5. \A d \in Calls : MayExecute(calls'[d]) => SpentFor(calls[d])'
  <2> SUFFICES ASSUME NEW d \in Calls, MayExecute(calls'[d])
               PROVE  SpentFor(calls[d])'
    OBVIOUS
  <2>1. SpentFor(calls[d])
    BY <1>4 DEF ToolInv, ApprovalInv
  <2>2. approvals'[calls[d].approval] = approvals[calls[d].approval]
    BY <2>1 DEF SpentFor, ApprovalsStep, EndedStays
  <2> QED
    BY <1>4, <2>1, <2>2 DEF SpentFor
<1>6. \A d, e \in Calls :
        d # e /\ MayExecute(calls'[d]) /\ MayExecute(calls'[e]) => calls'[d].approval # calls'[e].approval
  BY <1>4 DEF ToolInv, ApprovalInv
<1> QED
  BY <1>3, <1>5, <1>6 DEF ApprovalInv, MayExecute, SpentFor, Writes

\* The step of a call that takes an approval: until then it was granted, so it
\* was spent for no call.
LEMMA ConsumeHolds ==
    ASSUME ToolInv, NEW c \in Calls, calls[c].stage = "policy-audit", calls[c].approval # None,
           NEW outcome,
           outcome = ConsumeOutcome(calls[c].approval, calls[c].nonce, BindingOf(calls[c].request)),
           ConsumeGrant(calls[c].approval, calls[c].nonce, BindingOf(calls[c].request)),
           calls' = [calls EXCEPT ![c] = [Goto(calls[c], "approval-audit") EXCEPT !.consumed = outcome]]
    PROVE  /\ calls' \in [Calls -> CallTypes]
           /\ \A d \in Calls : CallInv(calls'[d])
           /\ ApprovalInv'
           /\ ApprovalsStep
<1> DEFINE call == calls[c]
           a == call.approval
           next == [Goto(call, "approval-audit") EXCEPT !.consumed = outcome]
<1>1. /\ call \in CallTypes /\ CallInv(call) /\ ~call.executed /\ ~call.listening
      /\ call.request \in Requests
      /\ "invocation-requested" \in call.audited /\ a \in Approvals
  BY DEF ToolInv, CallInv, BeforeExecution, CallTypes
<1>2. /\ outcome \in Consumptions
      /\ outcome = "ok" => /\ approvals[a].status = "granted"
                           /\ approvals[a].binding = BindingOf(call.request)
                           /\ approvals[a].approver # None
  BY <1>1, ConsumeIsChecked DEF ToolInv
<1>3. ApprovalsStep
  BY <1>1, ConsumeGrantStep DEF ToolInv
<1> HIDE DEF call
<1>4. /\ next \in CallTypes /\ next.stage = "approval-audit" /\ ~next.executed /\ ~next.listening
      /\ next.consumed = outcome
      /\ next.request = call.request /\ next.approval = a /\ next.audited = call.audited
  BY <1>1, <1>2 DEF Goto, CallTypes, Stages
<1>5. \A d \in Calls : calls'[d] = IF d = c THEN next ELSE calls[d]
  BY DEF ToolInv, call
<1> HIDE DEF next
<1>6. CallInv(next) /\ (MayExecute(next) => outcome = "ok")
  BY <1>1, <1>4 DEF CallInv, MayExecute, BeforeExecution
<1>7. calls' \in [Calls -> CallTypes] /\ \A d \in Calls : CallInv(calls'[d])
  BY <1>4, <1>5, <1>6 DEF ToolInv
<1>8. outcome = "ok" => approvals' = [approvals EXCEPT ![a].status = "consumed", ![a].expired = FALSE]
  BY DEF ConsumeGrant, WithStatus, call
<1>9. \A d \in Calls : MayExecute(calls'[d]) => SpentFor(calls[d])'
  <2> SUFFICES ASSUME NEW d \in Calls, MayExecute(calls'[d])
               PROVE  SpentFor(calls[d])'
    OBVIOUS
  <2>1. CASE d = c
    <3>1. outcome = "ok" /\ calls'[d] = next
      BY <1>5, <1>6, <2>1
    <3>2. /\ approvals'[a].status = "consumed"
          /\ approvals'[a].binding = approvals[a].binding
          /\ approvals'[a].approver = approvals[a].approver
      BY <1>1, <1>8, <3>1 DEF ToolInv, ApprovalsTypeOK
    <3> QED
      BY <1>1, <1>2, <1>4, <3>1, <3>2 DEF SpentFor
  <2>2. CASE d # c
    <3>1. calls'[d] = calls[d] /\ SpentFor(calls[d])
      BY <1>5, <2>2 DEF ToolInv, ApprovalInv
    <3>2. approvals'[calls[d].approval] = approvals[calls[d].approval]
      BY <1>3, <3>1 DEF SpentFor, ApprovalsStep, EndedStays
    <3> QED
      BY <3>1, <3>2 DEF SpentFor
  <2> QED
    BY <2>1, <2>2
<1>10. \A d \in Calls : d # c /\ MayExecute(calls'[d]) /\ MayExecute(next) => calls'[d].approval # a
  BY <1>2, <1>5, <1>6 DEF ToolInv, ApprovalInv, SpentFor
<1>11. \A d, e \in Calls :
         d # e /\ MayExecute(calls'[d]) /\ MayExecute(calls'[e]) => calls'[d].approval # calls'[e].approval
  <2> SUFFICES ASSUME NEW d \in Calls, NEW e \in Calls, d # e, MayExecute(calls'[d]), MayExecute(calls'[e])
               PROVE  calls'[d].approval # calls'[e].approval
    OBVIOUS
  <2>1. CASE d = c
    BY <1>4, <1>5, <1>10, <2>1
  <2>2. CASE e = c
    BY <1>4, <1>5, <1>10, <2>2
  <2>3. CASE d # c /\ e # c
    BY <1>5, <2>3 DEF ToolInv, ApprovalInv
  <2> QED
    BY <2>1, <2>2, <2>3
<1>12. ApprovalInv'
  BY <1>9, <1>11 DEF ApprovalInv
<1> QED
  BY <1>3, <1>7, <1>12

LEMMA ApprovalsUntouched ==
    ASSUME ToolInv, UNCHANGED approvals
    PROVE  ApprovalsStep
BY DEF ToolInv, ApprovalsStep, EndedStays, ApprovalsTypeOK

LEMMA PolicyAuditHolds ==
    ASSUME ToolInv, NEW c \in Calls, PolicyAudit(c)
    PROVE  /\ calls' \in [Calls -> CallTypes]
           /\ \A d \in Calls : CallInv(calls'[d])
           /\ ApprovalInv'
           /\ ApprovalsStep
<1> DEFINE call == calls[c]
           decision == PolicyDecision(call.request.tool)
<1>1. /\ calls \in [Calls -> CallTypes] /\ CallInv(call) /\ call \in CallTypes /\ call.stage = "policy-audit"
      /\ ~call.executed /\ ~call.listening /\ "invocation-requested" \in call.audited
      /\ call.request \in Requests
  BY DEF ToolInv, CallInv, PolicyAudit, At, BeforeExecution
<1>2. decision = "allow" => ~Writes(call)
  BY DEF PolicyDecision, Writes
<1>3. CASE decision = "deny" /\ Only(c, Return(call, NotStarted("policy-denied"))) /\ UNCHANGED approvals
  <2>1. Advance(call, Return(call, NotStarted("policy-denied")))
    BY <1>1, ReturnUnstarted DEF Codes
  <2> QED
    BY <1>3, <2>1, AdvanceHolds, ApprovalsUntouched DEF Only
<1>4. CASE decision = "allow" /\ Authorized(c) /\ UNCHANGED approvals
  <2>1. PICK next : calls' = [calls EXCEPT ![c] = next] /\ Advance(call, next)
    BY <1>1, <1>2, <1>4, AuthorizedAdvances
  <2> QED
    BY <1>4, <2>1, AdvanceHolds, ApprovalsUntouched
<1>5. ASSUME NEW result \in {ApprovalRequired, NotStarted("approval-denied")}, ApprovalsStep,
             Only(c, [Goto(call, "create-audit") EXCEPT !.result = result])
      PROVE  /\ calls' \in [Calls -> CallTypes]
             /\ \A d \in Calls : CallInv(calls'[d])
             /\ ApprovalInv'
  <2> DEFINE next == [Goto(call, "create-audit") EXCEPT !.result = result]
  <2>1. result \in Results
    BY <1>5, ResultTypes DEF Codes
  <2>2. calls' = [calls EXCEPT ![c] = next]
    BY <1>5 DEF Only
  <2> HIDE DEF call
  <2>3. /\ next \in CallTypes /\ next.stage = "create-audit" /\ ~next.executed /\ ~next.listening
        /\ next.result = result /\ next.request \in Requests
    BY <1>1, <2>1 DEF Goto, CallTypes, Stages
  <2> HIDE DEF next
  <2>4. Advance(call, next)
    BY <2>3 DEF Advance, CallInv, MayExecute, BeforeExecution
  <2> QED
    BY <1>5, <2>2, <2>4, AdvanceHolds DEF call
<1>6. CASE /\ decision = "require-approval"
           /\ \E a \in Fresh : CreateRequest(a, BindingOf(call.request))
           /\ Only(c, [Goto(call, "create-audit") EXCEPT !.result = ApprovalRequired])
  <2>1. PICK a \in Fresh : CreateRequest(a, BindingOf(call.request))
    BY <1>6
  <2>2. BindingOf(call.request) \in Bindings
    BY <1>1, <1>6, InvocationAssumption DEF Requests
  <2>3. ApprovalsStep
    BY <2>1, <2>2, CreateRequestStep DEF ToolInv
  <2> QED
    BY <1>5, <1>6, <2>3
<1>7. CASE /\ UNCHANGED approvals
           /\ Only(c, [Goto(call, "create-audit") EXCEPT !.result = NotStarted("approval-denied")])
  BY <1>5, <1>7, ApprovalsUntouched
<1>8. CASE Only(c, Return(call, NotStarted("approval-denied"))) /\ UNCHANGED approvals
  <2>1. Advance(call, Return(call, NotStarted("approval-denied")))
    BY <1>1, ReturnUnstarted DEF Codes
  <2> QED
    BY <1>8, <2>1, AdvanceHolds, ApprovalsUntouched DEF Only
<1>9. CASE /\ call.approval # None
           /\ ConsumeGrant(call.approval, call.nonce, BindingOf(call.request))
           /\ Only(c, [Goto(call, "approval-audit") EXCEPT
                !.consumed = ConsumeOutcome(call.approval, call.nonce, BindingOf(call.request))])
  BY <1>1, <1>9, ConsumeHolds DEF Only
<1> QED
  BY <1>3, <1>4, <1>6, <1>7, <1>8, <1>9 DEF PolicyAudit, Request

----------------------------------------------------------------------------
\* Every step.
LEMMA FinishKeepsHealth ==
    ASSUME ToolInv, NEW c \in Calls, CallInv(calls[c]), NEW result,
           NEW status \in {"unknown", "healthy", "degraded", "unavailable"},
           Finish(c, result, status)
    PROVE  health' \in [Connections \cup {None} -> {"unknown", "healthy", "degraded", "unavailable"}]
BY DEF Finish, ToolInv

LEMMA PipelineHolds ==
    ASSUME ToolInv, NEW c \in Calls, Pipeline(c)
    PROVE  /\ health' \in [Connections \cup {None} -> {"unknown", "healthy", "degraded", "unavailable"}]
           /\ calls' \in [Calls -> CallTypes]
           /\ \A d \in Calls : CallInv(calls'[d])
           /\ ApprovalInv'
           /\ ApprovalsStep
<1> DEFINE Advances == \E next : calls' = [calls EXCEPT ![c] = next] /\ Advance(calls[c], next)
           Healthy == health' \in [Connections \cup {None} -> {"unknown", "healthy", "degraded", "unavailable"}]
<1>1. calls \in [Calls -> CallTypes] /\ CallInv(calls[c])
  BY DEF ToolInv
<1>2. CASE PolicyAudit(c)
  <2>1. Healthy
    BY <1>2 DEF PolicyAudit, ToolInv
  <2> QED
    BY <1>2, <2>1, PolicyAuditHolds
<1>3. UNCHANGED health => Healthy
  BY DEF ToolInv
<1>4. ASSUME Advances, UNCHANGED approvals
      PROVE  /\ calls' \in [Calls -> CallTypes]
             /\ \A d \in Calls : CallInv(calls'[d])
             /\ ApprovalInv'
             /\ ApprovalsStep
  <2>1. ApprovalsStep
    BY <1>4, ApprovalsUntouched
  <2>2. PICK next : calls' = [calls EXCEPT ![c] = next] /\ Advance(calls[c], next)
    BY <1>4
  <2> QED
    BY <2>1, <2>2, AdvanceHolds
<1> HIDE DEF Healthy, Advances
<1>5. ASSUME NEW recorded \in BOOLEAN, RequestedAudit(c, recorded)
      PROVE  Advances /\ UNCHANGED approvals /\ Healthy
  BY <1>1, <1>3, <1>5, RequestedAuditAdvances DEF Advances, RequestedAudit, Local
<1>6. ASSUME NEW recorded \in BOOLEAN, CancelAudit(c, recorded)
      PROVE  Advances /\ UNCHANGED approvals /\ Healthy
  BY <1>1, <1>3, <1>6, CancelAuditAdvances DEF Advances, CancelAudit, Local
<1>7. ASSUME NEW recorded \in BOOLEAN, StartAudit(c, recorded)
      PROVE  Advances /\ UNCHANGED approvals /\ Healthy
  BY <1>1, <1>3, <1>7, StartAuditAdvances DEF Advances, StartAudit, Local
<1>8. ASSUME NEW recorded \in BOOLEAN, CompletionAudit(c, recorded)
      PROVE  Advances /\ UNCHANGED approvals /\ Healthy
  BY <1>1, <1>3, <1>8, CompletionAuditAdvances DEF Advances, CompletionAudit, Local
<1>9. CASE InvalidAudit(c)
  <2>1. Advances /\ UNCHANGED approvals /\ Healthy
    BY <1>1, <1>3, <1>9, InvalidAuditAdvances DEF Advances, InvalidAudit, Local
  <2> QED
    BY <1>4, <2>1 DEF Healthy
<1>10. CASE CreateAudit(c)
  <2>1. Advances /\ UNCHANGED approvals /\ Healthy
    BY <1>1, <1>3, <1>10, CreateAuditAdvances DEF Advances, CreateAudit, Local
  <2> QED
    BY <1>4, <2>1 DEF Healthy
<1>11. CASE ApprovalAudit(c)
  <2>1. Advances /\ UNCHANGED approvals /\ Healthy
    BY <1>1, <1>3, <1>11, ApprovalAuditAdvances DEF Advances, ApprovalAudit, Local
  <2> QED
    BY <1>4, <2>1 DEF Healthy
<1>12. CASE ResolveSecret(c)
  <2>1. Advances /\ UNCHANGED approvals /\ Healthy
    BY <1>1, <1>3, <1>12, ResolveSecretAdvances DEF Advances, ResolveSecret, Local
  <2> QED
    BY <1>4, <2>1 DEF Healthy
<1>13. CASE RaceAborted(c)
  <2>1. UNCHANGED approvals /\ Healthy
    BY <1>1, <1>13, FinishKeepsHealth DEF RaceAborted, Finish, Healthy
  <2>2. Advances
    BY <1>1, <1>13, RaceAbortedAdvances DEF Advances
  <2> QED
    BY <1>4, <2>1, <2>2 DEF Healthy
<1>14. CASE ConnectorFailed(c)
  <2>1. UNCHANGED approvals /\ Healthy
    BY <1>1, <1>14, FinishKeepsHealth DEF ConnectorFailed, Finish, Healthy
  <2>2. Advances
    BY <1>1, <1>14, ConnectorFailedAdvances DEF Advances
  <2> QED
    BY <1>4, <2>1, <2>2 DEF Healthy
<1>15. CASE ConnectorSucceeded(c)
  <2>1. UNCHANGED approvals /\ Healthy
    BY <1>1, <1>15, FinishKeepsHealth DEF ConnectorSucceeded, Finish, Healthy
  <2>2. Advances
    BY <1>1, <1>15, ConnectorSucceededAdvances DEF Advances
  <2> QED
    BY <1>4, <2>1, <2>2 DEF Healthy
<1>16. CASE \E recorded \in BOOLEAN :
              RequestedAudit(c, recorded) \/ CancelAudit(c, recorded)
              \/ StartAudit(c, recorded) \/ CompletionAudit(c, recorded)
  <2>1. Advances /\ UNCHANGED approvals /\ Healthy
    BY <1>5, <1>6, <1>7, <1>8, <1>16
  <2> QED
    BY <1>4, <2>1 DEF Healthy
<1> QED
  BY <1>2, <1>9, <1>10, <1>11, <1>12, <1>13, <1>14, <1>15, <1>16 DEF Pipeline

LEMMA StepHolds ==
    ASSUME ToolInv, [ToolNext]_toolVars
    PROVE  ToolInv' /\ ApprovalsStep
<1> DEFINE Kept == /\ health' \in [Connections \cup {None} -> {"unknown", "healthy", "degraded", "unavailable"}]
                   /\ calls' \in [Calls -> CallTypes]
                   /\ \A d \in Calls : CallInv(calls'[d])
                   /\ ApprovalInv'
                   /\ ApprovalsStep
<1>1. calls \in [Calls -> CallTypes] /\ \A c \in Calls : CallInv(calls[c])
  BY DEF ToolInv
<1>2. ASSUME NEW c \in Calls, Local,
             \E next : calls' = [calls EXCEPT ![c] = next] /\ Advance(calls[c], next)
      PROVE  Kept
  <2>1. ApprovalsStep
    BY <1>2, ApprovalsUntouched DEF Local
  <2>2. PICK next : calls' = [calls EXCEPT ![c] = next] /\ Advance(calls[c], next)
    BY <1>2
  <2>3. health' = health
    BY <1>2 DEF Local
  <2> QED
    BY <2>1, <2>2, <2>3, AdvanceHolds DEF ToolInv
<1>3. ASSUME ApprovalsStep, UNCHANGED <<calls, health>>
      PROVE  Kept
  <2>1. \A d \in Calls : MayExecute(calls[d]) => SpentFor(calls[d])'
    <3> SUFFICES ASSUME NEW d \in Calls, MayExecute(calls[d])
                 PROVE  SpentFor(calls[d])'
      OBVIOUS
    <3>1. SpentFor(calls[d])
      BY DEF ToolInv, ApprovalInv
    <3>2. approvals'[calls[d].approval] = approvals[calls[d].approval]
      BY <1>3, <3>1 DEF SpentFor, ApprovalsStep, EndedStays
    <3> QED
      BY <1>3, <3>1, <3>2 DEF SpentFor
  <2>2. ApprovalInv'
    BY <1>3, <2>1 DEF ToolInv, ApprovalInv
  <2> QED
    BY <1>1, <1>3, <2>2 DEF ToolInv
<1> HIDE DEF Kept
<1>4. ASSUME NEW c \in Calls, NEW request \in OfferedRequests[c],
             NEW approval \in Approvals \cup {None}, NEW nonce \in Approvals \cup {None},
             Invoke(c, request, approval, nonce)
      PROVE  Kept
  BY <1>1, <1>2, <1>4, InvokeAdvances DEF Invoke
<1>5. ASSUME NEW c \in Calls, Pipeline(c)
      PROVE  Kept
  BY <1>5, PipelineHolds DEF Kept
<1>6. ASSUME NEW c \in Calls, NEW answer \in Answers, ConnectorSettles(c, answer)
      PROVE  Kept
  BY <1>1, <1>2, <1>6, ConnectorSettlesAdvances DEF ConnectorSettles
<1>7. ASSUME NEW c \in Calls, CallerAborts(c) \/ TimerFires(c)
      PROVE  Kept
  BY <1>1, <1>2, <1>7, AbortAdvances DEF CallerAborts, TimerFires
<1>8. ASSUME Decision, UNCHANGED <<calls, health>>
      PROVE  Kept
  <2>1. ApprovalsStep
    BY <1>8, DecisionStep DEF ToolInv
  <2> QED
    BY <1>3, <1>8, <2>1
<1>9. ASSUME UNCHANGED toolVars
      PROVE  Kept
  <2>1. ApprovalsStep /\ UNCHANGED <<calls, health>>
    BY <1>9, ApprovalsUntouched DEF toolVars
  <2> QED
    BY <1>3, <2>1
<1>10. ASSUME \E c \in Calls :
               \/ \E request \in OfferedRequests[c], approval, nonce \in (Approvals \ Fresh) \cup {None} :
                    (approval = None => nonce = None) /\ Invoke(c, request, approval, nonce)
               \/ Pipeline(c)
               \/ \E answer \in Answers : ConnectorSettles(c, answer)
               \/ CallerAborts(c)
               \/ TimerFires(c)
      PROVE  Kept
  <2>1. PICK c \in Calls :
               \/ \E request \in OfferedRequests[c], approval, nonce \in (Approvals \ Fresh) \cup {None} :
                    (approval = None => nonce = None) /\ Invoke(c, request, approval, nonce)
               \/ Pipeline(c)
               \/ \E answer \in Answers : ConnectorSettles(c, answer)
               \/ CallerAborts(c)
               \/ TimerFires(c)
    BY <1>10
  <2>2. (Approvals \ Fresh) \cup {None} \subseteq Approvals \cup {None}
    OBVIOUS
  <2>3. CASE \E request \in OfferedRequests[c], approval, nonce \in (Approvals \ Fresh) \cup {None} :
                (approval = None => nonce = None) /\ Invoke(c, request, approval, nonce)
    BY <1>4, <2>2, <2>3
  <2>4. CASE \E answer \in Answers : ConnectorSettles(c, answer)
    BY <1>6, <2>4
  <2> QED
    BY <1>5, <1>7, <2>1, <2>3, <2>4
<1>11. Kept
  BY <1>8, <1>9, <1>10 DEF ToolNext
<1> QED
  BY <1>11 DEF Kept, ToolInv, ApprovalsStep

LEMMA ToolInvHolds == ToolSpec => []ToolInv
<1>1. ToolInv /\ [ToolNext]_toolVars => ToolInv'
  BY StepHolds
<1> QED
  BY <1>1, InitHolds, PTL DEF ToolSpec

----------------------------------------------------------------------------
\* Every local of a call, every approval and every health stays in its domain.
THEOREM ToolsAreTyped == ToolSpec => []ToolTypeOK
<1>1. ToolInv => ToolTypeOK
  BY DEF ToolInv, ToolTypeOK
<1> QED
  BY <1>1, ToolInvHolds, PTL

\* A tool that writes is executed only for a granted approval bound to exactly
\* this request, and no two executions share one.
THEOREM ExecutionsHaveTheirOwnApproval == ToolSpec => []ExecutionHasItsOwnApproval
<1>1. ASSUME ToolInv
      PROVE  ExecutionHasItsOwnApproval
  <2>1. \A c \in Calls : calls[c].executed /\ WriteLike(c) => MayExecute(calls[c]) /\ SpentFor(calls[c])
    BY <1>1 DEF ToolInv, ApprovalInv, MayExecute, WriteLike, Request, Writes
  <2>2. \A c, d \in Calls :
          c # d /\ MayExecute(calls[c]) /\ MayExecute(calls[d]) => calls[c].approval # calls[d].approval
    BY <1>1 DEF ToolInv, ApprovalInv
  <2>3. None \notin Approvals
    BY ApprovalsAssumption
  <2> QED
    BY <2>1, <2>2, <2>3 DEF ExecutionHasItsOwnApproval, SpentFor, Request
<1> QED
  BY <1>1, ToolInvHolds, PTL

\* Whatever order abort, timer, answer and audits come in, a result never claims
\* more than is known.
THEOREM ResultsAreHonest == ToolSpec => []ResultIsHonest
<1>1. ToolInv => ResultIsHonest
  BY DEF ToolInv, CallInv, Honest, ResultIsHonest, At, WriteLike, Request, Writes
<1> QED
  BY <1>1, ToolInvHolds, PTL

\* Nothing is executed that the audit has no request and no start of.
THEOREM ExecutionsAreAudited == ToolSpec => []ExecutionIsAudited
<1>1. ToolInv => ExecutionIsAudited
  BY DEF ToolInv, CallInv, ExecutionIsAudited
<1> QED
  BY <1>1, ToolInvHolds, PTL

\* No step makes a denied, revoked or consumed approval usable again.
THEOREM ApprovalsStayEnded == ToolSpec => EndedApprovalsStayEnded
<1>1. ToolInv /\ [ToolNext]_toolVars =>
        [\A a \in Approvals :
           /\ approvals[a].status \in Ended => approvals'[a].status \in Ended
           /\ approvals[a].status = "consumed" => approvals'[a].status = "consumed"]_approvals
  BY StepHolds DEF ApprovalsStep, EndedStays
<1> QED
  BY <1>1, ToolInvHolds, PTL DEF ToolSpec, EndedApprovalsStayEnded
===============================================================================
