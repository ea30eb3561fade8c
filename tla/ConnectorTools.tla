---------------------------- MODULE ConnectorTools ----------------------------
(* The two connectors of the repository and the reference host and provider: the
   tools they publish, what the policy engines say of each, and how a call ends
   when its delay, its caller's abort and the other calls run in any order. The
   orchestrator that brings a call here is ToolInvocation; what a simulation is
   told to play is the call's mode. *)
EXTENDS FiniteSets

CONSTANTS ToolCalls, NoNote

VARIABLES toolCalls,  \* each call: its tool, its mode, how far it is
          notes       \* what the reference connector has stored, per call's key

connectorVars == <<toolCalls, notes>>

Tool(id, effect) == [id |-> id, effect |-> effect]
InfrastructureReads ==
    {"servers.list", "server.inspect", "server.resources.read", "services.list",
     "service.status.read", "service.logs.read", "drift.inspect"}
InfrastructureMutations == {"service.restart", "release.deploy", "release.rollback", "server.reboot"}
ReferenceTools ==
    {Tool("echo.read", "READ_ONLY"), Tool("note.write", "LOW_RISK_WRITE"),
     Tool("finance.read", "READ_ONLY")}
InfrastructureTools ==
    {Tool(id, "READ_ONLY") : id \in InfrastructureReads} \cup
    {Tool(id, "INFRASTRUCTURE") : id \in InfrastructureMutations}

\* Identifiers the platform denies whatever their manifest says, and the manifests a
\* caller might try for them.
HardDenied ==
    {"server.delete", "firewall.change", "credential.rotate", "provider.purchase",
     "provider.plan.change", "execute", "shell", "ssh", "command"}
HardDeniedAttempts ==
    {Tool("server.delete", "DESTRUCTIVE"), Tool("firewall.change", "CREDENTIAL_OR_SECURITY_CHANGE"),
     Tool("credential.rotate", "CREDENTIAL_OR_SECURITY_CHANGE"), Tool("provider.purchase", "FINANCIAL"),
     Tool("provider.plan.change", "FINANCIAL"), Tool("shell", "READ_ONLY")}

\* The typed operations of a host reach an adapter as one of its closed templates, or
\* not at all.
HostReads ==
    {"inspect-host-identity", "inspect-resource-usage", "inspect-service-status",
     "read-bounded-service-logs", "inspect-directory-metadata"}
HostMutations ==
    {"start-service", "restart-service", "deploy-approved-release", "rollback-approved-release"}
HostUntemplated == {"change-firewall-rule", "create-system-user", "rotate-credential-reference"}
MapRestrictedHostOperationToSshTemplate(op) == IF op \in HostUntemplated THEN "none" ELSE op

HostOperations ==
    {Tool(op, "READ_ONLY") : op \in HostReads} \cup
    {Tool(op, "INFRASTRUCTURE") : op \in HostMutations \cup HostUntemplated}
ProviderReads ==
    {"list-servers", "get-server-metadata", "get-server-lifecycle", "get-resource-allocation",
     "get-provider-health", "get-network-metadata"}
ProviderMutations == {"create-server", "reboot-server", "delete-server"}
ProviderOperations ==
    {Tool(op, "READ_ONLY") : op \in ProviderReads} \cup
    {Tool(op, "INFRASTRUCTURE") : op \in ProviderMutations}
Tools == ReferenceTools \cup InfrastructureTools \cup HardDeniedAttempts

\* The engine that denies by default, for an active connection that has the
\* capability and a tool that cancels.
DefaultDenyToolPolicy(tool) ==
    CASE tool.effect = "FINANCIAL" -> "deny"
      [] tool.effect = "READ_ONLY" -> "allow"
      [] OTHER -> "require-approval"
\* The platform's engine looks at the identifier first.
InfrastructureToolPolicy(tool) ==
    IF tool.id \in HardDenied THEN "deny" ELSE DefaultDenyToolPolicy(tool)

-------------------------------------------------------------------------------
(* What a call is answered at once, after its delay, or when it is aborted. "wait"
   is no answer; "rejected" is a promise that throws, which the orchestrator takes
   for a known failure. *)
EchoModes == {"unavailable", "remote-error", "invalid", "timeout", "cancel", "slow-success"}
Modes == EchoModes \cup {"outcome-unknown", "unreachable"}
Plays(modes, mode) == IF mode \in modes THEN mode ELSE "done"

ReferenceAnswer(id, mode) ==
    CASE id = "echo.read" ->
           IF mode \in {"timeout", "cancel", "slow-success"} THEN "wait"
           ELSE Plays({"unavailable", "remote-error", "invalid"}, mode)
      [] id = "note.write" -> IF mode = "slow-success" THEN "wait" ELSE "done"
      [] id = "finance.read" -> "done"

InfrastructureAnswer(id, mode) ==
    CASE id \in {"servers.list", "services.list", "service.logs.read", "drift.inspect"} -> "done"
      [] id = "server.inspect" -> Plays({"unavailable", "remote-error"}, mode)
      [] id = "server.resources.read" -> Plays({"unavailable", "invalid"}, mode)
      [] id = "service.status.read" -> Plays({"remote-error"}, mode)
      [] id = "service.restart" /\ mode = "cancel" -> "wait"
      [] OTHER -> Plays({"outcome-unknown"}, mode)

\* The reference host: unreachable and mismatched hosts answer nothing else.
HostAnswer(op, mode) ==
    CASE mode = "unreachable" -> "unreachable"
      [] op \in HostUntemplated \ {"create-system-user"} -> "policy-denied"
      [] op \in HostMutations \ {"start-service"} ->
            IF mode = "outcome-unknown" THEN "outcome-unknown" ELSE "wait"
      [] OTHER -> "done"

ProviderAnswer(op, mode) ==
    CASE mode = "timeout" -> "wait"
      [] mode \in {"unavailable", "invalid"} -> mode
      [] op \in {"create-server", "delete-server"} -> "policy-denied"
      [] op \in {"reboot-server", "get-network-metadata"} -> "operation-not-supported"
      [] OTHER -> "done"

Answer(tool, mode) ==
    CASE tool \in ReferenceTools -> ReferenceAnswer(tool.id, mode)
      [] tool \in InfrastructureTools -> InfrastructureAnswer(tool.id, mode)
      [] tool \in HostOperations -> HostAnswer(tool.id, mode)
      [] OTHER -> ProviderAnswer(tool.id, mode)

AfterDelay(tool, mode) ==
    IF mode = "timeout" /\ tool \notin HostOperations THEN "timeout" ELSE "done"
\* Two modes of the echo do not catch the abort.
AfterAbort(tool, mode) ==
    IF tool.id = "echo.read" /\ mode \in {"cancel", "slow-success"} THEN "rejected" ELSE "cancelled"
\* The calls that look at the signal before they act.
ChecksAbort == {"note.write", "service.restart"}

-------------------------------------------------------------------------------
NoCall == [phase |-> "idle"]

ConnectorInit ==
    toolCalls = [c \in ToolCalls |-> NoCall] /\ notes = [c \in ToolCalls |-> NoNote]

NewCall(tool, mode, key, approved) == [tool |-> tool, mode |-> mode, key |-> key, approved |-> approved]
WaitingCall(call) ==
    [phase |-> "waiting", tool |-> call.tool, mode |-> call.mode, key |-> call.key, approved |-> call.approved]
AnsweredCall(call, answer) ==
    [phase |-> "answered", tool |-> call.tool, mode |-> call.mode, key |-> call.key, approved |-> call.approved,
     answer |-> answer]

StoreFirst(c, call, answer) ==    \* mutant: the note is stored before its delay and its abort
    /\ toolCalls' = [toolCalls EXCEPT ![c] = AnsweredCall(call, answer)]
    /\ notes' = IF call.tool.id = "note.write" /\ answer \in {"done", "cancelled"}
                THEN [notes EXCEPT ![call.key] = c] ELSE notes
Settle(c, call, answer) ==
    /\ toolCalls' = [toolCalls EXCEPT ![c] = AnsweredCall(call, answer)]
    /\ notes' = IF call.tool.id = "note.write" /\ answer = "done"
                THEN [notes EXCEPT ![call.key] = c] ELSE notes

\* The modes that tell a tool's answers apart.
ModesOf ==
    [tool \in Tools \cup HostOperations \cup ProviderOperations |->
        {"ok"} \cup {m \in Modes : Answer(tool, m) # Answer(tool, "ok")}
        \cup {m \in {"slow-success"} : Answer(tool, m) = "wait"}]

Execute(c, call, aborted) ==
    LET answer == Answer(call.tool, call.mode)
    IN  CASE answer = "done" /\ aborted /\ call.tool.id \in ChecksAbort -> Settle(c, call, "cancelled")
          [] answer = "wait" /\ aborted -> Settle(c, call, AfterAbort(call.tool, call.mode))
          [] answer = "wait" /\ ~aborted ->
                /\ toolCalls' = [toolCalls EXCEPT ![c] = WaitingCall(call)]
                /\ UNCHANGED notes
          [] OTHER -> Settle(c, call, answer)

\* A call of a tool: executed if the policy allows it, or asks for an approval it has.
CallTool(c, tool, mode, key, approved, aborted) ==
    LET call == NewCall(tool, mode, key, approved)
        decision == InfrastructureToolPolicy(tool)
    IN  /\ toolCalls[c] = NoCall
        /\ CASE decision = "deny" -> Settle(c, call, "denied")
             [] decision = "require-approval" /\ ~approved -> Settle(c, call, "approval-required")
             [] OTHER -> Execute(c, call, aborted)

\* An operation of the host or the provider is asked of their port.
OperateTool(c, operation, mode, aborted) ==
    /\ toolCalls[c] = NoCall
    /\ Execute(c, NewCall(operation, mode, c, FALSE), aborted)

Waiting(c) == toolCalls[c].phase = "waiting"

TimerFires(c) ==
    Waiting(c) /\ Settle(c, toolCalls[c], AfterDelay(toolCalls[c].tool, toolCalls[c].mode))
AbortToolCall(c) ==
    /\ Waiting(c)
    /\ Settle(c, toolCalls[c], AfterAbort(toolCalls[c].tool, toolCalls[c].mode))

\* initialize and shutdown clear the notes; they are shared by every connector made.
ClearNotes == notes' = [c \in ToolCalls |-> NoNote] /\ UNCHANGED toolCalls

Keys(tool, c) == IF tool.id = "note.write" THEN ToolCalls ELSE {c}
Approvals(tool) == IF tool.effect = "READ_ONLY" THEN {FALSE} ELSE BOOLEAN

ConnectorNext ==
    \/ \E c \in ToolCalls, tool \in Tools, aborted \in BOOLEAN :
          \E mode \in ModesOf[tool], key \in Keys(tool, c), approved \in Approvals(tool) :
              CallTool(c, tool, mode, key, approved, aborted)
    \/ \E c \in ToolCalls, operation \in HostOperations \cup ProviderOperations, aborted \in BOOLEAN :
          \E mode \in ModesOf[operation] : OperateTool(c, operation, mode, aborted)
    \/ \E c \in ToolCalls : TimerFires(c) \/ AbortToolCall(c)
    \/ ClearNotes

ConnectorSpec == ConnectorInit /\ [][ConnectorNext]_connectorVars

-------------------------------------------------------------------------------
Performed == {"done", "outcome-unknown"}

\* A call is answered what it did: whatever its delay, its abort and the other calls do,
\* a note is kept only for a call answered that it was stored, a write is performed only
\* with an approval, a hard-denied tool never, and an uncertain end of a write is never
\* answered as done (docs/infrastructure-platform.md: "Uncertain mutation completion
\* never maps to tool success"; policy table "Hard-denied ... deny always").
CallsAnswerWhatTheyDid ==
    /\ \A key \in ToolCalls :
          notes[key] # NoNote => toolCalls[notes[key]].answer = "done"
    /\ \A c \in ToolCalls :
          toolCalls[c].phase = "answered" /\ toolCalls[c].tool \in Tools =>
             LET call == toolCalls[c]
                 write == call.tool.effect # "READ_ONLY"
             IN  /\ call.answer \in Performed =>
                       (write => call.approved) /\ call.tool.id \notin HardDenied
                 /\ write /\ call.mode = "outcome-unknown" => call.answer # "done"
===============================================================================
