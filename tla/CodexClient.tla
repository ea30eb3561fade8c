----------------------------- MODULE CodexClient -----------------------------
(***************************************************************************)
(* One capability probe of the Codex app-server: the owner's one-shot      *)
(* capability, the child process, the sequence of JSON-RPC requests, the   *)
(* dispatch of the prompt, the wait for its turn and the clean-up of the   *)
(* child.  The child is free: it may send any line of Lines at any time,   *)
(* stop reading, or exit.  Clocks are timers that may fire once they run.  *)
(* Every line to the child is written in two steps: the client hands it to *)
(* the pipe, and the pipe takes it, fails, or never does either.           *)
(***************************************************************************)
EXTENDS Naturals, Sequences, FiniteSets, SequencesExt

----------------------------------------------------------------------------
(* The JSONL protocol helpers of the Codex app-server adapter: what a line *)
(* is, what each answer of the child decodes to, and which configuration   *)
(* the probe accepts.  A JSON object is a function from the keys it has to *)
(* the class of their values; "undefined" is the value of an absent key.   *)

Field(object, key) == IF key \in DOMAIN object THEN object[key] ELSE "undefined"
Absent == {"undefined", "null"}

\* A line that is no JSON object has no fields.  The method of a notification
\* stands for every name of its class: "mcp" for all that begin so, "shell" for
\* all that name a shell, a command, a file change or a browser.
ParseJsonlFrame(line) ==
    LET has(key) == key \in line.fields IN
    CASE has("result") /\ has("error") -> "malformed"
      [] has("id") /\ has("result") /\ ~has("method") -> "success"
      [] has("id") /\ has("error") /\ ~has("method") -> "failure"
      [] has("method") /\ has("id") -> "server-request"
      [] has("method") /\ ~has("id") -> "notification"
      [] OTHER -> "malformed"

IsForbiddenNotification(method) == method \in {"model/rerouted", "requestApproval", "mcp", "shell"}
IsAllowedNotification(method) ==
    method \in {"thread/started", "turn/started", "turn/completed",
                "item/started", "item/completed", "item/agentMessage/delta"}
IsForbiddenItem(type) == type \in {"commandExecution", "fileChange", "mcpToolCall", "webSearch"}
IsAllowedItem(type) == type \in {"agentMessage", "userMessage"}

DecodeAccountRead(result) ==
    LET type == Field(result, "account") IN
    CASE type \in {"undefined", ""} -> "malformed"
      [] type \in {"null", "chatgpt"} -> type
      [] OTHER -> "non-chatgpt"

\* The bucket of the account and one per limit; a bucket is "free" or "reached".
DecodeRateLimitsRead(result) ==
    LET buckets == {Field(result, "rateLimits")} \cup
                   (IF "byLimitId" \in DOMAIN result THEN result.byLimitId ELSE {})
    IN CASE buckets \ {"free", "reached"} # {} -> "malformed"
         [] "reached" \in buckets -> "exhausted"
         [] OTHER -> "ok"

\* Entries [hidden, wellFormed, text, default], in the order of the list: the
\* first broken entry or default without text decides before any is counted.
DecodeModelList(result) ==
    LET data == result.data
        visible == {i \in DOMAIN data : ~data[i].hidden}
        stops == {i \in visible : ~data[i].wellFormed \/ (data[i].default /\ ~data[i].text)}
        defaults == {i \in visible : data[i].default}
    IN CASE "data" \notin DOMAIN result -> "malformed"
         [] stops # {} -> IF data[Min(stops)].wellFormed THEN "unsupported" ELSE "malformed"
         [] defaults = {} -> IF data = <<>> \/ \E i \in visible : data[i].text
                             THEN "empty" ELSE "unsupported"
         [] Cardinality(defaults) > 1 -> "multiple"
         [] OTHER -> "ok"

----------------------------------------------------------------------------
(* The effective configuration.  Unknown keys are ignored, these are not.   *)
CriticalKeys == {"cli_auth_credentials_store", "forced_login_method", "model_provider",
                 "approval_policy", "web_search", "allow_login_shell"}

\* The profile the probe runs under: it inherits nothing (not even null), adds no
\* roots, reads the minimal set and its own directory, and has no network.
PermissionsProfileOk(config) ==
    LET profile == config.profile IN
    /\ Field(config, "default_permissions") = "probe"
    /\ DOMAIN profile \subseteq {"filesystem", "network", "description", "workspace_roots"}
    /\ Field(profile, "workspace_roots") \in Absent \cup {"empty"}
    /\ Field(profile, "description") \in Absent \cup {"text"}
    /\ profile.filesystem = [path \in {":minimal", "workspace:."} |-> "read"]
    /\ profile.network = [key \in {"enabled"} |-> "false"]

SurfacesDisabled(config) ==
    /\ \A key \in {"sandbox_mode", "sandbox"} : Field(config, key) \in Absent
    /\ \A alias \in {"web", "shell", "search"} : Field(config, alias) \in {"undefined", "false"}
    /\ Field(config, "tools") \in Absent \cup {"empty", "web_search-null"}
    /\ Field(config, "apps") \in Absent \cup {"empty", "all-disabled"}
    /\ \A key \in {"mcp_servers", "mcpServers"} : Field(config, key) \in Absent \cup {"empty"}
    /\ Field(config, "hooks") \in Absent \cup {"false", "empty"}
    /\ Field(config, "features") \in Absent \cup {"no-forbidden"}
    /\ Field(config, "unified_exec") # "true"

BaseUrlsSafe(config) ==
    \A key \in {"openai_base_url", "chatgpt_base_url", "base_url", "provider_base_url"} :
        Field(config, key) \in Absent \cup {"blank"}

\* What the requirements grant matters only when it is switched on.
RequirementsSafe(requirements) ==
    /\ \A key \in {"network", "allowLoginShell", "allowRemoteControl", "unified_exec",
                   "browserUse", "computerUse"} : Field(requirements, key) # "true"
    /\ Field(requirements, "allowedWebSearchModes") # "other"

DecodeConfigPreflight(config, requirements) ==
    IF /\ \A key \in CriticalKeys : Field(config, key) = "approved"
       /\ PermissionsProfileOk(config)
       /\ SurfacesDisabled(config)
       /\ BaseUrlsSafe(config)
       /\ Field(config, "mentions") \notin {"custom-provider", "api-key"}
       /\ RequirementsSafe(requirements)
    THEN "ok" ELSE "policy-rejected"

----------------------------------------------------------------------------
DecodeTurnCompleted(params) ==
    CASE Field(params, "turn") = "undefined" -> "malformed"
      [] Field(params, "status") \in {"failed", "interrupted"} -> "failed-or-interrupted"
      [] Field(params, "status") # "completed" -> "malformed"
      [] Field(params, "thread") = "undefined" -> "malformed"
      [] OTHER -> "completed"

AgentMessageText(params) ==
    IF Field(params, "item") = "agentMessage" THEN Field(params, "text") ELSE "undefined"
IsExactOkTrue(text) == text = "ok-true"

-------------------------------------------------------------------------------
(* What must hold before the app-server is spawned: the isolated directories, the
   pinned executable, the environment of the child and the budgets of its clean-up.
   A path is a sequence of names from the root; resolving links is done by whoever
   gives it. *)

IsUnderOrEqual(child, parent) == IsPrefix(parent, child)
Overlap(left, right) == IsUnderOrEqual(left, right) \/ IsUnderOrEqual(right, left)

\* A contour gives the directories of the probe, the repository's, the machine's
\* temporary directory and what it shares besides: the developer's home and its Codex home.
ContourOk(contour) ==
    LET own == {contour.codexHome, contour.home, contour.tempDir, contour.probeCwd} IN
    /\ own \cap (contour.shared \cup {contour.systemTemp}) = {}
    /\ \A path \in own : ~Overlap(path, contour.repositoryRoot)
    /\ \A path \in own : IsUnderOrEqual(path, contour.codexHome)
    /\ contour.probeCwd # contour.codexHome

\* The model reads one root, the probe's directory; it may lie below the
\* others but must hold none of them, nor the credentials.
ReadableRootsOk(roots, contour) ==
    LET protected == {contour.codexHome, contour.home, contour.tempDir,
                      contour.codexHome \o <<"auth">>, contour.codexHome \o <<"auth.json">>,
                      contour.repositoryRoot} \cup contour.shared
    IN /\ roots = {contour.probeCwd}
       /\ \A path \in protected : ~IsUnderOrEqual(path, contour.probeCwd)
       /\ ~Overlap(contour.probeCwd, contour.repositoryRoot)

\* Read at the moment of the spawn; size, hash and version must be the pin's.
PinOutcome(pin, file) ==
    CASE ~pin.absolute -> "path"
      [] pin.argv \notin {<<"app-server">>, <<"app-server", "--listen", "stdio://">>} -> "argv"
      [] pin.version = "" -> "version-required"
      [] file.size # pin.size -> "size"
      [] file.sha256 # pin.sha256 -> "sha256"
      [] file.version # pin.version -> "version"
      [] OTHER -> "ok"

\* The child gets its homes and its temporary directory and, when they are
\* given, a few settings; nothing of the parent's environment.
ChildEnvOk(environment) ==
    /\ environment.codexHome /\ environment.home /\ environment.tempDir    \* absolute
    /\ environment.locale # "empty"
    /\ environment.noColor \in {"undefined", "1"}
    /\ environment.term \in {"undefined", "dumb"}

TimeoutsOk(timeouts) ==
    /\ \A name \in DOMAIN timeouts : timeouts[name] > 0
    /\ timeouts.exitWait + timeouts.termGrace <= timeouts.closeBudget
    /\ timeouts.interruptBudget + timeouts.unsubscribeBudget + timeouts.closeBudget
         <= timeouts.totalActiveCleanupBudget

\* The order of the live entry: a refusal before the pin is read keeps the capability.
LaunchOutcome(launch, capability) ==
    CASE capability = "none" -> "capability"
      [] ~ContourOk(launch.contour) -> "contour"
      [] ~ReadableRootsOk({launch.contour.probeCwd}, launch.contour) -> "roots"
      [] ~launch.boundarySupported -> "platform"
      [] capability = "consumed" -> "already-consumed"
      [] PinOutcome(launch.pin, launch.file) # "ok" -> "pin"
      [] ~ChildEnvOk(launch.environment) -> "environment"
      [] ~launch.spawns -> "spawn-error"
      [] OTHER -> "spawned"

SpendsCapability(outcome) == outcome \in {"pin", "environment", "spawn-error", "spawned"}

----------------------------------------------------------------------------
(* The probe.                                                              *)

CONSTANTS
    Nothing,
    StartRequests,       \* the requests before turn/start, in their order
    Launches,       \* the launches an owner may ask for
    Lines(_, _),    \* the lines the child may send: where the probe stands, and at which request
    MaxQueue        \* bound: notifications that wait to be read

\* The results that are given of no prompt only.  The code counts policy-rejected and
\* invalid-response as known failures too, but gives them after a prompt as well.
BeforeInvocation ==
    {"cancelled-before-invocation", "known-timeout", "provider-unavailable", "quota-unavailable"}

ASSUME ResultsAssumption == Nothing \notin BeforeInvocation

VARIABLES
    capability,     \* "issued", then "consumed"
    child,          \* "absent", "running", "terminated" (SIGTERM), "killed", "exited"
    reading,        \* the client still reads the lines of the child
    at,             \* where the probe stands; "crashed" once its process has ended
    step,           \* the request it is at
    pending,        \* a request waits for its response
    answer,         \* what that request got: a line, or the reason of a rejection
    queue,          \* notifications not yet read
    failure,        \* the first breach of the protocol
    aborted,        \* the caller's abort signal
    config,         \* the configuration that config/read returned
    threadKnown, turnKnown,
    dispatched,     \* the write of turn/start is proven
    poisoned,       \* stdin destroyed and the child killed over a hung write
    agentText,      \* the last text of an agent message
    inFlight,       \* the line of turn/start is written and not yet accepted
    prompted,       \* the child has the whole line of turn/start
    outcome         \* the latched result

probe == <<at, step, config, threadKnown, turnKnown, agentText, outcome>>
wire == <<pending, answer, queue, failure>>
prompt == <<dispatched, poisoned, inFlight, prompted>>
codexVars == <<capability, child, reading, probe, wire, aborted, prompt>>

StartRequest == StartRequests[step]
Line(kind, body) == [kind |-> kind, body |-> body]
Rejected(reason) == Line(reason, <<>>)
NoAnswer == Line("none", <<>>)
Rejections == {"aborted", "child-exited", "timeout", "protocol", "write-failed"}

CodexInit ==
    /\ capability = "issued" /\ child = "absent" /\ reading = FALSE
    /\ at = "idle" /\ step = 1 /\ pending = FALSE /\ answer = NoAnswer /\ queue = <<>>
    /\ failure = Nothing /\ aborted \in BOOLEAN /\ config = Nothing
    /\ threadKnown = FALSE /\ turnKnown = FALSE /\ dispatched = FALSE /\ poisoned = FALSE
    /\ inFlight = FALSE /\ agentText = "undefined" /\ prompted = FALSE /\ outcome = Nothing

Exited == child = "exited"

\* A continuation runs to its next await before any event of the child or the caller.
Continuing == at \in {"call", "initialized", "interrupt", "unsubscribe", "close"}
Awaiting == ~Continuing /\ at \notin {"idle", "refused", "done", "crashed"}

\* The awaits of a line without a timer, and what follows a line that was taken.
Writes == {"write", "initializedWrite", "interruptWrite", "unsubscribeWrite"}
AfterWrite == [write |-> "reply", initializedWrite |-> "call",
               interruptWrite |-> "interruptReply", unsubscribeWrite |-> "unsubscribeReply"]

----------------------------------------------------------------------------
(* The capability and the spawn: consumed before the pin is verified, so a   *)
(* pin that does not match costs the owner a new confirmation.               *)

\* A child whose clean-up budgets do not fit is spawned and never spoken to.
Spawn ==
    /\ at \in {"idle", "refused"}
    /\ \E launch \in Launches :
         LET result == LaunchOutcome(launch, capability) IN
         /\ capability' = IF SpendsCapability(result) THEN "consumed" ELSE capability
         /\ child' = IF result = "spawned" THEN "running" ELSE child
         /\ at' = IF result = "spawned" /\ TimeoutsOk(launch.timeouts) THEN "call" ELSE "refused"
         /\ reading' = (at' = "call")
    /\ UNCHANGED <<step, config, threadKnown, turnKnown, agentText, outcome, wire,
                   aborted, prompt>>

----------------------------------------------------------------------------
(* What happens to the client from outside.                                  *)

\* A request in flight is answered with line, or rejected.
Settle(line) ==
    /\ pending' = FALSE
    /\ answer' = IF pending THEN line ELSE answer

\* failProtocol: the first reason stays, and the request in flight is rejected.
FailProtocol(reason) ==
    IF failure # Nothing THEN UNCHANGED <<pending, answer, failure>>
    ELSE /\ failure' = reason
         /\ Settle(Rejected("protocol"))

Queued(line) == Len(queue) < MaxQueue /\ queue' = Append(queue, line)

ResponseArrives(line) ==
    /\ UNCHANGED queue
    /\ IF pending /\ line.mine
       THEN Settle(Line(ParseJsonlFrame(line), line.body)) /\ UNCHANGED failure
       ELSE FailProtocol("response")

NotificationArrives(line) ==
    /\ Queued(line)
    /\ CASE IsForbiddenNotification(line.method) -> FailProtocol("forbidden-notification")
         [] IsAllowedNotification(line.method) -> UNCHANGED <<pending, answer, failure>>
         [] OTHER -> FailProtocol("unknown-notification")

LineArrives ==
    /\ reading /\ Awaiting
    /\ \E line \in Lines(at, StartRequest) :
         CASE ParseJsonlFrame(line) \in {"success", "failure"} -> ResponseArrives(line)
           [] ParseJsonlFrame(line) = "notification" -> NotificationArrives(line)
           [] OTHER -> Queued(line) /\ FailProtocol(ParseJsonlFrame(line))
    /\ UNCHANGED <<capability, child, reading, probe, aborted, prompt>>

ChildExits ==
    /\ child \notin {"absent", "exited"} /\ ~Continuing
    /\ child' = "exited"
    /\ Settle(Rejected("child-exited"))
    /\ UNCHANGED <<capability, reading, probe, queue, failure, aborted, prompt>>

AbortRequested ==
    /\ ~aborted /\ Awaiting
    /\ aborted' = TRUE
    /\ Settle(Rejected("aborted"))
    /\ UNCHANGED <<capability, child, reading, probe, queue, failure, prompt>>

NoRequestTimer == pending /\ FALSE    \* mutant
RequestTimesOut ==
    /\ pending
    /\ Settle(Rejected("timeout"))
    /\ UNCHANGED <<capability, child, reading, probe, queue, failure, aborted, prompt>>

----------------------------------------------------------------------------
(* The result is latched, and the clean-up starts from what the probe has    *)
(* reached: nothing of a child that is dead, its close, and before that the  *)
(* thread's unsubscription and the turn's interruption.                      *)
CleanupState ==
    IF poisoned \/ Exited THEN "done"
    ELSE IF dispatched THEN "interrupt"
    ELSE IF threadKnown' THEN "unsubscribe"
    ELSE "close"

Conclude(result) ==
    /\ outcome' = result
    /\ at' = CleanupState
    /\ reading' = (reading /\ ~Exited)

BreachOutcome(breaches, otherwise) == IF failure \in breaches THEN "policy-rejected" ELSE otherwise
Forbidden == {"forbidden-notification", "server-request"}

\* The catch of the whole probe, before anything is dispatched.
ErrorOutcome(reason) ==
    CASE failure # Nothing -> BreachOutcome(Forbidden, "provider-unavailable")
      [] aborted -> "cancelled-before-invocation"
      [] reason = "timeout" -> "known-timeout"
      [] OTHER -> "provider-unavailable"

\* request: refused once the protocol is broken or the caller has aborted.  The
\* response is waited for, and its timer runs, from before the line is written.
CallRequest ==
    /\ at = "call"
    /\ UNCHANGED threadKnown
    /\ \/ /\ failure # Nothing \/ aborted
          /\ Conclude(ErrorOutcome("protocol")) /\ UNCHANGED pending
       \/ /\ failure = Nothing /\ ~aborted /\ Exited
          /\ Conclude(ErrorOutcome("write-failed")) /\ UNCHANGED pending
       \/ /\ failure = Nothing /\ ~aborted /\ ~Exited
          /\ pending' = TRUE /\ at' = "write"
          /\ UNCHANGED <<outcome, reading>>
    /\ UNCHANGED <<capability, child, step, config, turnKnown, agentText,
                   answer, queue, failure, aborted, prompt>>

\* The notification "initialized" is written between the first two requests.
Initialized ==
    /\ at = "initialized"
    /\ UNCHANGED threadKnown
    /\ \/ /\ ~aborted /\ ~Exited
          /\ at' = "initializedWrite" /\ UNCHANGED <<outcome, reading>>
       \/ /\ aborted \/ Exited
          /\ Conclude(ErrorOutcome("write-failed"))
    /\ UNCHANGED <<capability, child, step, config, turnKnown, agentText,
                   wire, aborted, prompt>>

\* A clean-up goes on whatever became of its request.
AfterStage == [interrupt |-> "unsubscribe", unsubscribe |-> "close",
               interruptWrite |-> "unsubscribe", unsubscribeWrite |-> "close",
               interruptReply |-> "unsubscribe", unsubscribeReply |-> "close"]
CleanupWrites == {"interruptWrite", "unsubscribeWrite"}

\* The pipe takes the line, if the child reads: an abort that came meanwhile
\* counts now, and a clean-up waits for its response from here on.
WriteEnds ==
    /\ at \in Writes
    /\ UNCHANGED threadKnown
    /\ \/ /\ at \notin CleanupWrites /\ aborted
          /\ Conclude(ErrorOutcome("aborted"))
          /\ pending' = FALSE /\ answer' = NoAnswer
       \/ /\ at \notin CleanupWrites => ~aborted
          /\ at' = AfterWrite[at]
          /\ pending' = (pending \/ at \in CleanupWrites)
          /\ UNCHANGED <<answer, outcome, reading>>
    /\ UNCHANGED <<capability, child, step, config, turnKnown, agentText, queue,
                   failure, aborted, prompt>>

WriteFails ==
    /\ at \in Writes
    /\ UNCHANGED threadKnown
    /\ \/ /\ at \notin CleanupWrites
          /\ Conclude(ErrorOutcome("write-failed"))
          /\ pending' = FALSE /\ answer' = NoAnswer
       \/ /\ at \in CleanupWrites
          /\ at' = AfterStage[at]
          /\ UNCHANGED <<pending, answer, outcome, reading>>
    /\ UNCHANGED <<capability, child, step, config, turnKnown, agentText, queue,
                   failure, aborted, prompt>>

\* A response rejected while its request is still written has nobody to await it
\* yet: Node ends the process over it unless something there catches what nobody does.
RejectionIsUnheard ==
    /\ at = "write" /\ answer.kind \in Rejections
    /\ at' = "crashed" /\ reading' = FALSE
    /\ UNCHANGED <<capability, child, step, config, threadKnown, turnKnown, agentText, outcome,
                   wire, aborted, prompt>>

\* What the answer to each request leads to.
Verdict(body) ==
    CASE StartRequest = "config/read" ->
           IF "config" \in DOMAIN body THEN "ok" ELSE "provider-unavailable"
      [] StartRequest = "configRequirements/read" ->
           IF "requirements" \notin DOMAIN body THEN "provider-unavailable"
           ELSE DecodeConfigPreflight(config, body.requirements)
      [] StartRequest = "account/read" ->
           CASE DecodeAccountRead(body) \in {"malformed", "null"} -> "provider-unavailable"
             [] DecodeAccountRead(body) = "non-chatgpt" -> "policy-rejected"
             [] OTHER -> "ok"
      [] StartRequest = "account/rateLimits/read" ->
           CASE DecodeRateLimitsRead(body) = "malformed" -> "provider-unavailable"
             [] DecodeRateLimitsRead(body) = "exhausted" -> "quota-unavailable"
             [] OTHER -> "ok"
      [] StartRequest = "model/list" ->
           CASE DecodeModelList(body) = "malformed" -> "provider-unavailable"
             [] DecodeModelList(body) # "ok" -> "policy-rejected"
             [] OTHER -> "ok"
      [] StartRequest = "thread/start" ->
           CASE Field(body, "thread") = "undefined" -> "provider-unavailable"
             [] Field(body, "modelProvider") # "openai" -> "policy-rejected"
             [] OTHER -> "ok"
      [] OTHER -> "ok"

AnswerOutcome ==
    CASE answer.kind \in Rejections -> ErrorOutcome(answer.kind)
      [] answer.kind = "failure" -> "provider-unavailable"
      [] Verdict(answer.body) # "ok" -> Verdict(answer.body)
      [] aborted /\ StartRequest \notin {"config/read", "thread/start"} -> "cancelled-before-invocation"
      [] OTHER -> "ok"

ReadAnswer ==
    /\ at = "reply" /\ answer.kind # "none"
    /\ answer' = NoAnswer
    /\ threadKnown' = (StartRequest = "thread/start" /\ answer.kind = "success"
                         /\ Field(answer.body, "thread") # "undefined")
    /\ config' = IF StartRequest = "config/read" /\ AnswerOutcome = "ok"
                 THEN answer.body.config ELSE Nothing
    /\ IF AnswerOutcome = "ok"
       THEN /\ at' = CASE step = 1 -> "initialized"
                       [] step = Len(StartRequests) -> "threadStarted"
                       [] OTHER -> "call"
            /\ step' = IF step = Len(StartRequests) THEN step ELSE step + 1
            /\ UNCHANGED <<outcome, reading>>
       ELSE Conclude(AnswerOutcome) /\ UNCHANGED step
    /\ UNCHANGED <<capability, child, turnKnown, agentText, pending, queue, failure, aborted, prompt>>

----------------------------------------------------------------------------
(* The dispatch of the prompt.                                               *)

\* The pipe takes the whole line; a line that nobody waits for counts for nothing.
TurnWritten ==
    /\ inFlight /\ ~poisoned /\ child \in {"running", "terminated"}
    /\ inFlight' = FALSE
    /\ prompted' = TRUE
    /\ dispatched' = (dispatched \/ at = "turnWrite")
    /\ at' = IF at = "turnWrite" THEN "turnReply" ELSE at
    /\ UNCHANGED <<capability, child, reading, step, config, threadKnown, turnKnown,
                   agentText, outcome, wire, aborted, poisoned>>

TurnWriteFails ==
    /\ at = "turnWrite"
    /\ inFlight' = FALSE
    /\ pending' = FALSE /\ answer' = NoAnswer
    /\ UNCHANGED threadKnown
    /\ Conclude(IF aborted THEN "cancelled-before-invocation" ELSE "provider-unavailable")
    /\ UNCHANGED <<capability, child, step, config, turnKnown, agentText, queue,
                   failure, aborted, dispatched, poisoned, prompted>>

HungWriteIsLeft == UNCHANGED <<poisoned, child, reading>>    \* mutant

\* The write neither succeeds nor fails in its budget after an abort or the
\* deadline: stdin is destroyed and the child killed before the result is given.
Poison ==
    /\ poisoned' = TRUE
    /\ child' = IF Exited THEN child ELSE "killed"
    /\ reading' = FALSE

TurnWriteHangs ==
    /\ at = "turnWrite"
    /\ Poison
    /\ dispatched' = FALSE
    /\ at' = "poisonReap"
    /\ pending' = FALSE /\ answer' = NoAnswer
    /\ UNCHANGED <<capability, step, config, threadKnown, turnKnown, agentText, outcome,
                   queue, failure, aborted, inFlight, prompted>>

PoisonReaped ==
    /\ at = "poisonReap"
    /\ UNCHANGED threadKnown
    /\ Conclude(IF aborted THEN "cancelled-before-invocation" ELSE "known-timeout")
    /\ UNCHANGED <<capability, child, step, config, turnKnown, agentText, wire, aborted, prompt>>

ReadTurnAnswer ==
    /\ at = "turnReply" /\ answer.kind # "none"
    /\ answer' = NoAnswer
    /\ UNCHANGED threadKnown
    /\ turnKnown' = (answer.kind = "success" /\ Field(answer.body, "turn") # "undefined")
    /\ IF turnKnown' THEN at' = "turnStarted" /\ UNCHANGED <<outcome, reading>>
       ELSE Conclude("outcome-unknown")
    /\ UNCHANGED <<capability, child, step, config, agentText, pending, queue, failure,
                   aborted, prompt>>

----------------------------------------------------------------------------
(* The wait for the thread, the turn and its events: notifications are read  *)
(* in the order they came, and none is skipped.                              *)

AfterBreach ==
    IF at = "threadStarted" THEN BreachOutcome(Forbidden, "provider-unavailable")
    ELSE BreachOutcome(Forbidden \cup {"unknown-notification"}, "outcome-unknown")

Interrupted ==
    IF failure # Nothing THEN AfterBreach
    ELSE IF at # "threadStarted" THEN "outcome-unknown"
    ELSE IF aborted THEN "cancelled-before-invocation"
    ELSE "provider-unavailable"

Waiting == at \in {"threadStarted", "turnStarted", "events"}

\* The wait ends without a notification: events looks at the child before its queue.
WaitEnds ==
    /\ Waiting
    /\ \/ failure # Nothing \/ aborted
       \/ Exited /\ (queue = <<>> \/ at = "events")
    /\ UNCHANGED threadKnown
    /\ Conclude(Interrupted)
    /\ UNCHANGED <<capability, child, step, config, turnKnown, agentText, wire, aborted, prompt>>

Deadline ==
    /\ Waiting
    /\ UNCHANGED threadKnown
    /\ Conclude(Interrupted)
    /\ UNCHANGED <<capability, child, step, config, turnKnown, agentText, wire, aborted, prompt>>

Readable == Waiting /\ queue # <<>> /\ failure = Nothing /\ ~aborted

\* thread/started and turn/started must be the very next notification; the
\* prompt is written in the same step as the first of them is read.
ReadStarted ==
    /\ Readable /\ at # "events"
    /\ queue' = Tail(queue)
    /\ UNCHANGED threadKnown
    /\ LET first == Head(queue)
           expected == IF at = "threadStarted" THEN "thread/started" ELSE "turn/started"
       IN IF first.method = expected /\ first.mine
          THEN /\ at' = IF at = "threadStarted" THEN "turnWrite" ELSE "events"
               /\ inFlight' = (at = "threadStarted")
               /\ pending' = (at = "threadStarted")
               /\ UNCHANGED <<failure, outcome, reading>>
          ELSE /\ failure' = "out-of-order"
               /\ Conclude(IF at = "threadStarted" THEN "provider-unavailable" ELSE "outcome-unknown")
               /\ UNCHANGED <<inFlight, pending>>
    /\ UNCHANGED <<capability, child, step, config, turnKnown, agentText, answer, aborted,
                   dispatched, poisoned, prompted>>

\* An item of the turn: a forbidden type outranks a wrong correlation.
ItemOutcome(line) ==
    LET type == Field(line.body, "item") IN
    CASE type = "undefined" -> "outcome-unknown"
      [] IsForbiddenItem(type) -> "policy-rejected"
      [] ~line.mine -> "outcome-unknown"
      [] ~IsAllowedItem(type) -> "policy-rejected"
      [] OTHER -> "continue"

CompletedOutcome(line) ==
    CASE DecodeTurnCompleted(line.body) # "completed" -> "outcome-unknown"
      [] ~line.mine -> "outcome-unknown"
      [] ~IsExactOkTrue(agentText) -> "invalid-response"
      [] OTHER -> "completed"

EventOutcome(line) ==
    CASE line.method \in {"item/started", "item/completed"} -> ItemOutcome(line)
      [] line.method = "turn/completed" -> CompletedOutcome(line)
      [] OTHER -> "continue"

ReadEvent ==
    /\ Readable /\ at = "events" /\ ~Exited
    /\ queue' = Tail(queue)
    /\ UNCHANGED threadKnown
    /\ LET line == Head(queue)
           text == AgentMessageText(line.body)
       IN /\ agentText' = IF /\ line.method = "item/completed" /\ text # "undefined"
                             /\ EventOutcome(line) = "continue" THEN text ELSE agentText
          /\ IF EventOutcome(line) = "continue" THEN UNCHANGED <<at, outcome, reading>>
             ELSE Conclude(EventOutcome(line))
    /\ UNCHANGED <<capability, child, step, config, turnKnown, pending, answer, failure,
                   aborted, prompt>>

----------------------------------------------------------------------------
(* The clean-up: requests that work after a breach, then a bounded close.    *)

\* A clean-up request is skipped for a dead child, an unknown turn or a budget that
\* the interruption has spent; otherwise it takes the place of any request in flight.
CleanupRequest ==
    /\ at \in {"interrupt", "unsubscribe"}
    /\ LET interrupts == dispatched /\ turnKnown IN
       \/ /\ Exited \/ IF at = "interrupt" THEN ~turnKnown ELSE interrupts
          /\ at' = AfterStage[at] /\ UNCHANGED pending
       \/ /\ ~Exited /\ (at = "interrupt" => turnKnown)
          /\ pending' = FALSE
          /\ at' = IF at = "interrupt" THEN "interruptWrite" ELSE "unsubscribeWrite"
    /\ UNCHANGED <<capability, child, reading, step, config, threadKnown, turnKnown, agentText,
                   outcome, answer, queue, failure, aborted, prompt>>

CleanupAnswered ==
    /\ at \in {"interruptReply", "unsubscribeReply"} /\ ~pending
    /\ at' = AfterStage[at]
    /\ UNCHANGED <<capability, child, reading, step, config, threadKnown, turnKnown, agentText,
                   outcome, wire, aborted, prompt>>

DisposeSparesTheChild == reading' = FALSE /\ UNCHANGED child    \* mutant

\* dispose: the lines are read no more, stdin is destroyed, a live child is killed.
Dispose ==
    /\ reading' = FALSE
    /\ child' = IF Exited THEN child ELSE "killed"

\* closeStdin, SIGTERM, SIGKILL: each after its grace, unless the child has gone.
CloseStep ==
    /\ \/ /\ at = "close" /\ ~Exited
          /\ at' = "closing" /\ UNCHANGED <<child, reading>>
       \/ /\ at = "closing" /\ ~Exited
          /\ at' = "terminating" /\ child' = "terminated" /\ UNCHANGED reading
       \/ /\ at \in {"close", "closing", "terminating"} /\ (Exited \/ at = "terminating")
          /\ at' = "reaping" /\ Dispose
       \/ /\ at = "reaping"
          /\ at' = "done" /\ UNCHANGED <<child, reading>>
    /\ UNCHANGED <<capability, step, config, threadKnown, turnKnown, agentText, outcome,
                   wire, aborted, prompt>>

----------------------------------------------------------------------------
ClientStep ==
    \/ CallRequest \/ Initialized \/ ReadAnswer \/ RequestTimesOut
    \/ TurnWriteHangs \/ PoisonReaped \/ ReadTurnAnswer
    \/ WaitEnds \/ ReadStarted \/ ReadEvent
    \/ CleanupRequest \/ CleanupAnswered \/ CloseStep

\* What becomes of a line is the pipe's, and so the child's, to say.
Pipe == WriteEnds \/ WriteFails \/ RejectionIsUnheard \/ TurnWritten \/ TurnWriteFails

CodexNext ==
    \/ Spawn \/ LineArrives \/ ChildExits \/ AbortRequested
    \/ Pipe \/ ClientStep \/ Deadline

\* The kernel ends every write to a pipe that nobody can read any more.
PipeBreaks == Exited /\ (WriteEnds \/ WriteFails)

\* The timers of the client fire and its continuations run; nothing is asked of a child
\* that lives, not even that it reads: its pipe need never take a line.
CodexSpec ==
    /\ CodexInit /\ [][CodexNext]_codexVars
    /\ WF_codexVars(ClientStep) /\ WF_codexVars(Deadline) /\ WF_codexVars(PipeBreaks)

----------------------------------------------------------------------------
\* Whoever is told that a turn failed before its invocation may ask again: the
\* child does not have the prompt then, and never gets it afterwards, however
\* the write of turn/start, the deadline, the abort and the child's death fall.
KnownFailureMeansNoPrompt == outcome \in BeforeInvocation => ~prompted

\* A probe that went through its clean-up leaves a child that is dead or was sent
\* SIGKILL, and reads nothing of it any more.  A probe that was refused does not go
\* through it, also when it has a child by then: SpawnedChildIsClosed.
CleanupLeavesNoChild == at = "done" => child \in {"killed", "exited"} /\ ~reading

\* A child that answers nothing, breaks the protocol or ignores its signals never
\* keeps the probe from its end, not even at the line of turn/start, which it may leave
\* in the pipe.  What it can do is to live on and leave one of the other lines there for
\* ever, and then the probe stands at that line, whatever timer fires.
ProbeReturns ==
    <>[](at \in {"idle", "refused", "done", "crashed"} \/ (at \in Writes /\ ~Exited))

\* docs/validation/build-3.7e1a-codex-subscription-probe-decisions.md:395 "`process
\* spawned, thread absent` -> bounded close": a probe that has answered, a refusal
\* among its answers, has closed the child it spawned.
SpawnedChildIsClosed == at \in {"refused", "done"} => child \notin {"running", "terminated"}
===============================================================================
