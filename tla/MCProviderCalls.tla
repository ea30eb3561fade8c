---------------------------- MODULE MCProviderCalls ----------------------------
(***************************************************************************)
(* The two clients that wait for someone outside, who may answer late or   *)
(* never: the tool invocation orchestrator and the Codex client.  Neither  *)
(* calls the other, so a behaviour uses one of them.                       *)
(***************************************************************************)
EXTENDS ToolInvocation, CodexClient, TLC

CONSTANTS c1, c2, k1, i1, i2, u1

VARIABLE used

ProviderCallsInit ==
    /\ ToolInit /\ CodexInit /\ used \in {"tools", "codex"}
    /\ used # "tools" => \A a \in Approvals : approvals[a] = NoApproval
ProviderCallsNext ==
    /\ \/ used = "tools" /\ ToolNext /\ UNCHANGED codexVars
       \/ used = "codex" /\ CodexNext /\ UNCHANGED toolVars
    /\ UNCHANGED used

\* The fairness of FairToolSpec and of CodexSpec.
ProviderCallsSpec ==
    /\ ProviderCallsInit /\ [][ProviderCallsNext]_<<toolVars, codexVars, used>>
    /\ \A c \in Calls : WF_toolVars(Pipeline(c)) /\ WF_toolVars(TimerFires(c))
    /\ WF_codexVars(ClientStep) /\ WF_codexVars(Deadline) /\ WF_codexVars(PipeBreaks)

-------------------------------------------------------------------------------
(* Two calls over one approval: a write whose connection has a secret, the   *)
(* same write with another input, a read, and one request for every early    *)
(* end of the pipeline.                                                      *)

Write == [effect |-> "EXTERNAL_COMMUNICATION", cooperative |-> TRUE]
Read == [effect |-> "READ_ONLY", cooperative |-> FALSE]
HardWrite == [effect |-> "DESTRUCTIVE", cooperative |-> FALSE]
Payment == [effect |-> "FINANCIAL", cooperative |-> TRUE]

WriteRequest ==
    [ invocation |-> i1, tool |-> Write, input |-> i1, connection |-> k1, actor |-> u1,
      known |-> TRUE, verdict |-> "ok", secret |-> TRUE ]
ReadRequest == [WriteRequest EXCEPT !.tool = Read, !.secret = FALSE]

OtherWrite == [WriteRequest EXCEPT !.input = i2]
EarlyRequests ==
    { [WriteRequest EXCEPT !.tool = HardWrite], [WriteRequest EXCEPT !.tool = Payment],
      [WriteRequest EXCEPT !.known = FALSE], [WriteRequest EXCEPT !.verdict = "invalid"],
      [WriteRequest EXCEPT !.verdict = "refused"], [ReadRequest EXCEPT !.verdict = "no-connector"] }

\* Only writes share something: a second call with any of the other requests
\* would repeat the first.
MCToolRequests ==
    (c1 :> EarlyRequests \cup {WriteRequest, OtherWrite, ReadRequest}) @@ (c2 :> {WriteRequest})
MCBindings == {BindingOf(WriteRequest), BindingOf(OtherWrite)}

-------------------------------------------------------------------------------
(* A child that answers each request in every way the client tells apart,    *)
(* and may at any time send a stray response, a breach or an early event.    *)

MCStartRequests ==
    <<"initialize", "config/read", "configRequirements/read", "account/read",
      "account/rateLimits/read", "model/list", "thread/start">>

None0 == [key \in {} |-> "none"]
SafeConfig ==
    [key \in CriticalKeys |-> "approved"] @@
    [default_permissions |-> "probe",
     profile |-> [filesystem |-> [path \in {":minimal", "workspace:."} |-> "read"],
                  network |-> [key \in {"enabled"} |-> "false"]]]
Configs ==
    {SafeConfig}
    \cup {[SafeConfig EXCEPT !["web_search"] = "null"],
          [SafeConfig EXCEPT !.profile.network = [key \in {"enabled"} |-> "true"]],
          [SafeConfig EXCEPT !.profile.filesystem = [path \in {":minimal", ":root"} |-> "read"]]}
    \cup {[key \in {unsafe} |-> "true"] @@ SafeConfig :
            unsafe \in {"sandbox", "shell", "tools", "apps", "mcp_servers", "hooks", "features", "unified_exec", "base_url"}}

Model(default, text) == [hidden |-> FALSE, wellFormed |-> TRUE, text |-> text, default |-> default]

Bodies(request) ==
    CASE request = "config/read" -> {[config |-> c] : c \in Configs} \cup {None0}
      [] request = "configRequirements/read" ->
           {[requirements |-> None0], [requirements |-> [network |-> "true"]], None0}
      [] request = "account/read" -> {[account |-> a] : a \in {"null", "chatgpt", "apikey", ""}}
      [] request = "account/rateLimits/read" ->
           {[rateLimits |-> "free"], [rateLimits |-> "free", byLimitId |-> {"free", "reached"}],
            [rateLimits |-> "reached", byLimitId |-> {"broken"}]}
      [] request = "model/list" ->
           {[data |-> models] : models \in {<<>>, <<Model(TRUE, TRUE)>>, <<Model(TRUE, FALSE)>>,
              <<Model(TRUE, TRUE), Model(TRUE, TRUE)>>, <<Model(FALSE, TRUE)>>}}
      [] request = "thread/start" ->
           {None0, [thread |-> "t", modelProvider |-> "openai"], [thread |-> "t", modelProvider |-> "x"]}
      [] OTHER -> {None0}

\* A launch that is right in everything, and one wrong in each thing the entry checks.
GoodLaunch ==
    [contour |-> [codexHome |-> <<"codex">>, home |-> <<"codex", "home">>, tempDir |-> <<"codex", "tmp">>,
                  probeCwd |-> <<"codex", "cwd">>, repositoryRoot |-> <<"repo">>, shared |-> {<<"me">>, <<"me", "codex">>},
                  systemTemp |-> <<"tmp">>],
     boundarySupported |-> TRUE,
     pin |-> [absolute |-> TRUE, argv |-> <<"app-server">>, version |-> "v", size |-> 1, sha256 |-> "h"],
     file |-> [size |-> 1, sha256 |-> "h", version |-> "v"],
     environment |-> [codexHome |-> TRUE, home |-> TRUE, tempDir |-> TRUE, locale |-> "undefined",
                      noColor |-> "undefined", term |-> "dumb"],
     spawns |-> TRUE,
     timeouts |-> [exitWait |-> 2, termGrace |-> 1, closeBudget |-> 5, interruptBudget |-> 2,
                   unsubscribeBudget |-> 2, totalActiveCleanupBudget |-> 10]]
MCLaunches ==
    {GoodLaunch,
     [GoodLaunch EXCEPT !.contour.probeCwd = <<"codex">>],
     [GoodLaunch EXCEPT !.contour.repositoryRoot = <<"codex", "cwd", "repo">>],
     [GoodLaunch EXCEPT !.boundarySupported = FALSE],
     [GoodLaunch EXCEPT !.file.sha256 = "replaced"],
     [GoodLaunch EXCEPT !.environment.locale = "empty"],
     [GoodLaunch EXCEPT !.timeouts.closeBudget = 2]}

Response(mine, body) == [fields |-> {"id", "result"}, mine |-> mine, method |-> "none", body |-> body]
Notice(method, mine, body) == [fields |-> {"method"}, mine |-> mine, method |-> method, body |-> body]
Breaches ==
    {[fields |-> fields, mine |-> FALSE, method |-> "requestApproval", body |-> None0] :
        fields \in {{}, {"method", "id"}, {"result", "error", "id"}}}
    \cup {Response(FALSE, None0), Notice("mcp", FALSE, None0), Notice("hello", FALSE, None0)}

Items == {[item |-> "agentMessage", text |-> "ok-true"], [item |-> "agentMessage", text |-> "chat"],
          [item |-> "fileChange"]}

\* Once the result is latched only what settles or breaks a clean-up request matters.
AfterTheResult == {Response(TRUE, None0), Response(FALSE, None0), Notice("mcp", FALSE, None0)}
BeforeTheResult(place, request) ==
    Breaches
    \cup {[Response(TRUE, None0) EXCEPT !.fields = {"id", "error"}]}
    \cup (IF place \in {"write", "reply"} THEN {Response(TRUE, body) : body \in Bodies(request)} ELSE {})
    \cup (IF place \in {"turnWrite", "turnReply"} THEN {Response(TRUE, [turn |-> "u"]), Response(TRUE, None0)} ELSE {})
    \cup (IF place \in {"write", "reply"} /\ request # "thread/start" THEN {}
          ELSE {Notice("thread/started", TRUE, None0), Notice("turn/started", TRUE, None0)})
    \cup (IF place \notin {"turnReply", "turnStarted", "events"} THEN {}
          ELSE {Notice("item/completed", mine, item) : mine \in {TRUE}, item \in Items}
               \cup {Notice("item/completed", FALSE, [item |-> "agentMessage", text |-> "chat"]),
                     Notice("item/agentMessage/delta", TRUE, None0),
                     Notice("turn/completed", TRUE, [turn |-> "u", status |-> "completed", thread |-> "t"]),
                     Notice("turn/completed", TRUE, [turn |-> "u", status |-> "failed"])})
MCLines(place, request) ==
    IF place \in {"interruptWrite", "interruptReply", "unsubscribeWrite", "unsubscribeReply",
                  "closing", "terminating", "reaping"}
    THEN AfterTheResult ELSE BeforeTheResult(place, request)
===============================================================================
