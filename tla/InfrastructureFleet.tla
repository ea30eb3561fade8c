-------------------------- MODULE InfrastructureFleet --------------------------
(* The declared inventories of the infrastructure platform, each an in-memory map
   of its own: environments, servers, services, and the observations beside them
   (core/application/infrastructure). A server names its environment, a service
   its server, its environment and the services it depends on; nothing is ever
   removed. Every call is synchronous: one action is one call. *)
EXTENDS Checks, Integers, FiniteSets, SequencesExt

-------------------------------------------------------------------------------
(* What the declared records of the infrastructure platform may hold: the
   parsers of core/domain/infrastructure. A value is the class its parsers tell
   apart, a parser the set of the classes it accepts. Every parser but the one of
   a service answers "invalid-input" whatever field is at fault. *)

CONSTANTS MaxServicePorts, MaxServiceDependencies

Long == [long |-> 200, longer |-> 400, longest |-> 600]
Numbers ==
    [minus |-> -1, zero |-> 0, one |-> 1, thousand |-> 1000, myriad |-> 20000,
     lakh |-> 100000, million |-> 1000000]
Tokens == {"word", "member", "other", "unknown", "id", "ipv4", "ipv6"}
Paths == {"absolute", "nested", "backslash", "climbing", "doubled"}
Shaped == {"secret", "command"}
Texts == Tokens \cup Paths \cup Shaped \cup DOMAIN Long \cup {"sentence", "tabbed", "accented", "nul", "empty"}
Classes == Texts \cup DOMAIN Numbers \cup {"half", "unsafe", "nan", "null", "object"}

TooLong(max) == {c \in DOMAIN Long : Long[c] > max}
Optional(parser) == parser \cup {"null"}
ParseEnum == {"member", "other", "unknown"}

\* Identifiers: no blank, no control character, at most 128 characters.
ParseId == Tokens
ParseSystemdUnitName == Tokens \cup (DOMAIN Long \ TooLong(256))
ParseHostname == Tokens \ {"id", "ipv6"}
\* A display name is printable ASCII; unlike a text it may look like a secret.
ParseDisplayName == Tokens \cup Paths \cup Shaped \cup {"sentence"}
ParseBoundedText(max) == Texts \ ({"empty", "nul"} \cup Shaped \cup TooLong(max))
RejectPathTraversal == {"climbing", "doubled"}
ParseRelativePosixPath ==
    ParseBoundedText(512) \ (RejectPathTraversal \cup {"absolute", "backslash", "tabbed"})
ParseDeploymentRoot == {"absolute"}
ParseHealthEndpointPath == ParseRelativePosixPath \cup ParseDeploymentRoot
ParseIpv4Address == {"ipv4"}
ParseIpv6Address == {"ipv6"}

Between(low, high) == {c \in DOMAIN Numbers : Numbers[c] \in low .. high}
ParsePositiveSafeInteger(max) == Between(1, max)
ParseNonNegativeInteger == Between(0, 1000000)
ParsePercentage == Between(0, 100) \cup {"half"}
ParseLoadAverage == Between(0, 10000) \cup {"half"}
ParseLatencyMs == Between(0, 300000) \cup {"half"}

EnvironmentFields ==
    [environmentId |-> ParseId, name |-> ParseDisplayName, kind |-> ParseEnum,
     ownerId |-> ParseId, regionAffinity |-> Optional(ParseId),
     policyProfileReference |-> ParseBoundedText(128)]

HostConnectionFields ==
    [connectionReferenceId |-> ParseId, secretReferenceId |-> ParseId,
     pinnedHostFingerprint |-> ParseBoundedText(128)]

ServerFields ==
    [providerId |-> ParseId, providerServerId |-> Optional(ParseId), regionId |-> Optional(ParseId),
     displayName |-> ParseDisplayName, purpose |-> ParseBoundedText(256),
     lifecycleStatus |-> ParseEnum, osFamily |-> ParseBoundedText(64),
     osVersion |-> ParseBoundedText(64), osArchitecture |-> ParseBoundedText(32),
     cpuCores |-> ParsePositiveSafeInteger(1024), memoryBytes |-> ParsePositiveSafeInteger(1000000),
     storageBytes |-> ParsePositiveSafeInteger(1000000), primaryHostname |-> Optional(ParseHostname),
     primaryIpv4 |-> Optional(ParseIpv4Address), primaryIpv6 |-> Optional(ParseIpv6Address),
     managementCapabilities |-> ParseEnum, ownerId |-> ParseId]
        @@ [f \in DOMAIN HostConnectionFields |-> Optional(HostConnectionFields[f])]

\* The fields of a service the code parses before its ports and dependencies ...
ServiceFields ==
    [productIdReference |-> Optional(ParseId), displayName |-> ParseDisplayName,
     serviceType |-> ParseEnum, runtimeType |-> ParseEnum, deploymentRoot |-> ParseDeploymentRoot,
     releaseLabel |-> Optional(ParseRelativePosixPath),
     endpointPath |-> Optional(ParseHealthEndpointPath),
     intervalSeconds |-> Optional(ParsePositiveSafeInteger(86400)),
     systemdUnit |-> Optional(ParseSystemdUnitName), composeProject |-> Optional(ParseBoundedText(128)),
     composeService |-> Optional(ParseBoundedText(128))]
\* ... and after them.
ServiceStanding ==
    [ownerId |-> ParseId, criticality |-> ParseEnum, desiredState |-> ParseEnum,
     managementCapabilities |-> ParseEnum]

HealthSnapshotFields ==
    [serviceState |-> Optional(ParseEnum), healthEndpointState |-> ParseEnum,
     responseLatencyMs |-> Optional(ParseLatencyMs), restartCount |-> Optional(ParseNonNegativeInteger)]

ResourceSnapshotFields ==
    [serverId |-> ParseId, cpuUtilizationPercent |-> Optional(ParsePercentage),
     memoryUsedBytes |-> Optional(ParseNonNegativeInteger),
     memoryTotalBytes |-> Optional(ParseNonNegativeInteger),
     diskUsedBytes |-> Optional(ParseNonNegativeInteger),
     diskTotalBytes |-> Optional(ParseNonNegativeInteger),
     loadAverage |-> Optional(ParseLoadAverage), uptimeSeconds |-> Optional(ParseNonNegativeInteger),
     providerLifecycle |-> Optional(ParseEnum)]

ObservationFields(kind) ==
    CASE kind = "provider-server-state" ->
           [serverId |-> ParseId, lifecycleStatus |-> ParseEnum,
            providerStatusLabel |-> ParseBoundedText(256)]
      [] kind = "host-server-state" ->
           [serverId |-> ParseId, uptimeSeconds |-> Optional(ParseNonNegativeInteger)]
      [] kind = "host-service-state" ->
           [serverId |-> ParseId, serviceId |-> ParseId, activeState |-> ParseEnum,
            restartCount |-> ParseNonNegativeInteger]
      [] kind = "health-snapshot" -> HealthSnapshotFields
      [] kind = "resource-snapshot" -> ResourceSnapshotFields
      [] kind = "release-observation" ->
           [serverId |-> ParseId, serviceId |-> ParseId, releaseId |-> ParseId,
            versionLabel |-> ParseBoundedText(256)]
      [] kind = "backup-metadata" -> [serverId |-> ParseId, statusLabel |-> ParseBoundedText(256)]
      [] kind = "certificate-metadata" ->
           [serverId |-> ParseId, serviceId |-> Optional(ParseId), statusLabel |-> ParseBoundedText(256)]

ParseFields(fields, input) ==
    Check(\A f \in DOMAIN fields : input[f] \in fields[f], "invalid-input")

\* Neither memory nor disk may be used beyond its total, when both are known.
WithinTotal(used, total) ==
    {used, total} \subseteq DOMAIN Numbers => Numbers[used] <= Numbers[total]
ParseResourceSnapshot(input) ==
    FirstFailure(<<ParseFields(ResourceSnapshotFields, input),
        Check(WithinTotal(input.memoryUsedBytes, input.memoryTotalBytes), "invalid-input"),
        Check(WithinTotal(input.diskUsedBytes, input.diskTotalBytes), "invalid-input")>>)

ParsePorts(ports) ==
    Check(/\ Len(ports) <= MaxServicePorts
          /\ \A i \in DOMAIN ports : ports[i] \in 1 .. 65535
          /\ \A i, j \in DOMAIN ports : ports[i] = ports[j] => i = j, "invalid-input")

\* The parse of a service: only a dependency on itself has a code of its own.
ParseService(service, ports, dependencies, fields) ==
    FirstFailure(<<
        ParseFields(ServiceFields, fields), ParsePorts(ports),
        Check(Len(dependencies) <= MaxServiceDependencies, "invalid-input"),
        Check(\A i \in DOMAIN dependencies : dependencies[i] # service, "self-dependency"),
        ParseFields(ServiceStanding, fields)>>)

-------------------------------------------------------------------------------
(* The inventories. *)

CONSTANTS EnvironmentIds, ServerIds, ServiceIds, ObservationIds,
          EnvironmentInputs, ServerInputs, ServiceInputs,  \* the fields a registration may carry
          FieldUpdates,                                    \* the fields an update may carry
          PortLists, ObservationInputs,
          Evidence, NoReport          \* what a question about drift may bring along

\* An environment is registered with all of its fields, or with null for one.
ASSUME InputsAssumption == \A fields \in EnvironmentInputs : DOMAIN fields = DOMAIN EnvironmentFields

\* The objects inside a record, which come as a whole; only hostConnection and compose may be null.
InnerObjects ==
    {{"osFamily", "osVersion", "osArchitecture"}, {"cpuCores", "memoryBytes", "storageBytes"},
     {"primaryHostname", "primaryIpv4", "primaryIpv6"}, {"deploymentRoot", "releaseLabel"},
     {"endpointPath", "intervalSeconds"}}
NullableObjects == {DOMAIN HostConnectionFields, {"composeProject", "composeService"}}
ComesWhole(fields) ==
    /\ \A object \in InnerObjects \cup NullableObjects : object \cap DOMAIN fields \in {{}, object}
    /\ \A object \in NullableObjects : {f \in object \cap DOMAIN fields : fields[f] = "null"} \in {{}, object}
ASSUME ObjectsAssumption == \A fields \in ServerInputs \cup ServiceInputs \cup FieldUpdates : ComesWhole(fields)

NoRecord == [record |-> "none"]

VARIABLES environments, servers, services, observations,
          driftReport  \* the last answer about drift, until its caller has read it

fleetVars == <<environments, servers, services, observations, driftReport>>

Registered(map) == {id \in DOMAIN map : map[id] # NoRecord}
Dependencies == UNION {[1 .. n -> ServiceIds] : n \in 0 .. MaxServiceDependencies + 1}

\* update.field ?? existing.field: null keeps what was there, so an optional field
\* that was once set cannot be cleared, unless it lies in an object that is replaced.
Merged(existing, update) ==
    [f \in DOMAIN existing |->
        IF f \in DOMAIN update /\ (update[f] # "null" \/ f \in UNION InnerObjects) THEN update[f] ELSE existing[f]]

FleetInit ==
    /\ environments = [e \in EnvironmentIds |-> NoRecord]
    /\ servers = [s \in ServerIds |-> NoRecord]
    /\ services = [v \in ServiceIds |-> NoRecord]
    /\ observations = [o \in ObservationIds |-> NoRecord]
    /\ driftReport = NoReport

PutEnvironment(e, fields) ==
    /\ environments' =
          IF ParseFields(EnvironmentFields, fields) = "ok"
          THEN [environments EXCEPT ![e] = fields] ELSE environments
    /\ UNCHANGED <<servers, services, observations>>

RegisterEnvironment(e, fields) ==
    environments[e] = NoRecord /\ PutEnvironment(e, fields)

UpdateEnvironment(e, update) ==
    /\ environments[e] # NoRecord
    /\ PutEnvironment(e, Merged(environments[e], update))

\* validateInput: the environment is looked up before anything is parsed.
ValidateServer(e, fields) ==
    FirstFailure(<<Check(environments[e] # NoRecord, "environment-not-found"),
                   ParseFields(ServerFields, fields)>>)

PutServer(s, e, fields) ==
    /\ servers' =
          IF ValidateServer(e, fields) = "ok"
          THEN [servers EXCEPT ![s] = [environment |-> e, fields |-> fields]] ELSE servers
    /\ UNCHANGED <<environments, services, observations>>

RegisterServer(s, e, fields) == servers[s] = NoRecord /\ PutServer(s, e, fields)

\* An update may move the server to another environment; its services are not told.
UpdateServer(s, e, update) ==
    /\ servers[s] # NoRecord
    /\ PutServer(s, e, Merged(servers[s].fields, update))

\* mutant: the service's environment is not compared with its server's.
ValidateServiceAlone(v, record) ==
    FirstFailure(<<
        Check(servers[record.server] # NoRecord, "server-not-found"),
        ParseService(v, record.ports, record.dependencies, record.fields),
        Check(\A i \in DOMAIN record.dependencies : services[record.dependencies[i]] # NoRecord,
              "service-not-found")>>)

ValidateService(v, record) ==
    FirstFailure(<<
        Check(servers[record.server] # NoRecord, "server-not-found"),
        Check(servers[record.server] # NoRecord
                 => servers[record.server].environment = record.environment, "environment-mismatch"),
        ParseService(v, record.ports, record.dependencies, record.fields),
        Check(\A i \in DOMAIN record.dependencies : services[record.dependencies[i]] # NoRecord,
              "service-not-found")>>)

PutService(v, record) ==
    /\ services' =
          IF ValidateService(v, record) = "ok" THEN [services EXCEPT ![v] = record] ELSE services
    /\ UNCHANGED <<environments, servers, observations>>

RegisterService(v, record) == services[v] = NoRecord /\ PutService(v, record)

AddDependency(v, dependency) ==
    /\ v # dependency
    /\ services[v] # NoRecord /\ services[dependency] # NoRecord
    /\ ~Contains(services[v].dependencies, dependency)
    /\ PutService(v, [services[v] EXCEPT !.dependencies = Append(@, dependency)])

UpdateService(v, s, e, dependencies, update) ==
    /\ services[v] # NoRecord
    /\ \E ports \in PortLists \cup {services[v].ports} :
         PutService(v, [server |-> s, environment |-> e, dependencies |-> dependencies, ports |-> ports,
                        fields |-> Merged(services[v].fields, update)])

ParseObservation(observation) ==
    FirstFailure(<<
        Check(observation.timestamp, "invalid-input"),
        IF observation.kind = "resource-snapshot" THEN ParseResourceSnapshot(observation.fields)
        ELSE ParseFields(ObservationFields(observation.kind), observation.fields)>>)

\* What was observed is kept beside what was declared and changes none of it.
RecordObservation(o, observation) ==
    /\ observations[o] = NoRecord
    /\ observations' =
          IF ParseObservation(observation) = "ok"
          THEN [observations EXCEPT ![o] = observation] ELSE observations
    /\ UNCHANGED <<environments, servers, services>>

\* What the coordinator lists of an environment.
ListServerIds(e) == {s \in Registered(servers) : servers[s].environment = e}
Known(class) == class \in DOMAIN Numbers
Pressed(used, total) ==
    /\ Known(used) /\ Known(total) /\ Numbers[total] > 0
    /\ Numbers[used] * 10 >= Numbers[total] * 9
UnderPressure(snapshot) ==
    \/ Known(snapshot.cpu) /\ Numbers[snapshot.cpu] >= 90
    \/ Pressed(snapshot.memoryUsed, snapshot.memoryTotal) \/ Pressed(snapshot.diskUsed, snapshot.diskTotal)

IsKind(observation, kind) == observation # NoRecord /\ observation.kind = kind

\* mutant: nothing is compared of a server whose services are not asked about.
CompareDriftOfServices(server, service, e) ==
    IF service # NoRecord /\ IsKind(e.host, "host-service-state") /\ e.host.state # service.fields.desiredState
    THEN {"service-state-mismatch"} ELSE {}

\* What differs between what is declared and what was observed; nothing is compared of
\* what is not declared or was not observed.
CompareDrift(server, service, e) ==
    LET Drift(kind, holds) == IF holds THEN {kind} ELSE {}
    IN  Drift("observation-stale", \E o \in {e.provider, e.host} \ {NoRecord} : ~o.fresh)
        \cup Drift("lifecycle-mismatch",
                   /\ server # NoRecord /\ IsKind(e.provider, "provider-server-state")
                   /\ e.provider.state # server.fields.lifecycleStatus)
        \cup Drift("service-state-mismatch",
                   /\ service # NoRecord /\ IsKind(e.host, "host-service-state")
                   /\ e.host.state # service.fields.desiredState)
        \cup Drift("host-unreachable", IsKind(e.host, "host-server-state") /\ e.host.state = "other")
        \cup Drift("provider-state-unknown",
                   IsKind(e.provider, "provider-server-state") /\ e.provider.state = "unknown")
        \cup Drift("capacity-pressure", e.resources # NoRecord /\ UnderPressure(e.resources))

\* The coordinator looks the declared records up; whose observations they are is the
\* caller's word.
InspectDrift(s, v, evidence) ==
    /\ driftReport = NoReport
    /\ driftReport' = [server |-> s, service |-> v, evidence |-> evidence,
                       kinds |-> CompareDrift(servers[s], services[v], evidence)]
    /\ UNCHANGED <<environments, servers, services, observations>>

ReportIsRead ==
    /\ driftReport # NoReport /\ driftReport' = NoReport
    /\ UNCHANGED <<environments, servers, services, observations>>

DeclaredNext ==
    \/ \E e \in EnvironmentIds :
          \/ \E fields \in EnvironmentInputs : RegisterEnvironment(e, fields)
          \/ \E update \in FieldUpdates : UpdateEnvironment(e, update)
    \/ \E s \in ServerIds, e \in EnvironmentIds :
          \/ \E fields \in ServerInputs : RegisterServer(s, e, fields)
          \/ \E update \in FieldUpdates : UpdateServer(s, e, update)
    \/ \E v \in ServiceIds, s \in ServerIds, e \in EnvironmentIds, d \in Dependencies :
          \/ \E fields \in ServiceInputs, ports \in PortLists :
                RegisterService(v, [server |-> s, environment |-> e, dependencies |-> d,
                                    ports |-> ports, fields |-> fields])
          \/ \E update \in FieldUpdates : UpdateService(v, s, e, d, update)
    \/ \E v, d \in ServiceIds : AddDependency(v, d)
    \/ \E o \in ObservationIds, observation \in ObservationInputs : RecordObservation(o, observation)

FleetNext ==
    \/ driftReport = NoReport /\ DeclaredNext /\ UNCHANGED driftReport
    \/ \E s \in ServerIds, v \in ServiceIds, evidence \in Evidence : InspectDrift(s, v, evidence)
    \/ ReportIsRead

FleetSpec == FleetInit /\ [][FleetNext]_fleetVars

-------------------------------------------------------------------------------
\* The inventories hold together whatever was registered, updated and refused, in any
\* order: every server stands in a registered environment, every service on a
\* registered server, every dependency is a registered service other than the one
\* that depends on it, and every stored record would pass its own parser again, so
\* that a later update of it is judged by what that update changes
\* (in-memory-server-inventory.ts, in-memory-service-inventory.ts, validate).
FleetHoldsTogether ==
    /\ \A s \in Registered(servers) : ValidateServer(servers[s].environment, servers[s].fields) = "ok"
    /\ \A e \in Registered(environments) : ParseFields(EnvironmentFields, environments[e]) = "ok"
    /\ \A v \in Registered(services) :
          LET r == services[v]
          IN  /\ servers[r.server] # NoRecord
              /\ ParseService(v, r.ports, r.dependencies, r.fields) = "ok"
              /\ ToSet(r.dependencies) \subseteq Registered(services) \ {v}

Agrees(v) == services[v].server \in ListServerIds(services[v].environment)

\* A service comes to disagree with its server on the environment in one way only:
\* the server was moved under it. No registration, update or new dependency of a
\* service stores a disagreement, and none changes a service that is left in one
\* without ending it.
MismatchComesFromAMove ==
    [][\A v \in Registered(services)' :
          ~Agrees(v)' =>
             /\ v \in Registered(services)
             /\ services[v] = services[v]'
             /\ \/ ~Agrees(v)
                \/ servers[services[v].server] # servers'[services[v].server]]_fleetVars

\* "No drift" is said only when nothing observed speaks against what is declared now: the
\* server is in the state its provider reports, the service in the state its host
\* reports, and neither report is stale (drift.ts, compareDrift).
NoDriftMeansAgreement ==
    driftReport # NoReport /\ driftReport.kinds = {} =>
        LET e == driftReport.evidence
            server == servers[driftReport.server]
            service == services[driftReport.service]
        IN  /\ server # NoRecord /\ IsKind(e.provider, "provider-server-state") =>
                  e.provider.state = server.fields.lifecycleStatus /\ e.provider.fresh
            /\ service # NoRecord /\ IsKind(e.host, "host-service-state") =>
                  e.host.state = service.fields.desiredState /\ e.host.fresh

\* What is declared is sound, and what is said to agree with it does.
InventoriesAndReportsHold == FleetHoldsTogether /\ NoDriftMeansAgreement

-------------------------------------------------------------------------------
(* How the coordinator of the infrastructure platform answers a request for the
   logs of a service (infrastructure-coordinator.ts, log-sanitization.ts). A log is
   a sequence of marks: what the code's patterns tell apart. A "key" is secret
   where a label ("password=", at the start of a word) or the head of a private key
   leads to it. *)

CONSTANTS MaxLogLines, MaxLogBytes, MaxLogLineLength, MaxSanitizeInputBytes,
          Logs,               \* the raw logs a host may return, as sequences of lines
          LineCounts, ByteCounts  \* what a caller may ask for

VARIABLES rawLog,   \* the log of the service
          logReply  \* what the last request was answered

logVars == <<rawLog, logReply>>

Marks == {"label", "key", "begin", "end", "space", "newline", "ansi", "control"}
Blank == {"space", "newline"}
NoReply == [outcome |-> "none"]

\* The lines joined, bounded before anything else looks at them. An empty line
\* before the first text leaves no line break.
Joined(lines) ==
    LET Join(text, line) == IF text = <<>> THEN line ELSE text \o <<"newline">> \o line
        text == FoldLeft(Join, <<>>, lines)
    IN  SubSeq(text, 1, IF Len(text) > MaxSanitizeInputBytes THEN MaxSanitizeInputBytes ELSE Len(text))

StripAnsiAndUnsafeControlCharacters(text) ==
    LET Strip(out, mark) ==
            CASE mark = "ansi" -> out
              [] mark = "control" -> Append(out, "query")
              [] OTHER -> Append(out, mark)
    IN  FoldLeft(Strip, <<>>, text)

\* A private key from its head to its tail, or to the end of the text if it has none.
RedactPrivateKeys(text) ==
    LET Scan(s, mark) ==
            CASE ~s.open /\ mark = "begin" -> [out |-> Append(s.out, "redacted"), open |-> TRUE]
              [] s.open -> [s EXCEPT !.open = mark # "end"]
              [] OTHER -> [s EXCEPT !.out = Append(@, mark)]
    IN  FoldLeft(Scan, [out |-> <<>>, open |-> FALSE], text).out

\* A label, the blanks after it, line breaks included, and the word they lead to.
RedactLabelled(text) ==
    LET Scan(s, mark) ==
            CASE s.mode = "after" /\ mark \in Blank -> [s EXCEPT !.held = Append(@, mark)]
              [] s.mode = "after" -> [out |-> Append(s.out, "redacted"), held |-> <<>>, mode |-> "value"]
              [] s.mode = "value" /\ mark \notin Blank -> s
              [] OTHER -> [out |-> Append(s.out, mark), held |-> <<>>,
                           mode |-> IF mark = "label" THEN "after" ELSE "plain"]
        end == FoldLeft(Scan, [out |-> <<>>, held |-> <<>>, mode |-> "plain"], text)
    IN  end.out \o end.held

RedactSecretsInBuffer(text) == RedactLabelled(RedactPrivateKeys(text))

SplitLines(text) ==
    LET Scan(lines, mark) ==
            IF mark = "newline" THEN Append(lines, <<>>)
            ELSE [lines EXCEPT ![Len(lines)] = Append(@, mark)]
    IN  FoldLeft(Scan, <<<<>>>>, text)

AtMost(n, max) == IF n > max THEN max ELSE n
Capped(n, max) == AtMost(IF n < 1 THEN 1 ELSE n, max)

\* The lines as far as both caps allow; a line too long is cut without a word.
BoundedLines(lines, lineCap, byteCap) ==
    LET Take(s, line) ==
            LET bounded == SubSeq(line, 1, AtMost(Len(line), MaxLogLineLength))
            IN  IF s.truncated \/ Len(s.lines) >= lineCap \/ s.bytes + Len(bounded) > byteCap
                THEN [s EXCEPT !.truncated = TRUE]
                ELSE [s EXCEPT !.lines = Append(@, bounded), !.bytes = @ + Len(bounded)]
    IN  FoldLeft(Take, [lines |-> <<>>, bytes |-> 0, truncated |-> FALSE], lines)

\* mutant: each line is redacted by itself.
SanitizeEachLine(raw, maximumLines, maximumBytes) ==
    LET lines == SplitLines(StripAnsiAndUnsafeControlCharacters(Joined(raw)))
    IN  BoundedLines([i \in DOMAIN lines |-> RedactSecretsInBuffer(lines[i])],
                     Capped(maximumLines, MaxLogLines), Capped(maximumBytes, MaxLogBytes))

\* Redaction on the whole text, before it is cut into lines.
SanitizeBoundedLogPayload(raw, maximumLines, maximumBytes) ==
    LET text == RedactSecretsInBuffer(StripAnsiAndUnsafeControlCharacters(Joined(raw)))
    IN  BoundedLines(SplitLines(text), Capped(maximumLines, MaxLogLines), Capped(maximumBytes, MaxLogBytes))

ValidateLogRequest(maximumLines, maximumBytes, known, belongs) ==
    FirstFailure(<<
        Check(maximumLines \in 1 .. MaxLogLines, "invalid-input"),
        Check(maximumBytes \in 1 .. MaxLogBytes, "invalid-input"),
        Check(known, "service-not-found"), Check(belongs, "invalid-input")>>)

LogInit == rawLog \in Logs /\ logReply = NoReply

\* The two questions a caller may put; the connector of the platform asks for the
\* lines without validating its request, so the payload is bounded whatever is asked.
ReadLogs(maximumLines, maximumBytes) ==
    /\ logReply = NoReply
    /\ logReply' = [outcome |-> "sanitized",
                    payload |-> SanitizeBoundedLogPayload(rawLog, maximumLines, maximumBytes)]
    /\ UNCHANGED rawLog

CheckLogRequest(maximumLines, maximumBytes) ==
    /\ logReply = NoReply
    /\ \E known, belongs \in BOOLEAN :
          logReply' = [outcome |-> ValidateLogRequest(maximumLines, maximumBytes, known, belongs)]
    /\ UNCHANGED rawLog

LogNext ==
    \E lines \in LineCounts, bytes \in ByteCounts :
        ReadLogs(lines, bytes) \/ CheckLogRequest(lines, bytes)

LogSpec == LogInit /\ [][LogNext]_logVars

-------------------------------------------------------------------------------
Text == FoldLeft(LAMBDA text, line : text \o (IF text = <<>> THEN <<>> ELSE <<"newline">>) \o line, <<>>, rawLog)

\* Position i of the raw text is secret: a private key is open there, or only blanks
\* and then a word without a blank lie between it and a label that stands alone: a
\* label that is itself the word after a label is no head of a secret.
InPrivateKey(i) ==
    \E b \in 1 .. i - 1 : Text[b] = "begin" /\ \A e \in b + 1 .. i - 1 : Text[e] # "end"
StandsAlone(l) ==
    LET before(skipped) == {i \in 1 .. l - 1 : Text[i] \notin skipped}
        isAfter(set, kinds) == set = {} \/ Text[Max(set)] \in kinds
    IN  /\ Text[l] = "label" /\ ~InPrivateKey(l)
        /\ isAfter(before({"ansi"}), Blank)
        /\ isAfter(before(Blank \cup {"ansi"}), Marks \ {"label"})
AfterLabel(i) ==
    \E l \in 1 .. i - 1 : \E v \in l + 1 .. i :
        /\ StandsAlone(l)
        /\ \A k \in l + 1 .. v - 1 : Text[k] \in Blank \cup {"ansi"}
        /\ \A k \in v .. i : Text[k] \notin Blank
Secret(i) == Text[i] = "key" /\ (InPrivateKey(i) \/ AfterLabel(i))

\* No answer gives away a secret of the log, however the log is cut into lines,
\* whatever terminal codes lie between a label and its word and wherever the caps
\* fall; and no answer is larger than the platform's caps
\* (log-sanitization.ts: "Redact secrets on the complete bounded text").
SanitizedLogsHideSecrets ==
    logReply.outcome = "sanitized" =>
        LET p == logReply.payload
            shown == Cardinality({at \in (DOMAIN p.lines) \X (1 .. MaxLogLineLength) :
                                     at[2] \in DOMAIN p.lines[at[1]] /\ p.lines[at[1]][at[2]] = "key"})
            open == Cardinality({i \in DOMAIN Text : Text[i] = "key" /\ ~Secret(i)})
        IN  /\ shown <= open
            /\ Len(p.lines) <= MaxLogLines /\ p.bytes <= MaxLogBytes
===============================================================================
