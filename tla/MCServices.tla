------------------------------ MODULE MCServices ------------------------------
(***************************************************************************)
(* The application services and connectors that answer for memory, events, *)
(* extensions, voices and infrastructure, each with its own ports and      *)
(* clients.  None calls another and they share no variable, so a behaviour *)
(* uses one of them, and its states are theirs added up and not            *)
(* multiplied.                                                             *)
(***************************************************************************)
EXTENDS WebhookIngress, MemoryService, MCExtensions, VoiceResolution,
        InfrastructureFleet, ConnectorTools, SecurityConfig

VARIABLE used    \* the service of this behaviour

serviceVars ==
    <<webhookVars, memoryVars, extensionVars, voiceVars, fleetVars, logVars, connectorVars, configVars, used>>

Services == {"webhook", "memory", "extensions", "voice", "fleet", "logs", "connectors", "configs"}

\* A service that is not used is in one of its initial states.
ServicesInit ==
    /\ WebhookInit /\ MemoryInit /\ ExtensionsInit /\ VoiceInit
    /\ FleetInit /\ LogInit /\ ConnectorInit /\ ConfigInit
    /\ used \in Services
    /\ used # "memory" => backend = "in-memory" /\ grants = <<>>
    /\ used # "extensions" => registry = {}
    /\ used # "logs" => rawLog = << <<>> >>

UseWebhook ==
    /\ used = "webhook" /\ WebhookNext
    /\ UNCHANGED <<memoryVars, extensionVars, voiceVars, fleetVars, logVars, connectorVars, configVars>>
UseMemory ==
    /\ used = "memory" /\ MemoryNext
    /\ UNCHANGED <<webhookVars, extensionVars, voiceVars, fleetVars, logVars, connectorVars, configVars>>
UseExtensions ==
    /\ used = "extensions" /\ ExtensionsNext
    /\ UNCHANGED <<webhookVars, memoryVars, voiceVars, fleetVars, logVars, connectorVars, configVars>>
UseVoice ==
    /\ used = "voice" /\ VoiceNext
    /\ UNCHANGED <<webhookVars, memoryVars, extensionVars, fleetVars, logVars, connectorVars, configVars>>
UseFleet ==
    /\ used = "fleet" /\ FleetNext
    /\ UNCHANGED <<webhookVars, memoryVars, extensionVars, voiceVars, logVars, connectorVars, configVars>>
UseLogs ==
    /\ used = "logs" /\ LogNext
    /\ UNCHANGED <<webhookVars, memoryVars, extensionVars, voiceVars, fleetVars, connectorVars, configVars>>
UseConnectors ==
    /\ used = "connectors" /\ ConnectorNext
    /\ UNCHANGED <<webhookVars, memoryVars, extensionVars, voiceVars, fleetVars, logVars, configVars>>
UseConfigs ==
    /\ used = "configs" /\ ConfigNext
    /\ UNCHANGED <<webhookVars, memoryVars, extensionVars, voiceVars, fleetVars, logVars, connectorVars>>

ServicesNext ==
    /\ \/ UseWebhook \/ UseMemory \/ UseExtensions \/ UseVoice \/ UseFleet \/ UseLogs \/ UseConnectors
       \/ UseConfigs
    /\ UNCHANGED used

ServicesSpec == ServicesInit /\ [][ServicesNext]_serviceVars

-------------------------------------------------------------------------------
(* Webhooks: two genuine messages that share a key, one altered on its way,  *)
(* and the malformed, foreign and early ones.                                *)

Message(event, key, nonce) ==
    [envelopeVersion |-> Version, sourceId |-> "shop", eventId |-> event, eventType |-> "order.paid",
     occurredAt |-> 0, idempotencyKey |-> key, nonce |-> nonce, rawPayload |-> "body", contentType |-> "json",
     contentLength |-> 1, correlationId |-> "c1", privacyClassification |-> "internal",
     algorithm |-> "ed25519", keyReference |-> "key-1", signature |-> <<event, key, nonce>>]
Sent(message) ==
    message @@ [shape |-> "exact plain data", malformed |-> {}, eventTypeLength |-> 1, payloadLength |-> 1, idLength |-> 1]

FirstMessage == Message("e1", "k1", "n1")
SameKey == Message("e2", "k1", "n3")

MCSigned == {[signature |-> m.signature, command |-> m] : m \in {FirstMessage, SameKey}}
MCGenuine ==
    {Sent(FirstMessage), Sent(SameKey), Sent([FirstMessage EXCEPT !.eventType = "order.refunded"])}
MCRefused ==
    {[Sent(FirstMessage) EXCEPT !.malformed = {"nonce"}], [Sent(FirstMessage) EXCEPT !.idLength = 3],
     Sent([FirstMessage EXCEPT !.sourceId = "stranger"]), Sent([FirstMessage EXCEPT !.occurredAt = 3])}
MCCommands == MCGenuine \cup MCRefused

Bounds(skew) == [maxContentLength |-> 1, maxClockSkewMs |-> skew, maxIdLength |-> 2, maxEventTypeLength |-> 1]
MCLimits == {Bounds(0), Bounds(1)}

-------------------------------------------------------------------------------
(* Memory: sessions of two owners and three roles, and every kind of request *)
(* and of grant that is refused in its own way.                              *)

Timely == [given |-> TRUE, timeoutMs |-> 1, deadline |-> "later", aborted |-> FALSE]
Scope(active, permitted) ==
    [shape |-> "exact", malformed |-> {}, primary |-> active, permitted |-> permitted, crossProjectPermitted |-> Len(permitted) > 1]
Session(owner, roles, active, permitted) ==
    [shape |-> "exact", malformed |-> {}, ownerId |-> owner, actorId |-> "actor", roles |-> roles,
     activeNamespace |-> active, projectScope |-> Scope(active, permitted), issuedAt |-> 0, expiresAt |-> 1]
Director == Session("ann", <<"director">>, "ai-my-time", <<"ai-my-time", "tvoe-vremya">>)
Stranger == Session("bob", <<"ai-scout">>, "ai-my-time", <<"ai-my-time">>)
GuardSession == Session("ann", <<"security-guard">>, "security-restricted", <<"security-restricted">>)
MCSessions ==
    {Director, Stranger, GuardSession, Session("ann", <<"director", "security-guard">>, "ai-my-time", <<"ai-my-time">>)}

Note == [redacted |-> "note", length |-> 1, bytes |-> 1, sensitivity |-> "ordinary", secretData |-> FALSE,
         metadata |-> "plain", findings |-> "allow"]
Write(record, namespace, content, approval) ==
    [kind |-> "write", context |-> Timely, ownerId |-> "ann", namespace |-> namespace, recordId |-> record,
     content |-> content, approvalId |-> approval, limit |-> 1]
Other(kind, namespace, record, limit) ==
    [Write(record, namespace, Note, NoApproval) EXCEPT !.kind = kind, !.limit = limit]
Longer == [Note EXCEPT !.redacted = "longer", !.length = 2, !.bytes = 3]

MCRequests ==
    {Write("r1", "ai-my-time", Note, "a1"), Write("r2", "ai-my-time", Longer, "a1"),
     Write("r1", "security-restricted", Note, NoApproval),
     Write("r1", "ai-my-time", [Note EXCEPT !.findings = "deny"], NoApproval),
     Write("r1", "ai-my-time", [Note EXCEPT !.sensitivity = "secret-class"], NoApproval),
     Other("query", "ai-my-time", "r1", 1), Other("query", "ai-my-time", "r1", 3), Other("read", "security-restricted", "r1", 1),
     Other("delete", "ai-my-time", "r1", 1)}
Earlier(record, ordinal) ==
    [ownerId |-> "ann", namespace |-> "ai-my-time", recordId |-> record, content |-> "note", approvalId |-> NoApproval,
     writer |-> NoApproval, ordinal |-> ordinal]
MCEarlierRecords == {Earlier("r1", 1), Earlier("r2", 2)}
Grant1(nonce, expires) ==
    [shape |-> "exact", malformed |-> {}, approvalId |-> "a1", ownerId |-> "ann", actorId |-> "actor", effect |-> "write",
     target |-> "r1", namespace |-> "ai-my-time", projectScope |-> Director.projectScope,
     payloadDigest |-> <<"note", "r1", "ai-my-time">>, issuedAt |-> 0, expiresAt |-> expires, nonce |-> nonce,
     status |-> "pending"]
MCMemoryGrants == {Grant1("n1", 1)}

-------------------------------------------------------------------------------
(* Voice: Neo and a guide, each right or wrong in one thing.                 *)

VoiceOf(language, gender) == [malformed |-> {}, language |-> language, gender |-> gender]
Neo ==
    [malformed |-> {}, id |-> "neo", language |-> "ru-RU", gender |-> "masculine", styleTags |-> NeoRequiredTags,
     primary |-> VoiceOf("ru-RU", "masculine"), fallbacks |-> <<>>, fallbackMode |-> "text-only", enabled |-> TRUE,
     allowCrossGenderFallback |-> FALSE, allowVoiceCloning |-> FALSE, allowIdentityImitation |-> FALSE]
Guide ==
    [Neo EXCEPT !.id = "guide", !.fallbackMode = "same-gender-only",
                !.fallbacks = <<VoiceOf("en-US", "masculine"), VoiceOf("ru-RU", "masculine")>>]
MCProfiles ==
    {Neo, [Neo EXCEPT !.gender = "feminine", !.primary = VoiceOf("ru-RU", "feminine")],
     [Neo EXCEPT !.fallbacks = <<VoiceOf("ru-RU", "feminine")>>], [Neo EXCEPT !.malformed = {"secret"}],
     [Neo EXCEPT !.fallbackMode = "same-gender-only", !.fallbacks = <<VoiceOf("ru-RU", "feminine"), VoiceOf("en-US", "masculine")>>],
     [Neo EXCEPT !.styleTags = {"calm", "restrained", "voice-clone"}],
     Guide, [Guide EXCEPT !.enabled = FALSE],
     [Guide EXCEPT !.primary.malformed = {"provider field"}], [Guide EXCEPT !.allowCrossGenderFallback = TRUE]}
MCFallbacks == {<<>>, <<3, 2>>, <<1, 2>>}
MCSelectors == {VoiceOf("ru-RU", "masculine"), VoiceOf("ru-RU", "feminine")}

Window == [shape |-> "plain data", malformed |-> {}, from |-> 0, until |-> 2]
VoicePolicy == Window @@ [evidenceTtl |-> 1, policyVersion |-> 1]
MCVoicePolicies ==
    {VoicePolicy, [VoicePolicy EXCEPT !.evidenceTtl = 3], [VoicePolicy EXCEPT !.until = 1],
     [VoicePolicy EXCEPT !.policyVersion = 2, !.evidenceTtl = 2]}
VoiceSource ==
    Window @@ [provider |-> "tts", revision |-> 1, reference |-> "v", source |-> "s",
               language |-> "ru-RU", gender |-> "masculine"]
VoiceConfiguration == VoiceSource @@ [policyVersion |-> 1, allows |-> {}]
MCConfigurations ==
    {VoiceConfiguration, [VoiceConfiguration EXCEPT !.allows = {"clone"}],
     [VoiceConfiguration EXCEPT !.gender = "feminine"], [VoiceConfiguration EXCEPT !.from = 1]}
VoiceSeen == VoiceSource @@ [correlation |-> "own", claims |-> {}, secret |-> FALSE]
MCVoices ==
    {VoiceSeen, [VoiceSeen EXCEPT !.correlation = "other"], [VoiceSeen EXCEPT !.gender = "feminine"],
     [VoiceSeen EXCEPT !.claims = {"clone"}], [VoiceSeen EXCEPT !.revision = 2],
     [VoiceSeen EXCEPT !.until = 1], [VoiceSeen EXCEPT !.secret = TRUE]}

-------------------------------------------------------------------------------
(* Infrastructure: records of which one field is right, wrong or absent.     *)

Preferred == <<"member", "absolute", "one", "ipv4", "ipv6">>
Well(fields) == [f \in DOMAIN fields |-> Preferred[Min({i \in DOMAIN Preferred : Preferred[i] \in fields[f]})]]
MCEnvironmentInputs ==
    {Well(EnvironmentFields), [Well(EnvironmentFields) EXCEPT !.policyProfileReference = "secret"]}
MCServerInputs == {Well(ServerFields), [Well(ServerFields) EXCEPT !.purpose = "secret"]}
MCServiceInputs ==
    LET all == Well(ServiceFields) @@ Well(ServiceStanding)
    IN  {all, [all EXCEPT !.deploymentRoot = "climbing"]}
MCFieldUpdates ==
    {[lifecycleStatus |-> "other", desiredState |-> "other", policyProfileReference |-> "null", primaryHostname |-> "null",
      primaryIpv4 |-> "ipv4", primaryIpv6 |-> "null", deploymentRoot |-> "absolute", releaseLabel |-> "null",
      composeProject |-> "null", composeService |-> "null"],
     [purpose |-> "secret", name |-> "empty", deploymentRoot |-> "absolute", releaseLabel |-> "absolute"]}
MCPortLists == {<<80>>, <<80, 80>>}

Observed(kind, fields) == [kind |-> kind, fields |-> fields, timestamp |-> TRUE]
MCObservationInputs ==
    {Observed("host-server-state", Well(ObservationFields("host-server-state"))),
     Observed("resource-snapshot", [Well(ResourceSnapshotFields) EXCEPT !.memoryUsedBytes = "million"])}

Report(kind, state, fresh) == [kind |-> kind, state |-> state, fresh |-> fresh]
Brought(provider, host, resources) == [provider |-> provider, host |-> host, resources |-> resources]
ProviderSaw(state, fresh) == Report("provider-server-state", state, fresh)
MCEvidence ==
    {Brought(NoRecord, NoRecord, NoRecord), Brought(ProviderSaw("member", TRUE), NoRecord, NoRecord),
     Brought(ProviderSaw("other", TRUE), Report("host-service-state", "other", TRUE), NoRecord),
     Brought(ProviderSaw("unknown", FALSE), Report("host-server-state", "other", TRUE), NoRecord),
     Brought(ProviderSaw("other", TRUE), Report("host-service-state", "member", FALSE),
             [cpu |-> "one", memoryUsed |-> "one", memoryTotal |-> "thousand", diskUsed |-> "thousand", diskTotal |-> "thousand"])}

MCLogs ==
    LET line(n) == BoundedSeq(Marks \ {"newline"}, n)
    IN  {<<>>} \cup {<<l>> : l \in line(4)} \cup {<<l, m>> : l, m \in line(2)}

-------------------------------------------------------------------------------
(* Configuration: one accepted document of each kind, and each of its        *)
(* neighbours, which differs from it in one place.                           *)

Node(values) == [Empty EXCEPT !.values = values]

RoutingExample ==
    LET route(risk) == Node([risk |-> risk, capabilityTier |-> "strong", toolProfile |-> "read", approval |-> "owner",
                             onUnavailable |-> "fail-closed"])
    IN  [Node([schemaVersion |-> "1.0", status |-> "draft", modelIdentifiersConfirmed |-> "false",
               defaultProviderMode |-> "subscription-oauth-only", apiFallbackEnabled |-> "false",
               paidFallbackEnabled |-> "false", onUnavailable |-> "fail-closed"])
            EXCEPT !.tables = [routes |-> <<route("low"), route("high")>>]]
NamespacesExample ==
    [Node([schemaVersion |-> "1.0", status |-> "draft", defaultAccess |-> "deny", activeNamespaceRequired |-> "true",
           crossNamespaceAccess |-> "false", crossProjectAccessRequiresOwnerApproval |-> "true",
           securityRestrictedIsolated |-> "true", personalIsolatedFromProjects |-> "true"])
        EXCEPT !.lists =
                   [namespaces |-> <<"tvoe-vremya", "ai-my-time", "personal", "shared-public", "security-restricted">>,
                    requiredMetadata |-> <<"source", "observedAt", "confidence", "classification", "retentionClass">>],
               !.objects = [embedding |-> Node([mode |-> "none", externalProviderEnabled |-> "false"])]]
ClassificationExample ==
    LET class(name) ==
            IF name \in {"commercial-secret", "security-restricted"}
            THEN Node([externalProcessingAllowed |-> "false", storeAllowed |-> "false"])
            ELSE Node([externalProcessingAllowed |-> "policy-dependent"])
    IN  [Node([schemaVersion |-> "1.0", status |-> "draft", defaultClassification |-> "security-restricted"])
            EXCEPT !.objects = [classes |-> [Empty EXCEPT !.objects = [name \in PrivacyClasses |-> class(name)]],
                                sensitiveDataScan |-> Node([required |-> "true", failureEffect |-> "deny"])]]
PolicyExample ==
    [Node([schemaVersion |-> "1.0", status |-> "active", defaultEffect |-> "deny", readOnlyFirst |-> "true",
           paymentActionsAllowed |-> "false", externalWritesAllowed |-> "false", reverseTrustAllowed |-> "false"])
        EXCEPT !.objects =
            [ownerApproval |-> Node([required |-> "true", bindToTargetAndPayload |-> "true", expires |-> "true",
                                     replayAllowed |-> "false"]),
             sensitiveDataScanner |-> Node([requiredBeforeAllSinks |-> "true", deterministic |-> "true",
                                            failureEffect |-> "deny"])]]
HostExample ==
    [Empty EXCEPT !.objects = [modelRouting |-> RoutingExample, memoryNamespaces |-> NamespacesExample,
                               memoryClassification |-> ClassificationExample, securityPolicy |-> PolicyExample]]

OpenClawExample ==
    [Node([schemaVersion |-> "1.0-draft"]) EXCEPT !.objects =
        [metadata |-> Node([status |-> "draft", runtime |-> "OpenClaw", runtimeCompatibility |-> "UNVERIFIED",
                            purpose |-> "architecture-example-only", notDeployable |-> "true"]),
         proposedConfig |-> Node([bindHost |-> "127.0.0.1", providerMode |-> "subscription-oauth-only",
                                  apiFallbackEnabled |-> "false", paidFallbackEnabled |-> "false",
                                  approvalMode |-> "owner-explicit", defaultAccess |-> "read-only",
                                  memoryEmbedding |-> "none", channelAdapter |-> "<start>", modelSelection |-> "long"])]]
OpenClawPolicyExample ==
    [Node([schemaVersion |-> "1.0-draft"]) EXCEPT !.objects =
        [metadata |-> Node([status |-> "draft", runtimeCompatibility |-> "UNVERIFIED"]),
         policy |-> [Node([defaultEffect |-> "deny", readOnlyFirst |-> "true", paymentActionsAllowed |-> "false",
                           apiFallbackEnabled |-> "false", paidFallbackEnabled |-> "false",
                           scannerFailureEffect |-> "deny"])
                        EXCEPT !.lists =
                            [ownerApprovalRequiredFor |-> <<"write", "send", "publish", "delete", "execute", "privilege-change">>,
                             scanBefore |-> <<"memory", "log", "external-call", "audit">>]]]]

Draft(values) == Node([schemaVersion |-> "1.0-draft", status |-> "draft"] @@ values)
NotificationExample ==
    [Draft([defaultDelivery |-> "digest", timezone |-> "UTC", includeSensitiveRawData |-> "false",
            recipientPolicy |-> "allowlist-only"])
        EXCEPT !.objects = [quietHours |-> Node([start |-> "22:00", end |-> "08:00"]),
                            severity |-> Node([info |-> "digest", warning |-> "timely",
                                               critical |-> "immediate-after-policy-check"])]]
QuotasExample ==
    [Draft([enabled |-> "false", apiBillingIsFallback |-> "false", paidFallbackEnabled |-> "false",
            onExceeded |-> "deny-and-notify"])
        EXCEPT !.lists = [quotaTypes |-> <<"storage">>, thresholds |-> <<"50", "80">>]]
RemindersExample ==
    [Draft([enabled |-> "true", timezone |-> "Europe/Moscow", paymentActionsAllowed |-> "false"])
        EXCEPT !.objects = [quietHours |-> Node([start |-> "22:00", end |-> "08:00", urgentBypassRequiresApproval |-> "true"]),
                            delivery |-> Node([idempotencyRequired |-> "true", retryPolicy |-> "no-retry",
                                               missedRunPolicy |-> "notify-owner"])]]
SubscriptionsExample ==
    [Draft([enabled |-> "true", mode |-> "read-only-observation", paymentActionsAllowed |-> "false",
            cancellationActionsAllowed |-> "false", changesRequireOwnerApproval |-> "true"])
        EXCEPT !.lists = [sources |-> <<"long">>, detect |-> <<"renewal-date", "price-change">>]]
CapabilitiesExample ==
    LET capability(kind) == Node([kind |-> kind, enabled |-> "false", provider |-> "local",
                                  requiresApprovalForExternalProcessing |-> "true"])
    IN  [Draft([localFirst |-> "true", paidProvidersEnabled |-> "false"]) EXCEPT !.tables =
            [capabilities |-> <<capability("image-inspection"), capability("document-extraction")>>]]
LimitsExample ==
    [Draft([onUnknownType |-> "deny", onLimitExceeded |-> "deny"]) EXCEPT !.objects =
        [limits |-> [Node([maxInputBytes |-> "1", maxOutputBytes |-> "1", maxDurationSeconds |-> "<start>",
                           externalProcessing |-> "false"])
                        EXCEPT !.lists = [allowedMimeTypes |-> <<"image/png", "<end>">>]]]]
RetentionExample ==
    [Draft([defaultRetention |-> "short-lived", legalHoldEnabled |-> "false", deletionVerificationRequired |-> "true"])
        EXCEPT !.objects = [classes |-> [Empty EXCEPT !.objects =
            ("session-only" :> Node([duration |-> "P30D", persistent |-> "false"]))
            @@ ("short-lived" :> Node([duration |-> "P30D", persistent |-> "true"]))
            @@ ("audit-minimal" :> Node([duration |-> "<end>", persistent |-> "true", rawContentAllowed |-> "false"]))]]]
RecipientsExample ==
    LET recipient(reference) ==
            [Node([recipientRef |-> reference, verified |-> "false"])
                EXCEPT !.lists = [categories |-> <<"owner">>, allowedNotifications |-> <<"status", "digest">>]]
    IN  [Draft([defaultEffect |-> "deny", arbitraryRecipientsAllowed |-> "false"])
            EXCEPT !.tables = [recipients |-> <<recipient("<start>"), recipient("<end>")>>]]
RulesExample ==
    [Draft([default |-> "minimum-necessary", deletionVerificationRequired |-> "true"]) EXCEPT !.tables =
        [rules |-> <<Node([sink |-> "logs", rawSensitiveDataAllowed |-> "false", duration |-> "P30D"]),
                     Node([sink |-> "external", retentionControl |-> "provider-validated-or-deny"])>>]]

Examples ==
    ("model-routing" :> RoutingExample) @@ ("memory-namespaces" :> NamespacesExample)
    @@ ("memory-classification" :> ClassificationExample) @@ ("security-policy" :> PolicyExample)
    @@ ("local-host" :> HostExample) @@ ("openclaw-draft" :> OpenClawExample)
    @@ ("openclaw-policy-draft" :> OpenClawPolicyExample)
    @@ ("automation-notification-policy" :> NotificationExample) @@ ("automation-quotas" :> QuotasExample)
    @@ ("automation-reminders" :> RemindersExample) @@ ("automation-subscriptions" :> SubscriptionsExample)
    @@ ("media-capabilities" :> CapabilitiesExample) @@ ("media-limits" :> LimitsExample)
    @@ ("memory-retention" :> RetentionExample) @@ ("policy-recipients" :> RecipientsExample)
    @@ ("policy-retention" :> RulesExample)

-------------------------------------------------------------------------------
(* Neighbours: one word changed, one field missing or added, one item of a list or *)
(* entry of a table changed, doubled or gone.                                      *)

Words ==
    {"true", "false", "null", "", "other", "longer", "0", "2", "1073741825", "<start>", "<end>", "08:00", "22:00",
     "1.0", "active", "policy-dependent", "external", "image-inspection", "high"}
Without(f, field) == [g \in DOMAIN f \ {field} |-> f[g]]
ListNeighbours(list) ==
    {<<>>, Append(list, "other"), Append(list, "longer"), Append(list, list[1]), Tail(list) \o <<list[1]>>, Tail(list)}
        \cup {Append(SubSeq(list, 1, Len(list) - 1), list[1])}

OwnNeighbours(n) ==
    LET missing == {[n EXCEPT !.values = Without(@, field)] : field \in DOMAIN n.values}
                   \cup {[n EXCEPT !.lists = Without(@, field)] : field \in DOMAIN n.lists}
                   \cup {[n EXCEPT !.objects = Without(@, field)] : field \in DOMAIN n.objects}
                   \cup {[n EXCEPT !.tables = Without(@, field)] : field \in DOMAIN n.tables}
        added == {[n EXCEPT !.values = @ @@ (field :> word)] :
                      field \in {"extra", "fallbackToWeakerTier", "storeAllowed", "retentionControl"},
                      word \in {"true", "false"}}
        altered == {[n EXCEPT !.values[field] = word] : field \in DOMAIN n.values, word \in Words}
        relisted == UNION {{[n EXCEPT !.lists[field] = list] : list \in ListNeighbours(n.lists[field])} :
                               field \in DOMAIN n.lists}
        retabled == UNION {{[n EXCEPT !.tables[field] = table] :
                                table \in {<<>>, Append(n.tables[field], n.tables[field][1])}} : field \in DOMAIN n.tables}
    IN  {n} \cup missing \cup added \cup altered \cup relisted \cup retabled
\* The same for the nodes below n, level by level.
Below(n, neighbours(_)) ==
    UNION {{[n EXCEPT !.objects[field] = m] : m \in neighbours(n.objects[field])} : field \in DOMAIN n.objects}
    \cup UNION {{[n EXCEPT !.tables[field][i] = m] : m \in neighbours(n.tables[field][i])} :
                    <<field, i>> \in {<<f, i>> \in (DOMAIN n.tables) \X (1 .. 2) : i \in DOMAIN n.tables[f]}}
Neighbours1(n) == OwnNeighbours(n) \cup Below(n, OwnNeighbours)
Neighbours2(n) == OwnNeighbours(n) \cup Below(n, Neighbours1)
Neighbours(n) == OwnNeighbours(n) \cup Below(n, Neighbours2)

MCDocuments ==
    UNION {{[kind |-> kind, form |-> "plain object", root |-> n] : n \in Neighbours(Examples[kind])} :
               kind \in DOMAIN Examples}
    \cup {[kind |-> kind, form |-> form, root |-> Empty] :
              kind \in DOMAIN Examples, form \in {"no object", "accessor"}}

-------------------------------------------------------------------------------
MCSymmetry == Permutations(Calls)
===============================================================================
