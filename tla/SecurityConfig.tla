----------------------------- MODULE SecurityConfig -----------------------------
(* The parsers of configuration documents (security-config.ts) and of the local
   host's envelope of four of them (parse-local-host-config.ts). A document is a
   tree of nodes; a word stands for every scalar: "true", "false" and "null" are the
   JSON values, numbers are among NumberWords, "long" and "longer" are words too long for
   one or both bounds, "other" a word of no list. *)
EXTENDS Checks, Integers

CONSTANT Documents   \* kind and form of each document, and its root node

VARIABLES config,    \* the document a caller offers
          parsed     \* what its parser answers

configVars == <<config, parsed>>

\* An array is a list of words or a table of nodes, as its field asks; anything else
\* in its place is a word.
Empty == [values |-> <<>>, lists |-> <<>>, objects |-> <<>>, tables |-> <<>>]
FieldsOf(n) == DOMAIN n.values \cup DOMAIN n.lists \cup DOMAIN n.objects \cup DOMAIN n.tables
Value(n, field) == IF field \in DOMAIN n.values THEN n.values[field] ELSE "no scalar"
ObjectAt(n, field) == IF field \in DOMAIN n.objects THEN n.objects[field] ELSE Empty
TableAt(n, field) == IF field \in DOMAIN n.tables THEN n.tables[field] ELSE <<>>
Listed(n, field) == IF field \in DOMAIN n.lists THEN n.lists[field] ELSE <<>>

Children(n) ==
    {n.objects[field] : field \in DOMAIN n.objects}
        \cup UNION {{n.tables[field][i] : i \in DOMAIN n.tables[field]} : field \in DOMAIN n.tables}
Descendants(n) == Children(n) \cup UNION {Children(m) : m \in Children(n)}
Nodes(n) == {n} \cup Descendants(n) \cup UNION {Children(m) : m \in Descendants(n)}

NumberWords == {"0", "1", "2", "1073741825"}
NumberOf(word) == CASE word = "1" -> 1 [] word = "2" -> 2 [] word = "1073741825" -> 1073741825 [] OTHER -> 0
Strings(word) == word \notin NumberWords \cup {"true", "false", "null", "no scalar"}
Length(word) == CASE word = "" -> 0 [] word = "long" -> 200 [] word = "longer" -> 300 [] OTHER -> 1
MaxString == 128
MaxDraftString == 256
MaxRoutes == 16
MaxArray == 32

Placeholders == {"<start>", "<end>"}
LocalTimes == {"08:00", "22:00"}
TimeZones == {"UTC", "Europe/Moscow"}
Durations == {"P30D"}
MimeTypes == {"image/png"}
Percentages == {"50", "80"}
PercentageOf(word) == IF word = "50" THEN 50 ELSE 80

RouteRisks == {"low", "medium", "high", "untrusted-input"}
PrivacyClasses == {"public", "internal", "confidential", "commercial-secret", "security-restricted"}
KnownNamespaces == {"tvoe-vremya", "ai-my-time", "personal", "shared-public", "security-restricted"}
RequiredMetadata == {"source", "observedAt", "confidence", "classification", "retentionClass"}
OwnerApprovalEffects == {"write", "send", "publish", "delete", "execute", "privilege-change"}
ScanBefore == {"memory", "log", "external-call", "audit"}
RetentionClasses == <<"session-only", "short-lived", "audit-minimal">>

-------------------------------------------------------------------------------
(* Readers of one field.                                                     *)

Exactly(n, required, optional) ==
    Check(required \subseteq FieldsOf(n) /\ FieldsOf(n) \subseteq required \cup optional, "ACCESSOR")
ReadExact(n, field, required) ==
    IF field \in DOMAIN n.objects THEN Exactly(n.objects[field], required, {}) ELSE "ACCESSOR"

\* mutant: one right flag is enough.
HasAnyFlag(n, flags) == \E field \in DOMAIN flags : Value(n, field) = flags[field]

HasFlags(n, flags) == \A field \in DOMAIN flags : Value(n, field) = flags[field]

Filled(word, max) == Strings(word) /\ Length(word) \in 1 .. max
BoundedString(n, field, max) == Check(Filled(Value(n, field), max), "INVALID_VALUE")
ControlledString(n, field, allowed) ==
    FirstFailure(<<BoundedString(n, field, MaxDraftString), Check(Value(n, field) \in allowed, "UNKNOWN_ENUM")>>)
SemanticString(word, pattern) == Check(word \in pattern \cup Placeholders, "INVALID_VALUE")
ExactBoolean(n, field) == Check(Value(n, field) \in {"true", "false"}, "INVALID_VALUE")
PositiveOrPlaceholder(n, field, max) ==
    LET word == Value(n, field)
    IN  (word \in NumberWords /\ NumberOf(word) \in 1 .. max) \/ word \in Placeholders

\* A list without duplicates; an empty set of allowed words allows every word.
StringArray(n, field, maxItems, maxLength, allowed) ==
    LET list == Listed(n, field)
        Item(i) == FirstFailure(<<
            Check(Filled(list[i], maxLength), "INVALID_VALUE"),
            Check(allowed = {} \/ list[i] \in allowed, "UNKNOWN_ENUM"),
            Check(\A j \in 1 .. i - 1 : list[j] # list[i], "INVALID_VALUE")>>)
    IN  FirstFailure(<<
            Check(field \in DOMAIN n.lists, "INVALID_VALUE"), Check(Len(list) <= maxItems, "TOO_LARGE"),
            FirstFailure([i \in DOMAIN list |-> Item(i)])>>)
\* ... and of exactly the words of a set.
ExactSet(n, field, words, allowed) ==
    LET list == Listed(n, field)
    IN  FirstFailure(<<
            StringArray(n, field, MaxArray, MaxString, allowed),
            Check(Len(list) = Cardinality(words), "INVALID_VALUE"),
            Check(\A word \in words : \E i \in DOMAIN list : list[i] = word, "MISSING_FIELD")>>)
NonEmpty(n, field, outcome) == outcome = "ok" /\ Listed(n, field) # <<>>

ObjectArray(n, field, max) ==
    Check(field \in DOMAIN n.tables /\ Len(TableAt(n, field)) \in 1 .. max, "INVALID_VALUE")
\* The entries of a table before one have another word in a field.
FirstWith(table, i, field) == \A j \in 1 .. i - 1 : Value(table[j], field) # Value(table[i], field)

VersionOutcome(n, version, status, allowed) == FirstFailure(<<
    Check(Value(n, "schemaVersion") = version, "WRONG_SCHEMA_VERSION"),
    Check(status => Value(n, "status") \in allowed, "UNKNOWN_ENUM")>>)
\* A copy is bounded: words no longer than MaxDraftString; the bounds on the depth and
\* the number of nodes are above every document here.
Copyable(n) ==
    \A m \in Nodes(n) :
        /\ \A field \in DOMAIN m.values : Length(m.values[field]) <= MaxDraftString
        /\ \A field \in DOMAIN m.lists : \A i \in DOMAIN m.lists[field] : Length(m.lists[field][i]) <= MaxDraftString
\* A draft is copied whole before its fields are read.
SemanticDraft(n, fields) ==
    FirstFailure(<<
        Check(Copyable(n), "ACCESSOR"), Exactly(n, {"schemaVersion", "status"} \cup fields, {}), VersionOutcome(n, "1.0-draft", TRUE, {"draft"})>>)

-------------------------------------------------------------------------------
(* The four documents of the local host.                                     *)

Route(routes, i) ==
    LET route == routes[i]
    IN  FirstFailure(<<
            Exactly(route, {"risk", "capabilityTier", "toolProfile", "approval", "onUnavailable"}, {"fallbackToWeakerTier"}),
            Check(Value(route, "risk") \in RouteRisks, "UNKNOWN_ENUM"),
            Check(FirstWith(routes, i, "risk"), "INVALID_VALUE"),
            Check(Value(route, "onUnavailable") = "fail-closed", "UNKNOWN_ENUM"),
            BoundedString(route, "capabilityTier", MaxString), BoundedString(route, "toolProfile", MaxString),
            BoundedString(route, "approval", MaxString),
            Check("fallbackToWeakerTier" \in FieldsOf(route) => Value(route, "fallbackToWeakerTier") = "false",
                  "INVALID_VALUE")>>)

ParseModelRoutingConfig(n) ==
    LET routes == TableAt(n, "routes")
    IN  FirstFailure(<<
            Exactly(n, {"schemaVersion", "status", "modelIdentifiersConfirmed", "defaultProviderMode",
                        "apiFallbackEnabled", "paidFallbackEnabled", "routes", "onUnavailable"}, {}),
            VersionOutcome(n, "1.0", TRUE, {"draft", "active"}),
            Check(Value(n, "defaultProviderMode") = "subscription-oauth-only", "UNKNOWN_ENUM"),
            Check(HasFlags(n, [apiFallbackEnabled |-> "false", paidFallbackEnabled |-> "false"]), "INVALID_VALUE"),
            Check(Value(n, "onUnavailable") = "fail-closed", "UNKNOWN_ENUM"),
            ExactBoolean(n, "modelIdentifiersConfirmed"),
            Check("routes" \in DOMAIN n.tables, "INVALID_VALUE"),
            Check(Len(routes) \in 1 .. MaxRoutes, "TOO_LARGE"),
            FirstFailure([i \in DOMAIN routes |-> Route(routes, i)])>>)

ParseMemoryNamespacesConfig(n) == FirstFailure(<<
    Exactly(n, {"schemaVersion", "status", "defaultAccess", "namespaces", "activeNamespaceRequired",
                "crossNamespaceAccess", "crossProjectAccessRequiresOwnerApproval", "securityRestrictedIsolated",
                "personalIsolatedFromProjects", "requiredMetadata", "embedding"}, {}),
    VersionOutcome(n, "1.0", TRUE, {"draft", "active"}),
    Check(Value(n, "defaultAccess") = "deny", "UNKNOWN_ENUM"),
    Check(HasFlags(n, [activeNamespaceRequired |-> "true", crossNamespaceAccess |-> "false",
                       crossProjectAccessRequiresOwnerApproval |-> "true", securityRestrictedIsolated |-> "true",
                       personalIsolatedFromProjects |-> "true"]), "INVALID_VALUE"),
    ExactSet(n, "namespaces", KnownNamespaces, KnownNamespaces),
    ExactSet(n, "requiredMetadata", RequiredMetadata, {}),
    ReadExact(n, "embedding", {"mode", "externalProviderEnabled"}),
    Check(HasFlags(ObjectAt(n, "embedding"), [mode |-> "none", externalProviderEnabled |-> "false"]), "INVALID_VALUE")>>)

PrivacyEntry(entry) == FirstFailure(<<
    Exactly(entry, {"externalProcessingAllowed"}, {"storeAllowed"}),
    Check(Value(entry, "externalProcessingAllowed") \in {"false", "policy-dependent"}, "UNKNOWN_ENUM"),
    Check("storeAllowed" \in FieldsOf(entry) => Value(entry, "storeAllowed") = "false", "INVALID_VALUE")>>)

\* The entries of the classes are read in the order in which the code lists them.
ParseMemoryClassificationConfig(n) ==
    LET classes == ObjectAt(n, "classes")
        Entry(class) ==
            IF class \in DOMAIN classes.objects THEN PrivacyEntry(classes.objects[class]) ELSE "ACCESSOR"
    IN  FirstFailure(<<
            Exactly(n, {"schemaVersion", "status", "defaultClassification", "classes", "sensitiveDataScan"}, {}),
            VersionOutcome(n, "1.0", TRUE, {"draft", "active"}),
            Check(Value(n, "defaultClassification") \in PrivacyClasses, "UNKNOWN_ENUM"),
            ReadExact(n, "classes", PrivacyClasses),
            Entry("public"), Entry("internal"), Entry("confidential"), Entry("commercial-secret"),
            Entry("security-restricted"),
            ReadExact(n, "sensitiveDataScan", {"required", "failureEffect"}),
            Check(HasFlags(ObjectAt(n, "sensitiveDataScan"), [required |-> "true", failureEffect |-> "deny"]),
                  "INVALID_VALUE")>>)

ParseSecurityPolicyConfig(n) == FirstFailure(<<
    Exactly(n, {"schemaVersion", "status", "defaultEffect", "readOnlyFirst", "paymentActionsAllowed",
                "externalWritesAllowed", "ownerApproval", "sensitiveDataScanner", "reverseTrustAllowed"}, {}),
    VersionOutcome(n, "1.0", TRUE, {"draft", "active"}),
    Check(HasFlags(n, [defaultEffect |-> "deny", readOnlyFirst |-> "true", paymentActionsAllowed |-> "false",
                       externalWritesAllowed |-> "false", reverseTrustAllowed |-> "false"]), "INVALID_VALUE"),
    ReadExact(n, "ownerApproval", {"required", "bindToTargetAndPayload", "expires", "replayAllowed"}),
    Check(HasFlags(ObjectAt(n, "ownerApproval"),
                   [required |-> "true", bindToTargetAndPayload |-> "true", expires |-> "true",
                    replayAllowed |-> "false"]), "INVALID_VALUE"),
    ReadExact(n, "sensitiveDataScanner", {"requiredBeforeAllSinks", "deterministic", "failureEffect"}),
    Check(HasFlags(ObjectAt(n, "sensitiveDataScanner"),
                   [requiredBeforeAllSinks |-> "true", deterministic |-> "true", failureEffect |-> "deny"]),
          "INVALID_VALUE")>>)

\* The envelope: its fields, then a copy of each section, then the parser of each.
ParseLocalHostConfig(n) ==
    LET sections == {"modelRouting", "memoryNamespaces", "memoryClassification", "securityPolicy"}
    IN  FirstFailure(<<
            Check(FieldsOf(n) \subseteq sections, "UNKNOWN_CONFIG_FIELD"),
            Check(sections \subseteq FieldsOf(n), "MISSING_CONFIG_SECTION"),
            Check(sections \subseteq DOMAIN n.objects /\ Copyable(n), "UNSAFE_CONFIG_INPUT"),
            Check(ParseModelRoutingConfig(ObjectAt(n, "modelRouting")) = "ok", "INVALID_MODEL_ROUTING_CONFIG"),
            Check(ParseMemoryNamespacesConfig(ObjectAt(n, "memoryNamespaces")) = "ok",
                  "INVALID_MEMORY_NAMESPACES_CONFIG"),
            Check(ParseMemoryClassificationConfig(ObjectAt(n, "memoryClassification")) = "ok",
                  "INVALID_MEMORY_CLASSIFICATION_CONFIG"),
            Check(ParseSecurityPolicyConfig(ObjectAt(n, "securityPolicy")) = "ok", "INVALID_SECURITY_POLICY_CONFIG")>>)

-------------------------------------------------------------------------------
(* The drafts.                                                               *)

ParseOpenClawDraftConfig(n) == FirstFailure(<<
    Exactly(n, {"schemaVersion", "metadata", "proposedConfig"}, {}), VersionOutcome(n, "1.0-draft", FALSE, {}),
    ReadExact(n, "metadata", {"status", "runtime", "runtimeCompatibility", "purpose", "notDeployable"}),
    Check(HasFlags(ObjectAt(n, "metadata"),
                   [status |-> "draft", runtime |-> "OpenClaw", runtimeCompatibility |-> "UNVERIFIED",
                    purpose |-> "architecture-example-only", notDeployable |-> "true"]), "INVALID_VALUE"),
    ReadExact(n, "proposedConfig",
              {"bindHost", "providerMode", "apiFallbackEnabled", "paidFallbackEnabled", "approvalMode",
               "defaultAccess", "memoryEmbedding", "channelAdapter", "modelSelection"}),
    Check(HasFlags(ObjectAt(n, "proposedConfig"),
                   [bindHost |-> "127.0.0.1", providerMode |-> "subscription-oauth-only",
                    apiFallbackEnabled |-> "false", paidFallbackEnabled |-> "false",
                    approvalMode |-> "owner-explicit", defaultAccess |-> "read-only", memoryEmbedding |-> "none"]),
          "INVALID_VALUE"),
    BoundedString(ObjectAt(n, "proposedConfig"), "channelAdapter", MaxDraftString),
    BoundedString(ObjectAt(n, "proposedConfig"), "modelSelection", MaxDraftString)>>)

ParseOpenClawPolicyDraftConfig(n) ==
    LET policy == ObjectAt(n, "policy")
    IN  FirstFailure(<<
            Exactly(n, {"schemaVersion", "metadata", "policy"}, {}), VersionOutcome(n, "1.0-draft", FALSE, {}),
            ReadExact(n, "metadata", {"status", "runtimeCompatibility"}),
            Check(HasFlags(ObjectAt(n, "metadata"), [status |-> "draft", runtimeCompatibility |-> "UNVERIFIED"]),
                  "INVALID_VALUE"),
            ReadExact(n, "policy",
                      {"defaultEffect", "readOnlyFirst", "ownerApprovalRequiredFor", "paymentActionsAllowed",
                       "apiFallbackEnabled", "paidFallbackEnabled", "scanBefore", "scannerFailureEffect"}),
            Check(HasFlags(policy, [defaultEffect |-> "deny", readOnlyFirst |-> "true",
                                    paymentActionsAllowed |-> "false", apiFallbackEnabled |-> "false",
                                    paidFallbackEnabled |-> "false", scannerFailureEffect |-> "deny"]),
                  "INVALID_VALUE"),
            ExactSet(policy, "ownerApprovalRequiredFor", OwnerApprovalEffects, {}),
            ExactSet(policy, "scanBefore", ScanBefore, {})>>)

\* Quiet hours that start when they end would never be quiet.
QuietHours(quiet) ==
    /\ {Value(quiet, "start"), Value(quiet, "end")} \subseteq LocalTimes \cup Placeholders
    /\ Value(quiet, "start") = Value(quiet, "end") => Value(quiet, "start") \in Placeholders

ParseAutomationNotificationPolicyDraft(n) ==
    LET quiet == ObjectAt(n, "quietHours")
        severity == ObjectAt(n, "severity")
    IN  FirstFailure(<<
            SemanticDraft(n, {"defaultDelivery", "timezone", "quietHours", "severity", "includeSensitiveRawData",
                              "recipientPolicy"}),
            ControlledString(n, "defaultDelivery", {"defer-during-quiet-hours", "immediate", "digest"}),
            SemanticString(Value(n, "timezone"), TimeZones),
            ReadExact(n, "quietHours", {"start", "end"}), ReadExact(n, "severity", {"info", "warning", "critical"}),
            SemanticString(Value(quiet, "start"), LocalTimes), SemanticString(Value(quiet, "end"), LocalTimes),
            ControlledString(severity, "info", {"digest", "timely"}),
            ControlledString(severity, "warning", {"digest", "timely"}),
            ControlledString(severity, "critical", {"immediate-after-policy-check"}),
            Check(QuietHours(quiet), "INVALID_VALUE"),
            Check(HasFlags(n, [includeSensitiveRawData |-> "false", recipientPolicy |-> "allowlist-only"]),
                  "INVALID_VALUE")>>)

\* One placeholder among the thresholds and their order is not looked at.
Increasing(words) ==
    (\A i \in DOMAIN words : words[i] \in Percentages) =>
        \A i \in 2 .. Len(words) : PercentageOf(words[i - 1]) < PercentageOf(words[i])

ParseAutomationQuotasDraft(n) ==
    LET thresholds == Listed(n, "thresholds")
        types == {"subscription-usage", "storage", "local-resource"}
    IN  FirstFailure(<<
            SemanticDraft(n, {"enabled", "quotaTypes", "thresholds", "apiBillingIsFallback", "paidFallbackEnabled",
                              "onExceeded"}),
            ExactBoolean(n, "enabled"),
            Check(NonEmpty(n, "quotaTypes", StringArray(n, "quotaTypes", 3, MaxString, types)), "INVALID_VALUE"),
            Check(StringArray(n, "thresholds", 4, MaxString, {}) = "ok", "INVALID_VALUE"),
            Check(Len(thresholds) >= 2, "INVALID_VALUE"),
            Check(\A i \in DOMAIN thresholds : thresholds[i] \in Percentages \cup Placeholders, "INVALID_VALUE"),
            Check(HasFlags(n, [apiBillingIsFallback |-> "false", paidFallbackEnabled |-> "false"]), "INVALID_VALUE"),
            Check(Value(n, "onExceeded") \in {"notify-and-mark-unavailable", "deny-and-notify"}, "INVALID_VALUE"),
            Check(Increasing(thresholds), "INVALID_VALUE")>>)

RetryPolicies == {"<define-after-scheduler-validation>", "no-retry", "single-retry", "bounded-exponential-backoff"}
ParseAutomationRemindersDraft(n) ==
    LET quiet == ObjectAt(n, "quietHours")
        delivery == ObjectAt(n, "delivery")
    IN  FirstFailure(<<
            SemanticDraft(n, {"enabled", "timezone", "quietHours", "delivery", "paymentActionsAllowed"}),
            SemanticString(Value(n, "timezone"), TimeZones),
            ReadExact(n, "quietHours", {"start", "end", "urgentBypassRequiresApproval"}),
            ReadExact(n, "delivery", {"idempotencyRequired", "retryPolicy", "missedRunPolicy"}),
            Check(QuietHours(quiet), "INVALID_VALUE"), ExactBoolean(n, "enabled"),
            Check(Value(delivery, "retryPolicy") \in RetryPolicies, "INVALID_VALUE"),
            Check(HasFlags(quiet, [urgentBypassRequiresApproval |-> "true"]), "INVALID_VALUE"),
            Check(HasFlags(delivery, [idempotencyRequired |-> "true"]), "INVALID_VALUE"),
            Check(Value(delivery, "missedRunPolicy") \in {"notify-owner", "skip-and-notify"}, "INVALID_VALUE"),
            Check(HasFlags(n, [paymentActionsAllowed |-> "false"]), "INVALID_VALUE")>>)

ParseAutomationSubscriptionsDraft(n) ==
    LET detections == {"renewal-date", "price-change", "duplicate-subscription"}
    IN  FirstFailure(<<
            SemanticDraft(n, {"enabled", "mode", "sources", "detect", "paymentActionsAllowed",
                              "cancellationActionsAllowed", "changesRequireOwnerApproval"}),
            ExactBoolean(n, "enabled"),
            Check(NonEmpty(n, "sources", StringArray(n, "sources", MaxArray, MaxDraftString, {})), "INVALID_VALUE"),
            Check(NonEmpty(n, "detect", StringArray(n, "detect", 3, MaxString, detections)), "INVALID_VALUE"),
            Check(HasFlags(n, [mode |-> "read-only-observation", paymentActionsAllowed |-> "false",
                               cancellationActionsAllowed |-> "false", changesRequireOwnerApproval |-> "true"]),
                  "INVALID_VALUE")>>)

Capability(capabilities, i) ==
    LET capability == capabilities[i]
    IN  FirstFailure(<<
            Exactly(capability, {"kind", "enabled", "provider", "requiresApprovalForExternalProcessing"}, {}),
            Check(Value(capability, "kind") \in {"image-inspection", "audio-transcription", "document-extraction"},
                  "INVALID_VALUE"),
            Check(FirstWith(capabilities, i, "kind"), "INVALID_VALUE"),
            BoundedString(capability, "provider", MaxDraftString), ExactBoolean(capability, "enabled"),
            Check(HasFlags(capability, [requiresApprovalForExternalProcessing |-> "true"]), "INVALID_VALUE")>>)

ParseMediaCapabilitiesDraft(n) ==
    LET capabilities == TableAt(n, "capabilities")
    IN  FirstFailure(<<
            SemanticDraft(n, {"localFirst", "paidProvidersEnabled", "capabilities"}),
            ObjectArray(n, "capabilities", 16),
            Check(HasFlags(n, [localFirst |-> "true", paidProvidersEnabled |-> "false"]), "INVALID_VALUE"),
            FirstFailure([i \in DOMAIN capabilities |-> Capability(capabilities, i)])>>)

ParseMediaLimitsDraft(n) ==
    LET limits == ObjectAt(n, "limits")
        mimes == Listed(limits, "allowedMimeTypes")
        sizes == {Value(limits, "maxInputBytes"), Value(limits, "maxOutputBytes")}
    IN  FirstFailure(<<
            SemanticDraft(n, {"limits", "onUnknownType", "onLimitExceeded"}),
            ReadExact(n, "limits",
                      {"maxInputBytes", "maxOutputBytes", "allowedMimeTypes", "maxDurationSeconds", "externalProcessing"}),
            Check(PositiveOrPlaceholder(limits, "maxInputBytes", 1073741824), "INVALID_VALUE"),
            Check(PositiveOrPlaceholder(limits, "maxOutputBytes", 1073741824), "INVALID_VALUE"),
            Check(PositiveOrPlaceholder(limits, "maxDurationSeconds", 86400), "INVALID_VALUE"),
            Check(NonEmpty(limits, "allowedMimeTypes", StringArray(limits, "allowedMimeTypes", MaxArray, MaxString, {})),
                  "INVALID_VALUE"),
            Check(\A i \in DOMAIN mimes : mimes[i] \in MimeTypes \cup Placeholders, "INVALID_VALUE"),
            Check(HasFlags(limits, [externalProcessing |-> "false"]), "INVALID_VALUE"),
            Check(HasFlags(n, [onUnknownType |-> "deny", onLimitExceeded |-> "deny"]), "INVALID_VALUE"),
            Check(sizes \subseteq NumberWords =>
                      NumberOf(Value(limits, "maxOutputBytes")) <= NumberOf(Value(limits, "maxInputBytes")),
                  "INVALID_VALUE")>>)

RetentionClass(classes, i) ==
    LET name == RetentionClasses[i]
        minimal == name = "audit-minimal"
        item == ObjectAt(classes, name)
    IN  FirstFailure(<<
            ReadExact(classes, name, {"duration", "persistent"} \cup IF minimal THEN {"rawContentAllowed"} ELSE {}),
            SemanticString(Value(item, "duration"), Durations),
            Check(HasFlags(item, [persistent |-> IF name = "session-only" THEN "false" ELSE "true"]), "INVALID_VALUE"),
            Check(minimal => HasFlags(item, [rawContentAllowed |-> "false"]), "INVALID_VALUE")>>)

ParseMemoryRetentionDraft(n) ==
    LET names == {RetentionClasses[i] : i \in DOMAIN RetentionClasses}
    IN  FirstFailure(<<
            SemanticDraft(n, {"defaultRetention", "classes", "legalHoldEnabled", "deletionVerificationRequired"}),
            ControlledString(n, "defaultRetention", names), ReadExact(n, "classes", names),
            FirstFailure([i \in DOMAIN RetentionClasses |-> RetentionClass(ObjectAt(n, "classes"), i)]),
            ExactBoolean(n, "legalHoldEnabled"),
            Check(HasFlags(n, [deletionVerificationRequired |-> "true"]), "INVALID_VALUE")>>)

Recipient(recipients, i) ==
    LET recipient == recipients[i]
        categories == {"owner", "project", "system"}
        notifications == {"status", "approval-request", "security-alert", "digest"}
    IN  FirstFailure(<<
            Exactly(recipient, {"recipientRef", "categories", "allowedNotifications", "verified"}, {}),
            BoundedString(recipient, "recipientRef", MaxDraftString),
            Check(FirstWith(recipients, i, "recipientRef"), "INVALID_VALUE"),
            Check(NonEmpty(recipient, "categories", StringArray(recipient, "categories", 8, MaxString, categories)),
                  "INVALID_VALUE"),
            Check(NonEmpty(recipient, "allowedNotifications",
                           StringArray(recipient, "allowedNotifications", 8, MaxString, notifications)),
                  "INVALID_VALUE"),
            ExactBoolean(recipient, "verified")>>)

ParsePolicyRecipientsDraft(n) ==
    LET recipients == TableAt(n, "recipients")
    IN  FirstFailure(<<
            SemanticDraft(n, {"defaultEffect", "recipients", "arbitraryRecipientsAllowed"}),
            ObjectArray(n, "recipients", MaxArray),
            Check(HasFlags(n, [defaultEffect |-> "deny", arbitraryRecipientsAllowed |-> "false"]), "INVALID_VALUE"),
            FirstFailure([i \in DOMAIN recipients |-> Recipient(recipients, i)])>>)

\* What a rule must say depends on its sink.
RetentionRule(rules, i) ==
    LET rule == rules[i]
        external == Value(rule, "sink") = "external"
    IN  FirstFailure(<<
            Exactly(rule, {"sink"}, {"rawSensitiveDataAllowed", "duration", "retentionControl"}),
            Check(Value(rule, "sink") \in {"logs", "audit", "external"}, "INVALID_VALUE"),
            Check(FirstWith(rules, i, "sink"), "INVALID_VALUE"),
            Check(external => /\ FieldsOf(rule) = {"sink", "retentionControl"}
                              /\ HasFlags(rule, [retentionControl |-> "provider-validated-or-deny"]), "INVALID_VALUE"),
            Check(~external => /\ FieldsOf(rule) = {"sink", "rawSensitiveDataAllowed", "duration"}
                               /\ HasFlags(rule, [rawSensitiveDataAllowed |-> "false"])
                               /\ SemanticString(Value(rule, "duration"), Durations) = "ok", "INVALID_VALUE")>>)

ParsePolicyRetentionDraft(n) ==
    LET rules == TableAt(n, "rules")
    IN  FirstFailure(<<
            SemanticDraft(n, {"default", "rules", "deletionVerificationRequired"}),
            ObjectArray(n, "rules", MaxArray),
            Check(HasFlags(n, [default |-> "minimum-necessary", deletionVerificationRequired |-> "true"]),
                  "INVALID_VALUE"),
            FirstFailure([i \in DOMAIN rules |-> RetentionRule(rules, i)])>>)

-------------------------------------------------------------------------------
(* The parser of each kind of document.                                      *)

SemanticDrafts ==
    {"automation-notification-policy", "automation-quotas", "automation-reminders", "automation-subscriptions",
     "media-capabilities", "media-limits", "memory-retention", "policy-recipients", "policy-retention"}
WellFormed(kind, n) ==
    CASE kind = "model-routing" -> ParseModelRoutingConfig(n)
      [] kind = "memory-namespaces" -> ParseMemoryNamespacesConfig(n)
      [] kind = "memory-classification" -> ParseMemoryClassificationConfig(n)
      [] kind = "security-policy" -> ParseSecurityPolicyConfig(n)
      [] kind = "openclaw-draft" -> ParseOpenClawDraftConfig(n)
      [] kind = "openclaw-policy-draft" -> ParseOpenClawPolicyDraftConfig(n)
      [] kind = "automation-notification-policy" -> ParseAutomationNotificationPolicyDraft(n)
      [] kind = "automation-quotas" -> ParseAutomationQuotasDraft(n)
      [] kind = "automation-reminders" -> ParseAutomationRemindersDraft(n)
      [] kind = "automation-subscriptions" -> ParseAutomationSubscriptionsDraft(n)
      [] kind = "media-capabilities" -> ParseMediaCapabilitiesDraft(n)
      [] kind = "media-limits" -> ParseMediaLimitsDraft(n)
      [] kind = "memory-retention" -> ParseMemoryRetentionDraft(n)
      [] kind = "policy-recipients" -> ParsePolicyRecipientsDraft(n)
      [] kind = "policy-retention" -> ParsePolicyRetentionDraft(n)
      [] OTHER -> ParseLocalHostConfig(n)

\* What is no plain data, and what is no object, is refused before a field is read.
Refusal(kind, form) ==
    CASE form = "plain object" -> "ok"
      [] kind = "local-host" -> IF form = "no object" THEN "INVALID_CONFIG_CONTAINER" ELSE "UNSAFE_CONFIG_INPUT"
      [] form = "no object" /\ kind \in SemanticDrafts -> "NOT_OBJECT"
      [] OTHER -> "ACCESSOR"

NoDocument == [kind |-> "none", form |-> "no object", root |-> Empty]
ConfigInit == config = NoDocument /\ parsed = "none"
ParseConfig(document) ==
    /\ config' = document
    /\ parsed' = FirstFailure(<<Refusal(document.kind, document.form), WellFormed(document.kind, document.root)>>)
ConfigNext == parsed = "none" /\ \E document \in Documents : ParseConfig(document)
ConfigSpec == ConfigInit /\ [][ConfigNext]_configVars

-------------------------------------------------------------------------------
Forbidden ==
    {"apiFallbackEnabled", "paidFallbackEnabled", "fallbackToWeakerTier", "crossNamespaceAccess",
     "externalProviderEnabled", "storeAllowed", "paymentActionsAllowed", "externalWritesAllowed",
     "reverseTrustAllowed", "replayAllowed", "includeSensitiveRawData", "apiBillingIsFallback",
     "cancellationActionsAllowed", "paidProvidersEnabled", "externalProcessing", "rawContentAllowed",
     "arbitraryRecipientsAllowed", "rawSensitiveDataAllowed"}
Demanded ==
    {"activeNamespaceRequired", "crossProjectAccessRequiresOwnerApproval", "securityRestrictedIsolated",
     "personalIsolatedFromProjects", "readOnlyFirst", "bindToTargetAndPayload", "expires", "required",
     "requiredBeforeAllSinks", "deterministic", "notDeployable", "urgentBypassRequiresApproval",
     "idempotencyRequired", "changesRequireOwnerApproval", "localFirst",
     "requiresApprovalForExternalProcessing", "deletionVerificationRequired"}
Denials == {"defaultEffect", "failureEffect", "scannerFailureEffect", "onUnknownType", "onLimitExceeded"}
Identities == {"risk", "kind", "recipientRef", "sink"}

\* A flag has its safe value wherever it stands, and nothing else may stand in its place.
FlagsAreSafe(n) ==
    /\ \A field \in FieldsOf(n) \cap Forbidden : Value(n, field) = "false"
    /\ \A field \in FieldsOf(n) \cap Demanded : Value(n, field) = "true"
    /\ \A field \in FieldsOf(n) \cap Denials : Value(n, field) = "deny"
    /\ "onUnavailable" \in FieldsOf(n) => Value(n, "onUnavailable") = "fail-closed"
ListsAreSets(n) ==
    \A field \in DOMAIN n.lists : \A i, j \in DOMAIN n.lists[field] :
        n.lists[field][i] = n.lists[field][j] => i = j
EntriesAreDistinct(n) ==
    \A field \in DOMAIN n.tables : \A i, j \in DOMAIN n.tables[field] :
        \A identity \in FieldsOf(n.tables[field][i]) \cap Identities :
            Value(n.tables[field][i], identity) = Value(n.tables[field][j], identity) => i = j
BoundsAgree(n) ==
    /\ {"start", "end"} \subseteq FieldsOf(n) /\ Value(n, "start") \in LocalTimes => Value(n, "start") # Value(n, "end")
    /\ {"maxInputBytes", "maxOutputBytes"} \subseteq FieldsOf(n) =>
          \/ {Value(n, "maxInputBytes"), Value(n, "maxOutputBytes")} \cap Placeholders # {}
          \/ NumberOf(Value(n, "maxOutputBytes")) \in 1 .. NumberOf(Value(n, "maxInputBytes"))

\* An accepted document is closed in every part of it: no switch that opens a fallback,
\* a payment or a write is on, no safeguard is off, no entry is told twice, quiet hours
\* are not empty, and nothing grows when it is processed (security-config.ts: "fail-closed").
AcceptedConfigsAreSafe ==
    parsed = "ok" =>
        \A n \in Nodes(config.root) : FlagsAreSafe(n) /\ ListsAreSets(n) /\ EntriesAreDistinct(n) /\ BoundsAgree(n)
===============================================================================
