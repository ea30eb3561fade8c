SPECIFICATION ServicesSpec
CONSTANTS
    Deliveries = {a1, a2}
    Commands <- MCCommands
    LimitChoices <- MCLimits
    Signed <- MCSigned
    KnownSources = {"shop"}
    MaxIngressTime = 1
    Calls = {a1, a2}
    NoApproval = none
    Sessions <- MCSessions
    Requests <- MCRequests
    Grants <- MCMemoryGrants
    QueryLimitMax = 2
    MaxContentLength = 2
    MaxContentBytes = 2
    MaxTime = 1
    MaxSeeds = 1
    EarlierRecords <- MCEarlierRecords
    Operations = {a1, a2}
    MaxTtl = 2
    MaxExtensionTime = 2
    Candidates <- MCCandidates
    EarlierEntries <- MCEarlierEntries
    OfferedPolicies <- MCExtensionPolicies
    OfferedApprovals <- MCApprovals
    OfferedRoutings <- MCRoutings
    OfferedGuards <- MCGuards
    OperationRequests <- MCOperationRequests
    Resolutions = {a1, a2}
    ProfileCandidates <- MCProfiles
    RequestedSelectors <- MCSelectors
    OfferedVoicePolicies <- MCVoicePolicies
    OfferedConfigurations <- MCConfigurations
    OfferedVoices <- MCVoices
    OfferedFallbacks <- MCFallbacks
    MaxVoiceTime = 3
    EnvironmentIds = {a1, a2}
    ServerIds = {a1, a2}
    ServiceIds = {a1, a2}
    ObservationIds = {o1}
    NoReport = NoReport
    MaxServicePorts = 2
    MaxServiceDependencies = 1
    EnvironmentInputs <- MCEnvironmentInputs
    ServerInputs <- MCServerInputs
    ServiceInputs <- MCServiceInputs
    FieldUpdates <- MCFieldUpdates
    PortLists <- MCPortLists
    ObservationInputs <- MCObservationInputs
    Evidence <- MCEvidence
    MaxLogLines = 2
    MaxLogBytes = 4
    MaxLogLineLength = 3
    MaxSanitizeInputBytes = 4
    Logs <- MCLogs
    LineCounts = {0, 1, 2, 3}
    ByteCounts = {2, 5}
    ToolCalls = {a1, a2}
    NoNote = NoNote
    Documents <- MCDocuments
SYMMETRY MCSymmetry
INVARIANTS
    DeliveriesPassOnce
    WritesAreApprovedAndTold
    MemoryStaysIsolated
    ActiveEvidenceIsEarned
    GrantsAreBacked
    VoiceIsVouchedFor
    InventoriesAndReportsHold
    SanitizedLogsHideSecrets
    CallsAnswerWhatTheyDid
    AcceptedConfigsAreSafe
PROPERTY MismatchComesFromAMove
CHECK_DEADLOCK FALSE
