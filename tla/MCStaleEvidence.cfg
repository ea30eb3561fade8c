SPECIFICATION ExtensionsSpec
CONSTANTS
    Operations = {a1, a2}
    MaxTtl = 2
    MaxExtensionTime = 2
    Candidates <- MCCandidates
    EarlierEntries <- MCEarlierEntries
    OfferedPolicies <- MCExtensionPolicies
    OfferedApprovals <- MCApprovals
    OfferedRoutings <- MCRoutings
    OfferedGuards <- MCGuards
    OperationRequests <- MCOperationRequests
INVARIANT FreshEvidenceIsAccepted
CHECK_DEADLOCK FALSE
