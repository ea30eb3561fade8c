SPECIFICATION ComponentsSpec
CONSTANTS
    j1 = j1
    j2 = j2
    j3 = j3
    j4 = j4
    None = None
    Turns = {t1, t2}
    Conversations = {c1, c2}
    TransportKeys = {k1, k2}
    Handles = {t1, t2}
    MaxDepthPerConversation = 1
    MaxGlobalPending = 1
    MaxSafeInteger = 5
    OfferedFacts <- MCOfferedFacts
    OfferedMoves <- MCOfferedMoves
    MaxContextEntries = 2
    PolicyVersions = {p1, p2}
    Jobs = {j1, j2, j3, j4}
    MaxPendingJobs = 3
    EarlierFiles <- MCEarlierFiles
    MaxFileTime = 2
    LikeSqlite <- MCLikeSqlite
    MaxScanInput = 12
    MaxQuotedValue = 4
    MaxMetadataNodes = 2
    MaxMetadataDepth = 2
    MaxMetadataKeyLength = 3
    ScannedTexts <- MCScannedTexts
    ScannedMetadata <- MCScannedMetadata
    MaxObservedString = 3
    MaxObservationText = 4
    MaxOwnerText = 3
    MaxExcerpts = 2
    MaxExcerptText = 4
    MaxExcerptsTotal = 5
    MaxContextLines = 2
    MaxContextTotal = 5
    MaxPromptTotal = 20
    MaxModelOutput = 3
    MaxReference = 3
    OfferedObservations <- MCObservations
    OfferedPrompts <- MCPrompts
    OfferedOutputs <- MCOutputs
    OfferedSwitches <- MCSwitches
    ObservedTurns = {t1, t2}
    MaxEvidence = 3
    OfferedClaims <- MCClaims
    MemoryReads <- MCMemoryReads
SYMMETRY MCSymmetry
INVARIANTS
    HistoryIsALog
    TurnsAreCountedOnce
    StoresKeepTheirRecords
    OpenedFilesAreSound
    TextsAreVetted
PROPERTY NothingIsUndone
CHECK_DEADLOCK FALSE
