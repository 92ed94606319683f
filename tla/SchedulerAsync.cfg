SPECIFICATION Spec
CONSTANTS
    r1 = r1
    r2 = r2
    r3 = r3
    Requests = {r1, r2}
    Blocks = {b1, b2, b3, b4}
    BlockSize = 2
    PromptTokens <- Prompt32
    MaxTokens = 3
    MaxModelLen = 8
    MaxNumRunningReqs = 3
    MaxNumScheduledTokens = 4
    LongPrefillTokenThreshold = 2
    NumSpecTokens = 1
    NumLookaheadTokens = 1
    MaxConcurrentBatches = 3
    AsyncScheduling = TRUE
    KVConsumer = FALSE
    RequiresKVDelivery = FALSE
    RecomputeKVLoadFailures = TRUE
    ReserveFullISL = FALSE
    LoadableTokens = {}
    FailingLoads = FALSE
    LookupsMayWait = FALSE
    SendsKV = FALSE
    Resumable = {}
    Abortable = {r2}
    MaxUpdates = 0
    MaxResets = 1
    MaxSteps = 1
SYMMETRY Symmetry
INVARIANTS TypeOK QueuesConsistent StepWithinBudget InFlightExact ComputedExact TokensBacked ResetReleasesBlocks FullQuantumOnlyAlone
PROPERTY DeliveredInOrder
CHECK_DEADLOCK FALSE
