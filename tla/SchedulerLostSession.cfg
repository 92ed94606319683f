SPECIFICATION Spec
CONSTANTS
    r1 = r1
    r2 = r2
    r3 = r3
    Requests = {r1, r2}
    Blocks = {b1, b2, b3}
    BlockSize = 2
    PromptTokens <- Prompt32
    MaxTokens = 2
    MaxModelLen = 6
    MaxNumRunningReqs = 3
    MaxNumScheduledTokens = 4
    LongPrefillTokenThreshold = 2
    NumSpecTokens = 0
    NumLookaheadTokens = 0
    MaxConcurrentBatches = 2
    AsyncScheduling = FALSE
    KVConsumer = FALSE
    RequiresKVDelivery = FALSE
    RecomputeKVLoadFailures = TRUE
    ReserveFullISL = FALSE
    LoadableTokens = {}
    FailingLoads = FALSE
    LookupsMayWait = FALSE
    SendsKV = FALSE
    Resumable = {r1}
    Abortable = {r1}
    MaxUpdates = 2
    MaxResets = 0
    MaxSteps = 1
SYMMETRY Symmetry
INVARIANT QueuesConsistent
CHECK_DEADLOCK FALSE
