SPECIFICATION Spec
CONSTANTS
    r1 = r1
    r2 = r2
    r3 = r3
    Requests = {r1, r2, r3}
    Blocks = {b1, b2, b3, b4, b5}
    BlockSize = 4
    PromptTokens <- Prompt331
    MaxTokens = 1
    MaxModelLen = 12
    MaxNumRunningReqs = 2
    MaxNumScheduledTokens = 4
    LongPrefillTokenThreshold = 2
    NumSpecTokens = 0
    NumLookaheadTokens = 0
    MaxConcurrentBatches = 2
    AsyncScheduling = FALSE
    KVConsumer = FALSE
    RequiresKVDelivery = FALSE
    RecomputeKVLoadFailures = TRUE
    ReserveFullISL = FALSE
    LoadableTokens = {}
    FailingLoads = FALSE
    LookupsMayWait = FALSE
    SendsKV = FALSE
    Resumable = {r1}
    Abortable = {r1}
    MaxUpdates = 2
    MaxResets = 0
    MaxSteps = 1
SYMMETRY Symmetry
INVARIANTS SlotsRespected
CHECK_DEADLOCK FALSE
