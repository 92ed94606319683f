SPECIFICATION FairSpec
CONSTANTS
    r1 = r1
    r2 = r2
    r3 = r3
    Requests = {r1, r2}
    Blocks = {b1, b2, b3, b4}
    BlockSize = 2
    PromptTokens <- Prompt55
    MaxTokens = 2
    MaxModelLen = 8
    MaxNumRunningReqs = 3
    MaxNumScheduledTokens = 4
    LongPrefillTokenThreshold = 2
    NumSpecTokens = 0
    NumLookaheadTokens = 0
    MaxConcurrentBatches = 1
    AsyncScheduling = FALSE
    KVConsumer = TRUE
    RequiresKVDelivery = FALSE
    RecomputeKVLoadFailures = FALSE
    ReserveFullISL = FALSE
    LoadableTokens = {4}
    FailingLoads = TRUE
    LookupsMayWait = FALSE
    SendsKV = TRUE
    Resumable = {}
    Abortable = {r2}
    MaxUpdates = 0
    MaxResets = 0
    MaxSteps = 1
PROPERTY Completes
CHECK_DEADLOCK FALSE
