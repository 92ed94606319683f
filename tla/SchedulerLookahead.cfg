SPECIFICATION FairSpec
CONSTANTS
    r1 = r1
    r2 = r2
    r3 = r3
    Requests = {r1, r2}
    Blocks = {b1, b2, b3, b4}
    BlockSize = 2
    PromptTokens <- Prompt44
    MaxTokens = 2
    MaxModelLen = 6
    MaxNumRunningReqs = 3
    MaxNumScheduledTokens = 4
    LongPrefillTokenThreshold = 2
    NumSpecTokens = 2
    NumLookaheadTokens = 2
    MaxConcurrentBatches = 1
    AsyncScheduling = FALSE
    KVConsumer = TRUE
    RequiresKVDelivery = FALSE
    RecomputeKVLoadFailures = TRUE
    ReserveFullISL = FALSE
    LoadableTokens = {4}
    FailingLoads = FALSE
    LookupsMayWait = FALSE
    SendsKV = FALSE
    Resumable = {}
    Abortable = {}
    MaxUpdates = 0
    MaxResets = 0
    MaxSteps = 1
PROPERTY Completes
CHECK_DEADLOCK FALSE
