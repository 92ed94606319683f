SPECIFICATION Spec
CONSTANTS
    r1 = r1
    r2 = r2
    r3 = r3
    Requests = {r1, r2}
    Blocks = {b1, b2, b3}
    BlockSize = 2
    PromptTokens <- Prompt31
    MaxTokens = 2
    MaxModelLen = 6
    MaxNumRunningReqs = 3
    MaxNumScheduledTokens = 4
    LongPrefillTokenThreshold = 2
    NumSpecTokens = 0
    NumLookaheadTokens = 0
    MaxConcurrentBatches = 2
    AsyncScheduling = TRUE
    KVConsumer = TRUE
    RequiresKVDelivery = TRUE
    RecomputeKVLoadFailures = TRUE
    ReserveFullISL = TRUE
    LoadableTokens = {1, 2}
    FailingLoads = TRUE
    LookupsMayWait = TRUE
    SendsKV = TRUE
    Resumable = {}
    Abortable = {r1, r2}
    MaxUpdates = 0
    MaxResets = 0
    MaxSteps = 5
SYMMETRY Symmetry
INVARIANTS PoolWhole TransfersTracked NoLoadRace
PROPERTY ImplementsFence
CHECK_DEADLOCK FALSE
