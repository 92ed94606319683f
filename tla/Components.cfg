SPECIFICATION ComponentsSpec
CONSTANTS
    MaxNumReqs = 3
    MaxNumBlocks = 2
    BlockIds = {1, 2}
    BlockSize = 2
    BlocksPerKVBlock = 2
    CPWorldSize = 2
    InterleaveSize = 2
    Cap = 2
    MaxMessages = 3
    Chunk = 3
    Shards = {"s1", "s2"}
    Others = {"config"}
    Provenance = "provenance"
    Tensors <- TwoShards
    Replaced <- TwoTools
INVARIANTS RowsExact StepSeesItsBlocks SlotsExact
INVARIANTS BodyIntact FailsClosed Transparent EndsOnce SplitIndependent LastDeltaJudged FirstEnvelopesClosed
INVARIANTS AttendsOwnContext RowsSettled AttentionExact LogitsExact TopKExact LayoutsAgree VariantExact
CHECK_DEADLOCK FALSE
