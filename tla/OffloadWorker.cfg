SPECIFICATION FairSpec
CONSTANTS
    NumJobs = 3
    NumSteps = 1
    OpCounts = {0, 2}
INVARIANTS EndEventExact CopiesOwnBlocks
PROPERTIES InSubmissionOrder EveryTransferEnds
CHECK_DEADLOCK FALSE
