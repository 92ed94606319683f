SPECIFICATION FairSpec
CONSTANTS
    Requests = {r1, r2}
    Blocks = {b1, b2, b3}
    MaxSteps = 3
INVARIANTS NoLoadRace NoEarlyFree PoolPartitioned
PROPERTY DeferredReturn
