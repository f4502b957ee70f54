SPECIFICATION Spec
CONSTANTS
    MaxEpoch = 1
    MaxRound = 2
    Ids = {i1, i2}
    Blocks <- AllBlocks
    Proposals <- AllBlocks
    PlainTimeouts = {}
    QcTimeouts = {}
    TimeoutCerts = {}
    StoreFaults = {"lost"}
    CacheEnabled = TRUE
    TestConfig = FALSE
    None = None
PROPERTIES SignedProposalsAdvance
