SPECIFICATION Spec
CONSTANTS
    MaxEpoch = 2
    MaxRound = 4
    Ids = {i1}
    Blocks <- ChainAndForks
    Proposals <- OneProposal
    PlainTimeouts = {2}
    QcTimeouts <- ForkTimeouts
    TimeoutCerts <- ForkTimeoutCerts
    StoreFaults = {"lost", "applied"}
    CacheEnabled = TRUE
    TestConfig = FALSE
    None = None
INVARIANTS OneVotePerRound LaterVotesKeepPreferredRound TimeoutCarriesVotedQc CacheIsCopy WaypointLeads
PROPERTIES TimeoutEndsVoting DurableProgress ActsAtomically
