SPECIFICATION Spec
CONSTANTS
    MaxRound = 4
    None = None
    Honest = {v1, v2, v3}
    Faulty = {f}
    QuorumSize = 3
    BlockIds <- ForkTree
    Crashing = {v1, v2, v3}
    CrashRounds = {3}
    TimerRounds = {3}
    Genesis = 0
    RoundOf <- MCRoundOf
    Parent <- MCParent
    Ancestors <- MCAncestors
    NilBlocks <- MCNilBlocks
    Quorums <- MCQuorums
INVARIANTS OneCertificatePerRound CertifiedExtendsCommitted  CanAlwaysTimeOut
PROPERTIES CommitsAreFinal
CHECK_DEADLOCK FALSE
SYMMETRY Symmetry
