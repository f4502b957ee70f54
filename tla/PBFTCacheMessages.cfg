CONSTANTS
    N = 2
    Self = 0
    Turn = 1
    Weight <- PairWeight
    Hashes = {h1, h2}
    MaxView = 2
    MaxResets = 1
    None = None
SPECIFICATION Spec
SYMMETRY HashSymmetry
CONSTRAINT FewSeen
INVARIANTS OneCommitHash PrecommitCertified SubmittedCertified WeightsMatch ExecutingIsRunning
PROPERTY ViewNeverFalls
