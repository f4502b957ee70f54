CONSTANTS
    N = 2
    Self = 0
    Turn = 0
    Weight <- PairWeight
    Hashes = {h1}
    MaxView = 1
    MaxResets = 1
    None = None
SPECIFICATION Spec
INVARIANT ExecutedOnce
