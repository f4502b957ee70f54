SPECIFICATION Spec
CONSTANTS
    MaxEpoch = 2
    PoolLimit = 2
    FirstCap = 1
    Kinds = {"proposal", "vote"}
    Freed = Freed
INVARIANTS PoolBounded ChooseFindsMessage
PROPERTIES FuzzerKeepsSending
CHECK_DEADLOCK FALSE
