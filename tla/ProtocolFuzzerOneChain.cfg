CONSTANTS
    Msgs = {m1, m2}
    Txs = {x1}
    Chains = {c1}
    NodesList <- NodesList7
    Self = 5
    MessageTypes = {0, 4, 5}
    MaxMutations = 2
    MaxResends = 1
    None = None
SPECIFICATION Spec
SYMMETRY Symmetry
CHECK_DEADLOCK FALSE
INVARIANT SeedsKeepTheirType
INVARIANT NeverToSelf
 
