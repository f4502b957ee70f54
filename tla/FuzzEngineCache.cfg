SPECIFICATION Spec
CONSTANTS
    Objs = {o1, o2}
    Nodes = {n1}
    Types = {0}
    ViewMod = 4
    Far = 2
    None = None
INVARIANTS CachedPrePrepareUnmodified
CHECK_DEADLOCK FALSE
