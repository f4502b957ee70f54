SPECIFICATION Spec
CONSTANTS
    Objs = {o1, o2}
    Nodes = {n1}
    Types = {0, 2, 3, 5}
    ViewMod = 4
    Far = 2
    None = None
INVARIANTS TypeOK NoConcurrentMutation 
 
CHECK_DEADLOCK FALSE
