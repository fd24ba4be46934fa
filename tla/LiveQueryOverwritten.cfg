SPECIFICATION Spec
CONSTANTS
    l1 = l1
    l2 = l2
    d1 = d1
    d2 = d2
    Listeners = {l1}
    Iterators = {}
    MaxVersion = 2
CHECK_DEADLOCK FALSE
INVARIANT HoldsTheLatest
