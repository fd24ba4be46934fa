SPECIFICATION Spec
CONSTANTS
    l1 = l1
    l2 = l2
    d1 = d1
    d2 = d2
    Listeners = {l1, l2}
    Iterators = {d1, d2}
    MaxVersion = 3
CHECK_DEADLOCK FALSE
INVARIANTS
    TypeOK
    NoLeak
    ListenersInStep
    IteratorsSettle
PROPERTY SilentOnceGone
