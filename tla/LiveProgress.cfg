SPECIFICATION FairSpec
CONSTANTS
    c1 = c1
    c2 = c2
    s1 = s1
    s2 = s2
    w1 = w1
    w2 = w2
    Collections = {c1}
    Subs = {s1}
    CollOf <- OneSub
    Writers = {w1, w2}
    MaxVersion = 2
    NoSub = NoSub
CHECK_DEADLOCK FALSE
INVARIANTS
    TypeOK
    NoLostWakeup
    StaleIsPending
PROPERTIES
    CommitsAreSeen
    DropTerminates
    ClosedSinksAreReaped
    ImplementsFeed
