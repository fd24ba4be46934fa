SPECIFICATION FairSpec
CONSTANTS
    t1 = t1
    t2 = t2
    o1 = o1
    o2 = o2
    u1 = u1
    c1 = c1
    c2 = c2
    Uses = {u1}
    Lives = {c1}
    Transactions = {t1, t2}
    Ops = {o1, o2}
    NoTransaction = NoTransaction
CHECK_DEADLOCK FALSE
INVARIANTS
    TypeOK
    OneTransaction
    ReplayIsFaithful
    RegistryInStep
    FileOutlivesWork
PROPERTIES
    FileIsReleased
    FlagIsReleased
