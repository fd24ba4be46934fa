SPECIFICATION Spec
CONSTANTS
    NoBound = NoBound
    NoRegex = NoRegex
    NoLimit = NoLimit
    Exact = 3
    Meta <- MCMeta
    APPLIED_KEY <- MCAppliedKey
    Descriptors <- MCDescriptors
    Documents <- MCDocuments
    Ledgers <- MCLedgers
    Sorts <- MCSorts
    PageSizes <- MCPageSizes
    Text <- MCText
INVARIANTS
    TypeOK
    ScanIsExact
    LookupsAreExact
    PagesPartition
    OrderIsTotal
    SameHashSameSchema
