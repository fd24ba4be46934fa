SPECIFICATION Spec
CONSTANTS
    k1 = k1
    v1 = v1
    h1 = h1
    h2 = h2
    w1 = w1
    w2 = w2
    r1 = r1
    i1 = i1
    i2 = i2
    Ledger = Ledger
    NoValue = NoValue
    NoHash = NoHash
    NoFile = NoFile
    MaxDamage = 1
    Keys <- MCKeys
    Vals <- MCVals
    Versions <- MCVersions
    Hashes <- MCHashes
    Writers <- OneWriter
    Readers <- MCReaders
    Inodes <- MCInodes
SYMMETRY MCSymmetry
INVARIANTS
    TypeOK
    WholeBackups
PROPERTIES
    LedgerKeepsRuns
    RestoreIsWhole
