SPECIFICATION Spec
CONSTANTS
    i1 = i1
    i2 = i2
    email = email
    role = role
    a = a
    b = b
    t1 = t1
    t2 = t2
    Ids = {i1, i2}
    Fields = {email}
    Indexed = {email}
    Unique = {email}
    Vals = {a, b}
    NoDoc = NoDoc
    NoId = NoId
    Callers = {t1, t2}
    Filters <- OneIndexFilters
    Patches <- OneIndexPatches
    MaxOps = 2
    MaxRestores = 0
    NoCaller = NoCaller
    NoRows = NoRows
SYMMETRY Perms
INVARIANTS
    ConflictIsReal
