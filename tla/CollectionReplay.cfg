SPECIFICATION Spec
CONSTANTS
    i1 = i1
    i2 = i2
    email = email
    role = role
    a = a
    b = b
    t1 = t1
    t2 = t2
    Ids = {i1, i2}
    Fields = {email, role}
    Indexed = {email, role}
    Unique = {email}
    Vals = {a, b}
    NoDoc = NoDoc
    NoId = NoId
    Callers = {t1}
    Filters <- TwoIndexFilters
    Patches <- TwoIndexPatches
    MaxOps = 2
    MaxRestores = 1
    NoCaller = NoCaller
    NoRows = NoRows
PROPERTY ImplementsUniqueStore
