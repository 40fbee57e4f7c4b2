SPECIFICATION Spec
CONSTANTS
    a1 = a1 a2 = a2 b = b c = c
    None = None
    Entries = {a1, a2, b, c}
    EntryOf <- LoggedEntries
    Limits = {0, 3}
    Tops = {1, 2}
    MaxLimit = 200
    PoolFactor = 2
    PoolMin = 2
    PoolMax = 4
    MaxTop = 2
    Widen = 1
    MinWindow = 3
    KeyTokens = 2
    SetTokens = 3
    MaxRuns = 1
INVARIANTS
    TypeOK
    EachEntryOnce
    PreparedAsChosen
CHECK_DEADLOCK FALSE
