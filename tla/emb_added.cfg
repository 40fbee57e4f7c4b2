SPECIFICATION Spec
CONSTANTS
    a = a
    b = b
    e1 = e1
    e2 = e2
    r1 = r1
    r2 = r2
    p1 = p1
    None = None
    Models <- MCModels
    Entries <- TwoEntries
    Procs = {p1}
    Requests = {r1, r2}
    Home <- OneProcess
    Reembedders = {r1}
    BatchSize = 1
    MaxRestarts = 0
SYMMETRY EntrySymmetry
PROPERTIES
    AddedEntrySearchable
