SPECIFICATION Spec
CONSTANTS
    w1 = w1 w2 = w2 alpha = alpha Alpha = Alpha
    a1 = a1 a2 = a2 e1 = e1 e2 = e2 e3 = e3 r1 = r1
    None = None
    WorkspaceBucket = WorkspaceBucket
    GlobalBucket = GlobalBucket
    GlobalWorkspace = GlobalWorkspace
    Workspaces = {w1, w2}
    ProjectNames = {alpha, Alpha}
    Canonical <- Lower
    Agents = {a1, a2}
    Owners = {a1}
    Actors <- Spellings
    DefaultProject <- Default
    Entries = {e1, e2}
    Requests = {r1}
    Compositions <- AllOrProject
    Limit = 1
    Window = 1
SYMMETRY EntrySymmetry
PROPERTIES
    AddedEntryFound
