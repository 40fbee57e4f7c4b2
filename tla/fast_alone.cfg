SPECIFICATION Spec
CONSTANTS
    f1 = f1
    f2 = f2
    s1 = s1
    s2 = s2
    i1 = i1
    r1 = r1
    r2 = r2
    p1 = p1
    None = None
    Fast = {f1, f2}
    Strong = {s1, s2}
    Runs = {i1}
    Procs = {p1}
    Requests = {r1}
    Home <- OneProcess
    LoggedStatuses = {"pending", "promoted"}
    ResolvedArgs = {None, TRUE, FALSE}
    Payloads <- MCPayloads
    MaxRestarts = 1
SYMMETRY StrongSymmetry
INVARIANTS
    TypeOK
    TrailKeepsAudited
    WritesAudited
    PromotionMarksSource
    
PROPERTIES
    DryRunChangesNothing
    AppliedMeansDistilled
