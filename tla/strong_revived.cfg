SPECIFICATION Spec
CONSTANTS
    e1 = e1 e2 = e2 e3 = e3 f1 = f1
    c1 = c1 c2 = c2 c3 = c3
    a1 = a1 a2 = a2
    p1 = p1 p2 = p2 r1 = r1 r2 = r2
    Blank = Blank
    None = None
    HashDedup = TRUE
    SemanticDedup = TRUE
    Near <- NearC1C2
    Entries = {e1, e2, f1}
    Contents = {c1, c2}
    Agents = {a1}
    Procs = {p1, p2}
    Requests = {r1, r2}
    Home <- TwoProcesses
    Agent <- OneAgent
    Files <- FileOfOne
    TargetLists <- SingleTargets
    Texts = {None, c1}
    MaxRestarts = 0
PROPERTIES
    InvalidatedStaysInvalidated
