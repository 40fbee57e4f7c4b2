SPECIFICATION Spec
CONSTANTS
    p1 = p1 p2 = p2 p3 = p3 r1 = r1 r2 = r2
    old = old new = new given = given odd = odd note = note
    s1 = s1 s2 = s2 v1 = v1 v2 = v2
    Plain = Plain
    Legacy = Legacy
    Foreign = Foreign
    None = None
    Procs = {p1, p2, p3}
    Loopback = {p1}
    WithToken = {p2}
    Requests = {r1, r2}
    Bearers = {r1}
    Entries = {old, new, given, odd, note}
    Inherited = {old}
    Sensitive = {new}
    SignalsOf <- ContentSignals
    Salts = {s1, s2}
    ForeignRows <- GivenRows
    Versions = {v1, v2}
    Current = v1
    Watched = {"accepted", "export", "import"}
    PageLimit = 2
    MaxRequests = 2
    MaxStops = 1
SYMMETRY SaltSymmetry
INVARIANTS
    TypeOK
    KeysAgree
    
    NoGaps
    StrangersStayLocal
    DeniedStaysOut
PROPERTIES
    ImportAccounted
    ImplementsInstallationKey
