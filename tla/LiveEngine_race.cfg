SPECIFICATION Spec
CONSTANTS
    Items = {i1, i2}
    Searches = {s1}
    None = None
    MAX_SOCKETS = 1
    Recs = {r1, r2}
    Socks = {w1, w2}
    AttemptCap = 1
    StopDuringConnect = TRUE
SYMMETRY Identities
INVARIANTS NeverStranded
PROPERTIES ImplementsRegistry
