SPECIFICATION FairSpec
CONSTANTS
    Items = {i1, i2}
    Searches = {s1}
    None = None
    MAX_SOCKETS = 1
    Recs = {r1, r2}
    Socks = {w1, w2}
    AttemptCap = 2
    StopDuringConnect = FALSE
INVARIANTS SocketsAreCounted
PROPERTIES GoesLive
