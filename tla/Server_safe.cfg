SPECIFICATION ServerSpec
CONSTANTS
    Parts = {"gate", "seed", "digest", "stream"}
    Callers = {c}
    Shell = {s}
    Others = {o}
    Rulebook <- Both
    Initial <- Slow
    Longest = 4
    Ban = 3
    HoldCap = 2
    Retries = 1
    MaxTrouble = 1
    l1 = l1
    l2 = l2
    Kinds <- TwoKinds
    Leagues = {l1, l2}
    Workers = {w1, w2}
    None = None
    Raising <- BrokenArc
    Killing <- NoJobs
    MaxMishaps = 2
    MaxFaults = 1
    Watched = {a}
    Days = 2
    MaxRev = 2
    MaxVersions = 1
    MaxHour = 4
    MaxFailures = 2
    NLoops = 2
    Top <- OnlySecond
    Items = {a, o}
    Odd = {o}
    MaxMisses = 1
    BackfillHours = 1
    Keep = 2
    MaxStreams = 2
    MaxSaves = 1
    SEARCH_RETRIES = 1
    Cur = {"r", "a", "b", "c"}
    Ref = "r"
    Markets <- FiveMarkets
    Tapes <- FourTapes
    Weight <- Halving
    Outside <- TwoCloses
    Orders <- TwoOrders
    Recipes <- TwoRecipes
    Wide <- Twice
    MinVolume <- One
    OncePerPair = TRUE
    Books <- ManyBooks
    Coins = {"s", "a", "b"}
    Held <- TwoHeld
    Worth <- Twofold
    Budget = 9
    Amounts = {1, 4}
    MaxSteps = 3
    MaxCandidates = 5
    MaxLoops = 3
CHECK_DEADLOCK FALSE
INVARIANTS RulesHold BoxOutlastsBan DigestIsSound SameLoopsEitherWay
PROPERTIES SeedsAreSound
