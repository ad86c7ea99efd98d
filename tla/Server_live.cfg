SPECIFICATION FairSpec
CONSTANTS
    Parts = {"jobs", "seed", "digest", "stream"}
    Callers = {c}
    Shell = {s}
    Others = {o}
    Rulebook <- Both
    Initial <- Slow
    Longest = 4
    Ban = 3
    HoldCap = 2
    Retries = 1
    MaxTrouble = 2
    l1 = l1
    l2 = l2
    Kinds <- TwoKinds
    Leagues = {l1, l2}
    Workers = {w1, w2}
    None = None
    Raising <- BrokenArc
    Killing <- NoJobs
    MaxMishaps = 1
    MaxFaults = 1
    Watched = {}
    Days = 3
    MaxRev = 1
    MaxVersions = 0
    MaxHour = 3
    MaxFailures = 1
    NLoops = 1
    Top <- OnlyFirst
    Items = {a, o}
    Odd = {o}
    MaxMisses = 0
    BackfillHours = 1
    Keep = 2
    MaxStreams = 2
    MaxSaves = 1
    SEARCH_RETRIES = 1
    Cur = {"r", "a", "b", "c"}
    Ref = "r"
    Markets <- FiveMarkets
    Tapes <- FourTapes
    Weight <- Halving
    Outside <- TwoCloses
    Orders <- TwoOrders
    Recipes <- TwoRecipes
    Wide <- Twice
    MinVolume <- One
    OncePerPair = TRUE
    Books <- ManyBooks
    Coins = {"s", "a", "b"}
    Held <- TwoHeld
    Worth <- Twofold
    Budget = 9
    Amounts = {1, 4}
    MaxSteps = 3
    MaxCandidates = 5
    MaxLoops = 3
CHECK_DEADLOCK FALSE
PROPERTIES QueueGoesOn CutCatchesUp SearchSettles
