SPECIFICATION FairTrade
CONSTANTS
    Parts = {"sync", "pings", "reprice", "price"}
    Items <- TwoRows
    Leagues = {l1, l2}
    Slugs = {s1, s2}
    Searches <- AllSearches
    None = None
    MAX_SOCKETS = 1
    Users <- OrHastily
    MaxQueue = 2
    Listings = {x, y}
    Watches = {w}
    FetchChunk = 1
    PingsMax = 1
    Recent = 24
    MaxMessages = 2
    MaxClicks = 1
    MaxLiveVisits = 1
    MaxClears = 1
    Rows = {1, 2}
    HistoryRows = {}
    FirstSearches <- OneRowEach
    Listed <- TwoItems
    Worth <- PriceTable
    Page = 2
    Ttl = 1
    MaxTime = 0
    MaxWindows = 2
    MaxRuns = 1
    MaxHides = 1
    MaxFinds = 1
    unique = unique
    map = map
    Strats = {1}
    Queue <- UniqueThenMap
    Linkable = {map}
    MaxLinks = 2
    MaxHours = 1
    MaxMinutes = 1
    MaxRates = 1
CHECK_DEADLOCK FALSE
INVARIANTS PatientInStep  SearchesAreOwn
PROPERTIES ArmedRuns RateLimitEnds
