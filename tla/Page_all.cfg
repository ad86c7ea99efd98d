SPECIFICATION PageSpec
CONSTANTS
    Parts = {"settings", "theme", "colors", "ask", "release", "nav", "toasts", "signals", "window", "tally"}
    Absent = Absent
    MaxTouches = 2
    MaxOpens = 2
    MaxLosses = 1
    MaxWaiting = 2
    NoTable = NoTable
    Presets = {"vault", "ash"}
    DEFAULT_THEME = "vault"
    ThemeIds = {"c1", "c2"}
    ColorTables = {"t", "u"}
    MaxDeeds = 3
    MaxLoads = 1
    MaxReloads = 1
    White = 6
    Strong = 4
    Plain = 3
    MaxRecolors = 1
    Base = 4
    TierMax = 6
    ReviveMax = 3
    UseMax = 6
    MaxAsks = 2
    CIRuns = {"c1", "c2"}
    UPLOAD_TRIES = 2
    LIVE_TRIES = 2
    MaxDeaths = 1
    MaxScripts = 3
    MaxNavs = 4
    MaxToasts = 6
    Spikes = {"k1", "k2"}
    MaxPolls = 5
    Tabs = {"a", "b", "h"}
    HistoryTabs = {"h"}
    Slugs = {"s", "u"}
    BlankAfterBlank = FALSE
    MaxWindowsMade = 4
    MaxRunsMade = 2
    Lids = {"l1", "l2"}
    TabletTypes <- TabletKinds
    MAX_TABLETS = 4
    MarketPrices = {0, 8}
    MaxTallyEdits = 4
CHECK_DEADLOCK FALSE
INVARIANTS WishesKept ThemesAgree ColorsAreLegible  OfferedWholeOrNot AskedScreenShows EveryToastGoes CountedWasTold RowsAreTheirOwn
PROPERTIES TotalIsKept
