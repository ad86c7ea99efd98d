SPECIFICATION FairHome
CONSTANTS
    Parts = {"calc", "stash", "life", "report"}
    MaxStrats = 2
    MaxLevels = 2
    MaxRows = 1
    RowKeys = {r}
    MaxMade = 3
    MaxClock = 1
    CalcUsers <- MakesOrShares
    Meanwhile = {"clock"}
    SlowNetwork = FALSE
    Coins = {x}
    MaxStashVisits = 1
    MaxSales = 2
    MaxEdits = 2
    MaxFetches = 2
    MaxPolls = 1
    Trouble = {}
    MaxStarts = 3
    MaxDelay = 2
    MaxChecks = 2
    MaxLogins = 1
    Closing = {"page", "posting"}
    Dests <- TwoScreens
    KEEP_REPORTS = 2
    BlankShots = FALSE
    MaxReports = 3
CHECK_DEADLOCK FALSE
INVARIANTS   ShellHolds 
PROPERTIES BackendComesBack
