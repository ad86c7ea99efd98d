SPECIFICATION FairSpec
CONSTANTS
    Parts = {"save", "feed", "clip"}
    MaxIds = 3
    Queries = {1}
    HistoryCap = 1
    HistoryLimit = 1
    MaxDay = 1
    MaxNodes = 9
    MaxDepth = 9
    MaxDoc = 2
    MaxItems = 3
    Pastes = {2}
    Workers = {1, 2}
    Buffer = 1
    MaxTrouble = 1
    MaxToggles = 1
    Items = {x, y}
    MaxChecks = 1
    MaxCopies = 0
    MaxComings = 2
    MaxWire = 3
    Prompt = TRUE
    MaxEdits = 2
    Failures = TRUE
    Hasty = FALSE
CHECK_DEADLOCK FALSE
PROPERTIES EditsSaved WatchGoesOn
