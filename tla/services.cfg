SPECIFICATION AllSpec
CONSTANTS
    NO_NEW_ORDER = 1
    MaxTime = 5
    MaxOrders = 1
    MaxSnapshot = 5
    MaxDays = 1
    CanCrash = TRUE
    None = None
    Candidates = {k1}
    Demo = {k1}
    Worthless = {}
    MaxWrites = 4
    Rooms = 2
    TTL = 1
    Midnight = 1
    MaxClock = 3
    AsOfs <- NamedTimes
    Hotels <- NewOrKnown
    MaxQueries = 2
    MaxReports = 1
    MaxChanges = 1
    Users = {op, op2, owner}
    Owners = {owner}
    Products = {p1}
    Batches = {}
    MaxTokens = 2
    MaxLapsed = 1
    Requesters = {op}
    Previews <- SinglePreviews
    PluginResults = {"SUCCESS", "FAILED"}
    Workers = {w1, w2}
CHECK_DEADLOCK FALSE
INVARIANTS
    TypesOK
    AlertsAreObserved
    AlertMeansNoOrders
    SilenceIsReported
    PromotionsAreApproved
    ChangesReachAnswers
    ReportsAreWhole
    TasksAreAuthorized
PROPERTIES
    GoodPackagesAreKept
