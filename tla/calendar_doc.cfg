SPECIFICATION AllSpec
CONSTANTS
    h1 = h1
    h2 = h2
    group = group
    direct = direct
    boss = boss
    clerk = clerk
    m1 = m1
    m2 = m2
    m3 = m3
    p1 = p1
    p2 = p2
    None = None
    d1 = d1
    Accounts = {a1, a2}
    BoundChats = {group}
    MaxEdits = 4
    MaxMenus = 2
    MaxReplies = 3
    MaxLapsed = 1
    Clicks = {d1}
    SourceOf <- Buttons
    MaxJobs = 3
    MaxEvents = 1
    Dates = {day1}
    Tags = {peak, low}
    Providers = {pv}
    Workers = {w1, w2}
    Hotels = {h1, h2}
    Chats = {group, direct}
    People = {boss, clerk}
    Admins = {}
    Messages = {m1, m2, m3}
    Mail <- SomeMail
    Listed <- Promotions
    InitialBinding <- Bindings
    InitialRank <- BossOwns
    MaxDeliveries = 2
    MaxChanges = 1
    MaxForgets = 1
CHECK_DEADLOCK FALSE
INVARIANT TagsAreKept
