SPECIFICATION LiveSpec
CONSTANTS
    h1 = h1
    h2 = h2
    group = group
    direct = direct
    boss = boss
    clerk = clerk
    m1 = m1
    m2 = m2
    m3 = m3
    p1 = p1
    p2 = p2
    w1 = w1
    w2 = w2
    rv1 = rv1
    r1 = r1
    f1 = f1
    c1 = c1
    op = op
    owner = owner
    None = None
    Hotels = {h1, h2}
    Chats = {group, direct}
    People = {boss, clerk}
    Admins = {}
    Messages = {m1}
    Mail <- SomeMail
    Listed <- Promotions
    InitialBinding <- Bindings
    InitialRank <- BossOwns
    MaxDeliveries = 2
    MaxChanges = 1
    MaxForgets = 1
CHECK_DEADLOCK FALSE
PROPERTIES
    AttemptsResolve
    ClaimsResolve
    MessagesAreAnswered
