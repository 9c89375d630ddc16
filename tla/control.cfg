SPECIFICATION Spec
CONSTANTS
    a = a
    o1 = o1
    o2 = o2
    m = m
    w1 = w1
    w2 = w2
    None = None
    Users = {a, o1, o2, m}
    Admins = {a}
    InitialRole <- TwoOwners
    InitialBound = TRUE
    InitialGuard = TRUE
    Workers = {w1, w2}
    Askers = {o1, m}
    Kinds = {"chat", "formal", "card_policy", "card_role", "role", "join", "bind", "unbind"}
    Changes <- RoleChanges
    MaxRequests = 2
    MaxEvents = 4
    MaxLapsed = 1
    CanCrash = TRUE
SYMMETRY Interchangeable
CHECK_DEADLOCK FALSE
INVARIANTS
    TypeOK
    EffectsHappenOnce
    LogReplaysState
    StatusHasItsEvent
    ApproversAreOnRecord
    ChangesAreChained
