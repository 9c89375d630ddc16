SPECIFICATION Spec
CONSTANTS
    rv1 = rv1
    r1 = r1
    r2 = r2
    c1 = c1
    c2 = c2
    w1 = w1
    w2 = w2
    f1 = f1
    None = None
    Reviews = {rv1}
    PlatformOf <- OneMeituan
    Refs = {f1}
    Requests = {r1}
    Contents = {c1}
    Workers = {w1, w2}
    RefTTL = 1
    ConfirmTTL = 0
    MaxTime = 1
    MaxSnapshot = 1
    MaxVersion = 2
    Unconfigured = {w2}
    WriterFails = TRUE
    CanCrash = TRUE
    Decisions = {"cancelled"}
    Reports = {"processing", "success", "failed"}
    Reported = {"ok"}
CHECK_DEADLOCK FALSE
PROPERTIES
    OutboxContract
