SPECIFICATION Spec
CONSTANTS
    rv1 = rv1
    r1 = r1
    r2 = r2
    c1 = c1
    c2 = c2
    w1 = w1
    w2 = w2
    f1 = f1
    None = None
    Reviews = {rv1}
    PlatformOf <- OneMeituan
    Refs = {f1}
    Requests = {r1, r2}
    Contents = {c1, c2}
    Workers = {w1, w2}
    RefTTL = 1
    ConfirmTTL = 0
    MaxTime = 0
    MaxSnapshot = 0
    MaxVersion = 2
    Unconfigured = {}
    WriterFails = FALSE
    CanCrash = FALSE
    Decisions = {}
    Reports = {"failed"}
    Reported = {}
SYMMETRY Interchangeable
CHECK_DEADLOCK FALSE
INVARIANTS
    TypeOK
    ExclusiveWriter
    ConfirmedWasWritten
    WritesAccountedFor
    AuditMatchesStatus
PROPERTIES
    SealedRequests
