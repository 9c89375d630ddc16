SPECIFICATION Spec
CONSTANTS
    op = op
    op2 = op2
    owner = owner
    p1 = p1
    p2 = p2
    w1 = w1
    w2 = w2
    None = None
    Users = {op, owner}
    Owners = {owner}
    Products = {p1, p2}
    Batches <- OneBatch
    Workers = {w1, w2}
    MaxTokens = 4
    MaxLapsed = 1
    Requesters = {op}
    Previews <- BatchOrSingles
    PluginResults = {"SUCCESS"}
    CanCrash = TRUE
SYMMETRY Interchangeable
CHECK_DEADLOCK FALSE
INVARIANTS
    TypeOK
    ClaimsAreExclusive
    TokensAreSingleUse
    StatusTellsWritten
    BatchInOrder
PROPERTIES
    PriceContract
