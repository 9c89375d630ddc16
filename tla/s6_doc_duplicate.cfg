SPECIFICATION Spec
CONSTANTS
    op = op
    op2 = op2
    owner = owner
    p1 = p1
    p2 = p2
    w1 = w1
    w2 = w2
    None = None
    Users = {op, owner}
    Owners = {owner}
    Products = {p1}
    Batches <- NoBatches
    Workers = {w1, w2}
    MaxTokens = 2
    MaxLapsed = 0
    Requesters = {op}
    Previews <- TwoSingles
    PluginResults = {"SUCCESS"}
    CanCrash = FALSE
CHECK_DEADLOCK FALSE
INVARIANTS
    NoDuplicatePending
