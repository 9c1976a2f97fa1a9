CONSTANTS
    Users = {u1}
    MaxTokens = 3
    Browsers = {b1}
    Scripts = {}
    Requests = {r1, r2}
    RefreshTTL = 2
    None = None
    Keep = Keep
    RedisMayLose = FALSE
    Prompt = TRUE
SPECIFICATION Spec
SYMMETRY Symmetry
INVARIANTS OneLiveToken
